------------------------------- MODULE Router -------------------------------
(***************************************************************************)
(* The path router (src/router.rs): from_spec inserts the path items of a  *)
(* document one after the other into a matchit router, find_operation      *)
(* answers with the operation for a method and a path.                     *)
(*                                                                         *)
(* matchit is outside of the repository: it refuses a template of the same *)
(* shape as one it has, and of the templates that match a path it answers  *)
(* with the one that is written out where the others take any segment.     *)
(***************************************************************************)
EXTENDS Naturals, Sequences

CONSTANTS
    Segments,    \* what a segment of a path can be
    NoSegment,   \* the empty segment, as after a trailing slash
    Methods,     \* the HTTP methods
    Operations,  \* what an operation can be
    PathParams,  \* what the path parameters an item declares can be
    Documents,   \* the OpenAPI documents examined: their path items, in order
    Requests,    \* the requests examined, with their method and path
    NoRequest    \* no request has come

\* A segment of a template: written out, or a parameter and its name.
Part == [literal : BOOLEAN, text : Segments]

\* openapiv3: the value of a key of paths; of one that is a reference to another
\* item nothing is read.
PathItem == [template : Seq(Part), reference : BOOLEAN, params : PathParams,
             operations : UNION {[M -> Operations] : M \in SUBSET Methods}]

ASSUME RouterAssumption ==
    /\ \A d \in Documents : d \in Seq(PathItem)
    /\ NoRequest \notin Requests
    /\ \A r \in Requests : r.method \in Methods /\ r.path \in Seq(Segments)

VARIABLES
    document,  \* the path items of the document: fixed
    loaded,    \* how many of them from_spec has seen
    routes,    \* the positions of those in the matchit router
    request,   \* the request being routed
    answer     \* what find_operation came to

routerVars == <<document, loaded, routes, request, answer>>

\* RouteMatch, or a RoutingError: 404 PathNotFound, 405 MethodNotAllowed.
Unanswered == [status |-> 0, route |-> 0]
Answer == {Unanswered, [status |-> 404, route |-> 0]} \cup [status : {200, 405}, route : Nat \ {0}]

RouterInit ==
    /\ document \in Documents
    /\ loaded = 0 /\ routes = {}
    /\ request = NoRequest /\ answer = Unanswered

-----------------------------------------------------------------------------
\* matchit.

\* Templates that matchit cannot tell apart: the names of parameters are no
\* difference.
SameShape(t, u) ==
    /\ Len(t) = Len(u)
    /\ \A i \in DOMAIN t : /\ t[i].literal = u[i].literal
                           /\ t[i].literal => t[i].text = u[i].text

\* A parameter takes any segment that is not empty.
Matches(t, path) ==
    /\ Len(t) = Len(path)
    /\ \A i \in DOMAIN t : IF t[i].literal THEN path[i] = t[i].text ELSE path[i] # NoSegment

\* Of two templates that match a path, t is written out where they part first.
Prefers(t, u) ==
    \E i \in DOMAIN t : /\ t[i].literal /\ ~u[i].literal
                        /\ \A j \in 1..(i - 1) : t[j].literal = u[j].literal

Template(i) == document[i].template

\* insert fails.
Conflicts(i) == \E j \in routes : SameShape(Template(j), Template(i))

\* at answers with route i.
MatchedBy(i, path) ==
    /\ i \in routes /\ Matches(Template(i), path)
    /\ \A j \in routes \ {i} : Matches(Template(j), path) => Prefers(Template(i), Template(j))

-----------------------------------------------------------------------------
\* The router.

HasOperations(item) == ~item.reference /\ DOMAIN item.operations # {}

\* Faulty variant: an item without operations keeps its place in the router.
AddRouteEmpty(i) == IF Conflicts(i) THEN routes ELSE routes \cup {i}

\* The next path item of from_spec; of a conflict there is a warning.
AddRoute(i) ==
    IF HasOperations(document[i]) /\ ~Conflicts(i) THEN routes \cup {i} ELSE routes

LoadItem ==
    /\ loaded < Len(document)
    /\ loaded' = loaded + 1
    /\ routes' = AddRoute(loaded + 1)
    /\ UNCHANGED <<document, request, answer>>

\* A request comes for a router that is built, the next one after an answer: every
\* stream has a clone of the same router.
Arrive ==
    /\ loaded = Len(document)
    /\ request = NoRequest \/ answer # Unanswered
    /\ request' \in Requests
    /\ answer' = Unanswered
    /\ UNCHANGED <<document, loaded, routes>>

Routing == request # NoRequest /\ answer = Unanswered

\* find_operation, on the route that matches.
MatchRoute ==
    /\ Routing
    /\ \E i \in routes :
          /\ MatchedBy(i, request.path)
          /\ answer' = [status |-> IF request.method \in DOMAIN document[i].operations
                                   THEN 200 ELSE 405,
                        route |-> i]
    /\ UNCHANGED <<document, loaded, routes, request>>

\* find_operation, when no route matches.
MatchNone ==
    /\ Routing
    /\ \A i \in routes : ~Matches(Template(i), request.path)
    /\ answer' = [status |-> 404, route |-> 0]
    /\ UNCHANGED <<document, loaded, routes, request>>

RouterNext == LoadItem \/ Arrive \/ MatchRoute \/ MatchNone

RouterSpec == RouterInit /\ [][RouterNext]_routerVars

-----------------------------------------------------------------------------
\* Properties

RouterTypeOK ==
    /\ document \in Documents
    /\ loaded \in 0..Len(document)
    /\ routes \subseteq 1..loaded
    /\ request \in Requests \cup {NoRequest}
    /\ answer \in Answer

\* Of the items that from_spec has seen, the router has the first of each shape
\* with operations, and nothing else.
RoutesKept ==
    /\ \A i \in 1..loaded : HasOperations(document[i]) =>
          \E j \in routes : j <= i /\ SameShape(Template(j), Template(i))
    /\ \A i \in routes : HasOperations(document[i])
    /\ \A i, j \in routes : SameShape(Template(i), Template(j)) => i = j

\* The items that declare an operation for the path of the request.
Declared == {i \in DOMAIN document : /\ HasOperations(document[i])
                                     /\ Matches(Template(i), request.path)}

\* A request for a declared path is never a 404, one that is served is served by
\* an item that declares its method for its path, and one that is a 405 although
\* an item declares it has an item before or above that one in its place.
DeclaredOperationServed ==
    answer # Unanswered =>
        /\ answer.status = 404 <=> Declared = {}
        /\ answer.status # 404 => answer.route \in Declared
        /\ answer.status = 200 => request.method \in DOMAIN document[answer.route].operations
        /\ answer.status = 405 => \A i \in Declared :
              request.method \in DOMAIN document[i].operations =>
                  \/ SameShape(Template(answer.route), Template(i)) /\ answer.route < i
                  \/ Prefers(Template(answer.route), Template(i))

\* docs/architecture.md: a route conflict, that is duplicate paths in matchit,
\* keeps Envoy from starting.
ConflictsRefused ==
    loaded = Len(document) => \A i \in DOMAIN document :
        HasOperations(document[i]) => i \in routes
=============================================================================
