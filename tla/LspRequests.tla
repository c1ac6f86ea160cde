----------------------------- MODULE LspRequests -----------------------------
(***************************************************************************)
(* Requests that need a symbol table (completion, hover, definition,       *)
(* document symbols; pengu_lsp/server.py): a request for a document that   *)
(* has none waits for the validation that is pending, goes over to the run *)
(* that replaces it, and gives up when its ten seconds are over.           *)
(*                                                                         *)
(* Requests only read, so one at a time stands for any number of them.     *)
(***************************************************************************)
EXTENDS LspValidation

CONSTANT Asked       \* the documents that are asked about

VARIABLE request     \* the one that waits: its document, the task it awaits (0
                     \* after a sleep(0)), and whether its deadline has passed

requestVars == <<vars, request>>

Requests == [uri : Docs, on : Ids \union {0}, late : BOOLEAN]

ASSUME RequestAssumption == Asked \subseteq Docs /\ None \notin Requests

\* From one await of _await_pending_validation to the next, or to the answer.
Turn(d, late) ==
    IF symbols[d] # None \/ current[d] = 0 \/ late
    THEN request' = None
    ELSE request' = [uri |-> d, on |-> current[d], late |-> FALSE]

Ask(d) ==
    /\ request = None
    /\ d \in Asked /\ editor[d] # None /\ Received
    /\ Turn(d, FALSE)
    /\ UNCHANGED vars

\* (A mistake: a request whose run is over is answered, whatever came after.)
Answer ==
    /\ request # None /\ request.on = 0
    /\ request' = None
    /\ UNCHANGED vars

LookAgain ==
    /\ request # None /\ request.on = 0
    /\ Turn(request.uri, request.late)
    /\ UNCHANGED vars

\* The deadline passes: wait_for raises, or the next turn finds no time left.
Expire ==
    /\ request # None /\ ~request.late
    /\ request' = [request EXCEPT !.late = TRUE, !.on = 0]
    /\ UNCHANGED vars

\* The client withdraws it.  The handler swallows the CancelledError as it does
\* that of the run, and waits on.
CancelRequest ==
    /\ request # None /\ request.on # 0
    /\ request' = [request EXCEPT !.on = 0]
    /\ UNCHANGED vars

\* Task i is over after this step: it finished, or it was cancelled, and its
\* place may already belong to another.
Ends(i) ==
    \/ task'[i].at \in {"free", "orphan"}
    \/ <<task'[i].uri, task'[i].gen>> # <<task[i].uri, task[i].gen>>

Noticed ==
    request' = IF request # None /\ request.on # 0 /\ Ends(request.on)
               THEN [request EXCEPT !.on = 0] ELSE request

ServerStep == Next /\ Noticed

RequestNext ==
    \/ ServerStep
    \/ \E d \in Docs : Ask(d)
    \/ LookAgain \/ Expire \/ CancelRequest

RequestInit == Init /\ request = None

RequestSpec == RequestInit /\ [][RequestNext]_requestVars

\* The fairness of FairSpec; nothing is asked of requests or of the clock.
FairRequestSpec == RequestSpec /\ WF_vars(Loop) /\ WF_vars(Worker) /\ WF_vars(Watcher)

-----------------------------------------------------------------------------
(* A request that is answered in time has a symbol table to work with, how *)
(* often the run it waited for was replaced, unless the client has closed  *)
(* the document or the checker crashed on its text: "so an immediate       *)
(* request sees it" (_await_pending_validation, pengu_lsp/server.py:933).  *)
FirstAnswerHasTable ==
    [][request # None /\ ~request.late /\ request' = None =>
         LET d == request.uri
         IN  \/ symbols[d] # None \/ editor[d] = None
             \/ cache[d] # None /\ cache[d].text \in Crashing]_requestVars
=============================================================================
