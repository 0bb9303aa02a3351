-------------------------- MODULE MutationContract --------------------------
(***************************************************************************)
(* What DESIGN.md promises of mutations: a call compares and writes in one *)
(* indivisible step, or changes nothing; an operation id creates at most   *)
(* one remote object; and the answer says which of these happened.         *)
(***************************************************************************)
EXTENDS Naturals

CONSTANTS Call, Resource, Content, Operation, Request, InitialFiles, None

VARIABLES request, files, posted, effective, answer

vars == <<request, files, posted, effective, answer>>

Init ==
    /\ request = [c \in Call |-> None]
    /\ files = InitialFiles
    /\ posted = [o \in Operation |-> 0]
    /\ effective = {}
    /\ answer = [c \in Call |-> None]

Ask(c, q) ==
    /\ request[c] = None
    /\ request' = [request EXCEPT ![c] = q]
    /\ UNCHANGED <<files, posted, effective, answer>>

\* The state a request was written against.
Expected(q) ==
    CASE q.kind = "create" -> files[q.resource] = None
      [] q.kind = "move" -> files[q.resource] = q.base /\ files[q.to] = None
      [] q.kind \in {"replace", "edit", "remove", "field"} ->
           files[q.resource] = q.base
      [] q.kind = "post" -> posted[q.op] = 0

\* The state it leaves.
Changed(q) ==
    CASE q.kind \in {"create", "replace", "edit", "field"} ->
           [files EXCEPT ![q.resource] = q.content]
      [] q.kind = "remove" -> [files EXCEPT ![q.resource] = None]
      [] q.kind = "move" ->
           [files EXCEPT ![q.to] = q.base, ![q.resource] = None]
      [] q.kind = "post" -> files

\* The change, with or before its answer.
Apply(c) ==
    /\ request[c] # None
    /\ answer[c] = None
    /\ c \notin effective
    /\ Expected(request[c])
    /\ files' = Changed(request[c])
    /\ posted' = [o \in Operation |->
                    IF request[c].kind = "post" /\ request[c].op = o
                    THEN 1 ELSE posted[o]]
    /\ effective' = effective \cup {c}
    /\ \E a \in {None, "ok", "unknown"} :
         /\ a = "unknown" => request[c].kind \in {"field", "post"}
         /\ answer' = [answer EXCEPT ![c] = a]
    /\ UNCHANGED request

Tell(c, a) ==
    /\ request[c] # None
    /\ answer[c] = None
    /\ a = "ok" => \/ c \in effective
                   \/ request[c].kind = "post" /\ posted[request[c].op] = 1
    /\ a \in {"refused", "cancelled"} => c \notin effective
    /\ a = "unknown" => request[c].kind \in {"field", "post"}
    /\ answer' = [answer EXCEPT ![c] = a]
    /\ UNCHANGED <<request, files, posted, effective>>

\* Another program writes.
Disturb(r, x) ==
    /\ files' = [files EXCEPT ![r] = x]
    /\ UNCHANGED <<request, posted, effective, answer>>

Next ==
    \/ \E c \in Call :
         \/ \E q \in Request : Ask(c, q)
         \/ Apply(c)
         \/ \E a \in {"ok", "refused", "cancelled", "unknown"} : Tell(c, a)
    \/ \E r \in Resource, x \in Content \cup {None} : Disturb(r, x)

Spec == Init /\ [][Next]_vars
=============================================================================
