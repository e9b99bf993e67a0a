---------------------------- MODULE SectorStore ----------------------------
(***************************************************************************)
(* What the buffer cache promises to the file system: a store of sectors   *)
(* in which every call takes effect once, at one moment between its        *)
(* beginning and its end, and in which nothing else changes a sector.      *)
(***************************************************************************)
CONSTANTS Threads, Sectors, Parts, Values,
          Requests,   \* records with the fields op, sector, parts and value
          NULL

VARIABLES contents, request, phase, reply

vars == <<contents, request, phase, reply>>

Contents == [Parts -> Values]

Overwrite(old, r) == [x \in Parts |-> IF x \in r.parts THEN r.value ELSE old[x]]

Ask(t) ==
  /\ phase[t] = "idle"
  /\ phase' = [phase EXCEPT ![t] = "asked"]
  /\ \E r \in Requests : request' = [request EXCEPT ![t] = r]
  /\ UNCHANGED <<contents, reply>>

Effect(t) ==
  LET r == request[t] IN
  /\ phase[t] = "asked"
  /\ phase' = [phase EXCEPT ![t] = "answered"]
  /\ \/ /\ r.op = "read"
        /\ reply' = [reply EXCEPT ![t] = contents[r.sector]]
        /\ UNCHANGED contents
     \/ /\ r.op = "write"
        /\ contents' = [contents EXCEPT ![r.sector] = Overwrite(@, r)]
        /\ UNCHANGED reply
  /\ UNCHANGED request

Return(t) ==
  /\ phase[t] = "answered"
  /\ phase' = [phase EXCEPT ![t] = "idle"]
  /\ request' = [request EXCEPT ![t] = NULL]
  /\ UNCHANGED <<contents, reply>>

Init == /\ contents \in [Sectors -> Contents]
        /\ request = [t \in Threads |-> NULL]
        /\ phase = [t \in Threads |-> "idle"]
        /\ reply \in [Threads -> Contents]

Next == \E t \in Threads : Ask(t) \/ Effect(t) \/ Return(t)

Spec == Init /\ [][Next]_vars
=============================================================================
