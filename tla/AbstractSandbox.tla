--------------------------- MODULE AbstractSandbox ---------------------------
(***************************************************************************)
(* What a game is promised about its saves (docs/design/sandbox, 01 and    *)
(* 03): a file is durable from its flush on, a removal at once, and the    *)
(* next session finds what is durable.  A crash loses what was not flushed *)
(* and may cut a rename in two, with the content under both names.         *)
(***************************************************************************)
CONSTANTS Paths, Contents, Absent

VARIABLES seen,      (* the content of each file for the running game      *)
          durable,   (* the content of each file after a restart           *)
          up         (* a session is running                               *)

vars == <<seen, durable, up>>

Nothing == [p \in Paths |-> Absent]

Init ==
  /\ seen = Nothing
  /\ durable \in [Paths -> Contents \cup {Absent}]
  /\ ~up

Start == ~up /\ up' /\ seen' = durable /\ UNCHANGED durable

Write(p, c) == up /\ seen' = [seen EXCEPT ![p] = c] /\ UNCHANGED <<durable, up>>

Flush(p) ==
  /\ up /\ seen[p] # Absent
  /\ durable' = [durable EXCEPT ![p] = seen[p]]
  /\ UNCHANGED <<seen, up>>

Remove(p) ==
  /\ up /\ seen[p] # Absent
  /\ seen' = [seen EXCEPT ![p] = Absent]
  /\ durable' = [durable EXCEPT ![p] = Absent]
  /\ UNCHANGED up

\* A rename that fails still moves the name for this session; what is durable
\* may then have neither name changed, or the content under both.
Rename(p, q) ==
  /\ up /\ seen[p] # Absent /\ p # q
  /\ seen' = [seen EXCEPT ![p] = Absent, ![q] = seen[p]]
  /\ \/ durable' = [durable EXCEPT ![p] = Absent, ![q] = seen[p]]
     \/ durable' = [durable EXCEPT ![q] = seen[p]]
     \/ UNCHANGED durable
  /\ UNCHANGED up

\* The session ends, perhaps in the middle of one of its operations.
Stop ==
  /\ up /\ ~up'
  /\ seen' = Nothing
  /\ \/ UNCHANGED durable
     \/ \E p \in Paths : durable' = [durable EXCEPT ![p] = Absent]
     \/ \E p, q \in Paths :
          seen[p] # Absent /\ durable' = [durable EXCEPT ![q] = seen[p]]
     \/ \E p, q \in Paths :
          seen[p] # Absent /\ durable' = [durable EXCEPT ![p] = Absent, ![q] = seen[p]]

\* The player clears the saves: what a package brought is back.
Clear == ~up /\ durable' \in [Paths -> Contents \cup {Absent}] /\ UNCHANGED <<seen, up>>

Next ==
  \/ Start \/ Stop \/ Clear
  \/ \E p \in Paths : Flush(p) \/ Remove(p) \/ \E c \in Contents : Write(p, c)
  \/ \E p, q \in Paths : Rename(p, q)

Spec == Init /\ [][Next]_vars
=============================================================================
