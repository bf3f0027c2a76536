----------------------------- MODULE KillSwitch -----------------------------
(***************************************************************************)
(* The persisted kill switch of mercury.services.risk: one system_state    *)
(* row, written by operators (CLI processes, commands on the mesh thread)  *)
(* and by whoever reads it after rearm_after_hours, because a read of an   *)
(* expired switch turns it off (the event loop on each signal, the mesh    *)
(* thread on each heartbeat).  Every database session of an actor is one   *)
(* step; sessions of different actors interleave.                          *)
(***************************************************************************)
EXTENDS Naturals

CONSTANT Actors   \* threads and processes that call the risk service

VARIABLES
  row,      \* system_state["kill_switch"]
  pc,       \* where each actor is
  job,      \* what it is doing
  attempt,  \* its tries at _set_kill_switch
  late      \* actors about to re-arm a switch that was armed anew since they
            \* read it (history)

vars == <<row, pc, job, attempt, late>>

Rows == {"absent", "off", "on", "expired"}   \* expired: on for too long
Jobs == {"none", "on", "off", "check", "rearm"}
Steps == {"idle", "read", "load", "insert", "raised"}
Tries == 2

Active == row \in {"on", "expired"}

\* the value stored for a toggle
Written(active) == IF active THEN "on" ELSE "off"

Init ==
  /\ row = "absent"
  /\ pc = [a \in Actors |-> "idle"]
  /\ job = [a \in Actors |-> "none"]
  /\ attempt = [a \in Actors |-> 0]
  /\ late = {}

\* The call is over: its locals are gone.
Return(a) ==
  /\ pc' = [pc EXCEPT ![a] = "idle"]
  /\ job' = [job EXCEPT ![a] = "none"]
  /\ attempt' = [attempt EXCEPT ![a] = 0]

\* A toggle that arms the switch overtakes everyone on the way to re-arm it.
Overtakes(a) ==
  late' = (IF row' = "on" THEN late \cup {b \in Actors : job[b] = "rearm"} ELSE late) \ {a}

\* set_kill_switch(active)
CallSet(a, active) ==
  /\ pc[a] = "idle"
  /\ pc' = [pc EXCEPT ![a] = "load"]
  /\ job' = [job EXCEPT ![a] = Written(active)]
  /\ attempt' = [attempt EXCEPT ![a] = 1]
  /\ UNCHANGED <<row, late>>

\* kill_switch_active()
CallCheck(a) ==
  /\ pc[a] = "idle"
  /\ pc' = [pc EXCEPT ![a] = "read"]
  /\ job' = [job EXCEPT ![a] = "check"]
  /\ UNCHANGED <<row, attempt, late>>

\* mutated: armed_at is not compared with rearm_after_hours
LapsedAtOnce == row \in {"on", "expired"}

\* armed_at + rearm_after_hours lies in the past
Lapsed == row = "expired"

\* _kill_switch_active: the read session.  Only a switch seen expired leads
\* on to _set_kill_switch(False), in a session of its own.
Read(a) ==
  /\ pc[a] = "read"
  /\ IF Lapsed
     THEN /\ pc' = [pc EXCEPT ![a] = "load"]
          /\ job' = [job EXCEPT ![a] = "rearm"]
          /\ attempt' = [attempt EXCEPT ![a] = 1]
     ELSE Return(a)
  /\ UNCHANGED <<row, late>>

\* the new row: active or not, armed_at now
Target(a) == Written(job[a] = "on")

\* _set_kill_switch: the row exists and is locked, so the read and the write
\* are one step.
Update(a) ==
  /\ pc[a] = "load" /\ row # "absent"
  /\ row' = Target(a)
  /\ Return(a) /\ Overtakes(a)

\* No row yet: nothing is locked, and another actor may insert first.
LoadAbsent(a) ==
  /\ pc[a] = "load" /\ row = "absent"
  /\ pc' = [pc EXCEPT ![a] = "insert"]
  /\ UNCHANGED <<row, job, attempt, late>>

Insert(a) ==
  /\ pc[a] = "insert" /\ row = "absent"
  /\ row' = Target(a)
  /\ Return(a) /\ Overtakes(a)

\* mutated: a conflict is final
MayRetryNot(a) == FALSE

MayRetry(a) == attempt[a] < Tries

\* IntegrityError: try again, or give up with a RuntimeError.
InsertConflict(a) ==
  /\ pc[a] = "insert" /\ row # "absent"
  /\ IF MayRetry(a)
     THEN /\ pc' = [pc EXCEPT ![a] = "load"]
          /\ attempt' = [attempt EXCEPT ![a] = @ + 1]
     ELSE /\ pc' = [pc EXCEPT ![a] = "raised"]
          /\ UNCHANGED attempt
  /\ UNCHANGED <<row, job, late>>

\* rearm_after_hours pass since armed_at.
Expire == row = "on" /\ row' = "expired" /\ UNCHANGED <<pc, job, attempt, late>>

Next ==
  \/ Expire
  \/ \E a \in Actors : \/ \E active \in BOOLEAN : CallSet(a, active)
                       \/ CallCheck(a) \/ Read(a)
                       \/ Update(a) \/ LoadAbsent(a) \/ Insert(a) \/ InsertConflict(a)

Spec == Init /\ [][Next]_vars

-----------------------------------------------------------------------------
TypeOK ==
  /\ row \in Rows
  /\ pc \in [Actors -> Steps]
  /\ job \in [Actors -> Jobs]
  /\ attempt \in [Actors -> 0..Tries]
  /\ late \subseteq Actors

\* The retry after a lost first insert always finds the row: an operator's
\* toggle never ends in the RuntimeError of _set_kill_switch.
NeverRaises == \A a \in Actors : pc[a] # "raised"

\* Every variable has its type, and no toggle fails.
SwitchInv == TypeOK /\ NeverRaises

\* An operator's arming lasts until an operator turns it off or it lapses.  One
\* race ends it early: an actor that had read the switch as lapsed, before that
\* arming, writes its re-arm after it (read and write are two sessions).
OnlyLateDisarms ==
  [][row = "on" /\ row' = "off" =>
       \E a \in Actors : \/ job[a] = "off" /\ job'[a] = "none"
                        \/ a \in late \ late']_vars

=============================================================================
