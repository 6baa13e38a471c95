------------------------------ MODULE Snowflake ------------------------------
(***************************************************************************)
(* The id generator of a binary: order, event, refund and intent ids are   *)
(* (milliseconds, machine, sequence) packed into one integer.  Every       *)
(* binary has its own wall clock, which runs ahead in jumps and may be     *)
(* stepped back; a restarted binary has forgotten what it issued.  Times   *)
(* are counted from the code's epoch.                                      *)
(***************************************************************************)
EXTENDS Integers, Sequences, SequencesExt

CONSTANTS
  Binary,       \* running copies of the server and the worker
  Env,          \* Env[b]: SNOWFLAKE_MACHINE_ID of b, or Unset
  Unset,
  MachineSpan,  \* machine ids (2^10 in the code)
  SeqSpan,      \* sequence numbers of a millisecond (2^12 in the code)
  MaxTime,      \* bound: the clocks stop here, unless someone waits for them
  MaxIds,       \* bound: ids a binary issues
  MaxBack,      \* bound: times a clock is stepped back
  MaxRestarts   \* bound: restarts

ASSUME SpanAssumption == {MachineSpan, SeqSpan} \subseteq Nat \ {0}
ASSUME EnvAssumption  == Env \in [Binary -> Nat \cup {Unset}] /\ Unset \notin Nat
ASSUME IdBounds       == {MaxTime, MaxIds, MaxBack, MaxRestarts} \subseteq Nat

VARIABLES
  clock,     \* clock[b]: what time.Now() tells b
  lastMs,    \* the millisecond of the last id
  seq,       \* the sequence number of the last id
  spinning,  \* b waits, with the mutex held, for a new millisecond
  issued,    \* issued[b]: the ids b has issued, in order
  starts,    \* ghost: how many it had issued at each of its restarts
  faults     \* steps back and restarts so far

vars == <<clock, lastMs, seq, spinning, issued, starts, faults>>

-----------------------------------------------------------------------------
machineID(b) == IF Env[b] = Unset THEN 1 % MachineSpan ELSE Env[b] % MachineSpan

Pack(b, ms, s) == (ms * MachineSpan + machineID(b)) * SeqSpan + s

Init ==
  /\ clock = [b \in Binary |-> 1]
  /\ lastMs = [b \in Binary |-> 0] /\ seq = [b \in Binary |-> 0]
  /\ spinning = [b \in Binary |-> FALSE]
  /\ issued = [b \in Binary |-> <<>>]
  /\ starts = [b \in Binary |-> {}]
  /\ faults = [back |-> 0, restarts |-> 0]

(* The clock of the host. *)
Advance(b) ==
  /\ clock[b] < MaxTime \/ (spinning[b] /\ clock[b] <= lastMs[b])
  /\ clock' = [clock EXCEPT ![b] = @ + 1]
  /\ UNCHANGED <<lastMs, seq, spinning, issued, starts, faults>>

StepBack(b) ==
  /\ faults.back < MaxBack
  /\ clock' \in {[clock EXCEPT ![b] = t] : t \in 1 .. clock[b] - 1}
  /\ faults' = [faults EXCEPT !.back = @ + 1]
  /\ UNCHANGED <<lastMs, seq, spinning, issued, starts>>

(* An id leaves the generator, which remembers where it was. *)
Issue(b, ms, s) ==
  /\ lastMs' = [lastMs EXCEPT ![b] = ms]
  /\ seq' = [seq EXCEPT ![b] = s]
  /\ issued' = [issued EXCEPT ![b] = Append(@, Pack(b, ms, s))]

(* Mutant: the sequence is started again in the same millisecond. *)
nextWrapping(b) ==
  /\ ~spinning[b] /\ Len(issued[b]) < MaxIds
  /\ LET now == IF clock[b] < lastMs[b] THEN lastMs[b] ELSE clock[b]
     IN  Issue(b, now, IF now = lastMs[b] THEN (seq[b] + 1) % SeqSpan ELSE 0)
  /\ UNCHANGED <<clock, spinning, starts, faults>>

next(b) ==
  /\ ~spinning[b] /\ Len(issued[b]) < MaxIds
  /\ LET now == IF clock[b] < lastMs[b] THEN lastMs[b] ELSE clock[b]
         s   == (seq[b] + 1) % SeqSpan
     IN  \/ /\ now > lastMs[b]
            /\ Issue(b, now, 0) /\ UNCHANGED spinning
         \/ /\ now = lastMs[b] /\ s # 0
            /\ Issue(b, now, s) /\ UNCHANGED spinning
         \/ /\ now = lastMs[b] /\ s = 0
            /\ spinning' = [spinning EXCEPT ![b] = TRUE]
            /\ seq' = [seq EXCEPT ![b] = 0]
            /\ UNCHANGED <<lastMs, issued>>
  /\ UNCHANGED <<clock, starts, faults>>

(* Mutant: the wait is for a clock that differs, also one that went back. *)
spinAnyChange(b) ==
  /\ spinning[b] /\ clock[b] # lastMs[b]
  /\ spinning' = [spinning EXCEPT ![b] = FALSE]
  /\ Issue(b, clock[b], 0)
  /\ UNCHANGED <<clock, starts, faults>>

(* Mutant: the loop does not read the clock again. *)
spinBlind(b) ==
  LET now == lastMs[b]
  IN  /\ spinning[b] /\ now > lastMs[b]
      /\ spinning' = [spinning EXCEPT ![b] = FALSE]
      /\ Issue(b, now, 0)
      /\ UNCHANGED <<clock, starts, faults>>

(* The busy loop of next ends: the sequence is 0 in a new millisecond. *)
spin(b) ==
  /\ spinning[b] /\ clock[b] > lastMs[b]
  /\ spinning' = [spinning EXCEPT ![b] = FALSE]
  /\ Issue(b, clock[b], 0)
  /\ UNCHANGED <<clock, starts, faults>>

(* The binary dies and comes up again: NewSnowflake starts from zero. *)
NewSnowflake(b) ==
  /\ faults.restarts < MaxRestarts
  /\ faults' = [faults EXCEPT !.restarts = @ + 1]
  /\ lastMs' = [lastMs EXCEPT ![b] = 0]
  /\ seq' = [seq EXCEPT ![b] = 0]
  /\ spinning' = [spinning EXCEPT ![b] = FALSE]
  /\ starts' = [starts EXCEPT ![b] = @ \cup {Len(issued[b])}]
  /\ UNCHANGED <<clock, issued>>

Next == \E b \in Binary :
  Advance(b) \/ StepBack(b) \/ next(b) \/ spin(b) \/ NewSnowflake(b)

Spec == Init /\ [][Next]_vars

(* The clock runs, and the goroutine that waits for it is scheduled. *)
FairSpec == Spec /\ \A b \in Binary : WF_vars(Advance(b)) /\ WF_vars(spin(b))

-----------------------------------------------------------------------------
(* Properties.                                                             *)

Ids(b) == ToSet(issued[b])

(* Within one life of a binary ids grow, whatever the clock does: listings *)
(* order equal creation times by id.                                       *)
IdsGrow ==
  \A b \in Binary : \A i \in 1 .. Len(issued[b]) - 1 :
    i \notin starts[b] => issued[b][i] < issued[b][i + 1]

(* A restarted binary went on with an id not above those of its last life: *)
(* its clock had not passed them.                                          *)
Regressed(b) ==
  \E i \in starts[b] \ {0, Len(issued[b])} : issued[b][i + 1] <= issued[b][i]

(* Ids repeat for two reasons only: two binaries with one machine id, also *)
(* by the mask, or a restart that finds the clock not past the last id of  *)
(* the life before.  Steps of the clock alone, and a millisecond with more *)
(* ids than sequence numbers, do no harm.                                  *)
RepeatsHaveACause ==
  /\ \A b \in Binary : ~Regressed(b) => IsInjective(issued[b])
  /\ \A b, c \in Binary :
       b # c /\ machineID(b) # machineID(c) => Ids(b) \cap Ids(c) = {}

(* A request that waits for the next millisecond gets its id, also when    *)
(* the clock is stepped back while it waits.                               *)
WaitEnds == \A b \in Binary : spinning[b] ~> ~spinning[b]

-----------------------------------------------------------------------------
(* What the documents rely on and the code does not do with the machine id *)
(* of the shipped configuration: see README.md.                            *)

(* No id is issued twice: order_id, event_id and refund_id are primary     *)
(* keys, and the keys of every remote call of a saga are made from them.   *)
UniqueIds ==
  /\ \A b \in Binary : IsInjective(issued[b])
  /\ \A b, c \in Binary : b # c => Ids(b) \cap Ids(c) = {}
=============================================================================
