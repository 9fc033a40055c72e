-------------------------- MODULE Database_proofs --------------------------
(***************************************************************************)
(* Proofs about the tables.  About the rows of BusRegistry, for any plates *)
(* that have a canonical form, any number of buses and of requests at a    *)
(* time; about Migration, for any files and any number of runs at a time;  *)
(* and about VillagePipeline, for any census file, any places and any      *)
(* order of the scripts.                                                   *)
(***************************************************************************)
EXTENDS BusRegistry, Migration, VillagePipeline, FiniteSetTheorems, WellFoundedInduction, TLAPS

Verdicts == {"approved", "rejected"}
Statuses == {"pending", "approved", "rejected"}

BusRows == [plate : Plates, status : Statuses, reason : BOOLEAN]

TaskRows ==
  {NoTask} \cup [pc : {"register"}, plate : Plates]
    \cup [pc : Verdicts, bus : Nat, status : Statuses, reason : BOOLEAN, given : BOOLEAN]

Types ==
  /\ oneByOne \in BOOLEAN
  /\ buses \in Seq(BusRows)
  /\ task \in [Tasks -> TaskRows]

(* What is compared with what a driver typed is the form that is stored.   *)
PlatesAreCanonical == \A b \in Rows : Canonical[buses[b].plate] = buses[b].plate

PlatesDiffer == \A b, c \in Rows : buses[b].plate = buses[c].plate => b = c

(* If requests wait for one another, an administrator's request works with *)
(* the row as it still is.                                                 *)
AtMostOneTask ==
  oneByOne => \A v, w \in Tasks : task[v] # NoTask /\ task[w] # NoTask => v = w

LoadedIsCurrent ==
  oneByOne => \A w \in Tasks :
    task[w].pc \in Verdicts =>
      /\ task[w].bus \in Rows /\ task[w].given \in Reasons(task[w].pc)
      /\ task[w].status = buses[task[w].bus].status
      /\ task[w].reason = buses[task[w].bus].reason

(* The inductive invariant: OnePerPlate says nothing of how plates are     *)
(* stored, ReasonFitsVerdict nothing of the request that writes.           *)
BusInv ==
  /\ Types
  /\ PlatesAreCanonical /\ PlatesDiffer
  /\ AtMostOneTask /\ LoadedIsCurrent
  /\ ReasonFitsVerdict

LEMMA BusInitInv == BusInit => BusInv
  BY DEF BusInit, BusInv, Types, TaskRows, NoTask, Verdicts, Rows, PlatesAreCanonical,
         PlatesDiffer, AtMostOneTask, LoadedIsCurrent, ReasonFitsVerdict

LEMMA CheckPlateStep ==
  ASSUME BusInv, NEW w \in Tasks, NEW p \in Plates, CheckPlate(w, p)
  PROVE  BusInv'
<1>1. Types'
  BY DEF BusInv, Types, CheckPlate, TaskRows
<1>2. (PlatesAreCanonical /\ PlatesDiffer /\ ReasonFitsVerdict)'
  BY DEF BusInv, CheckPlate, PlatesAreCanonical, PlatesDiffer, ReasonFitsVerdict, Rows
<1>3. AtMostOneTask'
  BY DEF BusInv, Types, CheckPlate, MayBegin, AtMostOneTask
<1>4. LoadedIsCurrent'
  BY DEF BusInv, Types, CheckPlate, LoadedIsCurrent, Rows, Verdicts
<1> QED
  BY <1>1, <1>2, <1>3, <1>4 DEF BusInv

LEMMA RegisterStep ==
  ASSUME BusInv, NEW w \in Tasks, RegisterBus(w)
  PROVE  BusInv'
<1>. DEFINE p == Stored(task[w].plate)
            row == [plate |-> p, status |-> "pending", reason |-> FALSE]
<1>1. p \in Plates /\ Canonical[p] = p
  <2>1. task[w].plate \in Plates
    BY DEF BusInv, Types, TaskRows, RegisterBus, NoTask, Verdicts
  <2> QED
    BY <2>1, BusPlatesAssumption DEF Stored
<1>2. row \in BusRows
  BY <1>1 DEF BusRows, Statuses
<1>3. task' = [task EXCEPT ![w] = NoTask] /\ oneByOne' = oneByOne
  BY DEF RegisterBus
<1>4. CASE UNCHANGED buses
  <2>1. Types'
    BY <1>3, <1>4 DEF BusInv, Types, TaskRows
  <2>2. (PlatesAreCanonical /\ PlatesDiffer /\ ReasonFitsVerdict)'
    BY <1>3, <1>4 DEF BusInv, PlatesAreCanonical, PlatesDiffer, ReasonFitsVerdict, Rows
  <2>3. (AtMostOneTask /\ LoadedIsCurrent)'
    BY <1>3, <1>4 DEF BusInv, Types, AtMostOneTask, LoadedIsCurrent, Rows, NoTask, Verdicts
  <2> QED
    BY <2>1, <2>2, <2>3 DEF BusInv
<1>5. CASE ~Taken(p) /\ buses' = Append(buses, row)
  <2>1. /\ Len(buses') = Len(buses) + 1 /\ Len(buses) \in Nat
        /\ \A b \in 1..Len(buses) : buses'[b] = buses[b]
        /\ buses'[Len(buses) + 1] = row
    BY <1>2, <1>5 DEF BusInv, Types
  <2>2. Types'
    BY <1>2, <1>3, <1>5 DEF BusInv, Types, TaskRows
  <2>3. PlatesAreCanonical'
    BY <1>1, <2>1 DEF BusInv, PlatesAreCanonical, Rows
  <2>4. PlatesDiffer'
    BY <1>5, <2>1 DEF BusInv, PlatesDiffer, Taken, Rows
  <2>5. ReasonFitsVerdict'
    BY <1>3, <2>1 DEF BusInv, ReasonFitsVerdict, Rows
  <2>6. AtMostOneTask'
    BY <1>3 DEF BusInv, Types, AtMostOneTask
  <2>7. LoadedIsCurrent'
    BY <1>3, <2>1 DEF BusInv, Types, LoadedIsCurrent, Rows, NoTask, Verdicts
  <2> QED
    BY <2>2, <2>3, <2>4, <2>5, <2>6, <2>7 DEF BusInv
<1> QED
  BY <1>4, <1>5 DEF RegisterBus

LEMMA LoadStep ==
  ASSUME BusInv, NEW w \in Tasks, NEW b \in 1..MaxBuses, NEW verdict \in Verdicts,
         Load(w, b, verdict)
  PROVE  BusInv'
<1>1. b \in Rows /\ b \in Nat /\ buses[b] \in BusRows
  BY DEF BusInv, Types, Load, Rows
<1>6. PICK given \in Reasons(verdict) :
        task' = [task EXCEPT ![w] = [pc |-> verdict, bus |-> b, status |-> buses[b].status,
                                     reason |-> buses[b].reason, given |-> given]]
  BY DEF Load
<1>7. given \in BOOLEAN
  BY DEF Reasons
<1>2. Types'
  BY <1>1, <1>6, <1>7 DEF BusInv, Types, Load, TaskRows, BusRows
<1>3. (PlatesAreCanonical /\ PlatesDiffer /\ ReasonFitsVerdict)'
  BY DEF BusInv, Load, PlatesAreCanonical, PlatesDiffer, ReasonFitsVerdict, Rows
<1>4. AtMostOneTask'
  BY <1>6 DEF BusInv, Types, Load, MayBegin, AtMostOneTask
<1>5. LoadedIsCurrent'
  BY <1>1, <1>6 DEF BusInv, Types, Load, LoadedIsCurrent, Rows, Verdicts
<1> QED
  BY <1>2, <1>3, <1>4, <1>5 DEF BusInv

LEMMA JudgeStep ==
  ASSUME BusInv, NEW w \in Tasks, Judge(w)
  PROVE  BusInv'
<1>. DEFINE t == task[w]
            status == Written(t.pc, t.status, buses[t.bus].status)
            reason == Written(t.given, t.reason, buses[t.bus].reason)
<1>1. t \in [pc : Verdicts, bus : Nat, status : Statuses, reason : BOOLEAN, given : BOOLEAN]
  BY DEF BusInv, Types, TaskRows, Judge, NoTask, Verdicts
<1>2. /\ task' = [task EXCEPT ![w] = NoTask] /\ oneByOne' = oneByOne
      /\ buses' = [buses EXCEPT ![t.bus].status = status, ![t.bus].reason = reason]
  BY DEF Judge, Written
<1>3. Len(buses') = Len(buses) /\ Len(buses) \in Nat
  BY <1>2 DEF BusInv, Types
<1>4. \A b \in Rows : b # t.bus => buses'[b] = buses[b]
  BY <1>2 DEF BusInv, Types, Rows
<1>5. t.bus \in Rows =>
        buses'[t.bus] = [plate |-> buses[t.bus].plate, status |-> status, reason |-> reason]
  <2>. SUFFICES ASSUME t.bus \in Rows
                PROVE  buses'[t.bus] = [plate |-> buses[t.bus].plate,
                                        status |-> status, reason |-> reason]
    OBVIOUS
  <2>1. buses[t.bus] \in BusRows /\ t.bus \in DOMAIN buses
    BY DEF BusInv, Types, Rows
  <2>2. buses'[t.bus] = [[buses[t.bus] EXCEPT !.status = status] EXCEPT !.reason = reason]
    BY <1>2, <2>1
  <2> QED
    BY <2>1, <2>2 DEF BusRows
<1>6. t.bus \in Rows => status \in Statuses /\ reason \in BOOLEAN
  <2>1. t.bus \in Rows => buses[t.bus] \in BusRows
    BY DEF BusInv, Types, Rows
  <2> QED
    BY <1>1, <2>1 DEF Written, BusRows, Statuses, Verdicts
<1>7. Types'
  <2>1. ASSUME NEW b \in Rows PROVE buses'[b] \in BusRows
    <3>1. buses[b] \in BusRows
      BY DEF BusInv, Types, Rows
    <3>2. CASE b = t.bus
      BY <1>5, <1>6, <3>1, <3>2 DEF BusRows
    <3>3. CASE b # t.bus
      BY <1>4, <3>1, <3>3
    <3> QED
      BY <3>2, <3>3
  <2>2. buses' \in Seq(BusRows)
    <3>1. DOMAIN buses' = 1..Len(buses)
      BY <1>2 DEF BusInv, Types
    <3>2. buses' = [b \in 1..Len(buses) |-> buses'[b]]
      BY <1>2, <3>1
    <3>3. [b \in 1..Len(buses) |-> buses'[b]] \in Seq(BusRows)
      BY <1>3, <2>1 DEF Rows
    <3> QED
      BY <3>2, <3>3
  <2> QED
    BY <1>2, <2>2 DEF BusInv, Types, TaskRows
<1>8. (PlatesAreCanonical /\ PlatesDiffer)'
  <2>1. \A b \in Rows : buses'[b].plate = buses[b].plate
    BY <1>4, <1>5
  <2> QED
    BY <1>3, <2>1 DEF BusInv, PlatesAreCanonical, PlatesDiffer, Rows
<1>9. AtMostOneTask'
  BY <1>2 DEF BusInv, Types, AtMostOneTask
<1>10. LoadedIsCurrent'
  <2>1. oneByOne => \A v \in Tasks : task'[v] = NoTask
    BY <1>1, <1>2 DEF BusInv, Types, AtMostOneTask, NoTask, Verdicts
  <2> QED
    BY <1>2, <2>1 DEF LoadedIsCurrent, NoTask, Verdicts
<1>11. ReasonFitsVerdict'
  <2>1. oneByOne => /\ t.bus \in Rows /\ status = t.pc /\ reason = t.given
                    /\ t.given \in Reasons(t.pc)
    BY <1>1 DEF BusInv, LoadedIsCurrent, Written
  <2>2. SUFFICES ASSUME oneByOne, NEW b \in Rows
                 PROVE  buses'[b].reason => buses'[b].status = "rejected"
    BY <1>2, <1>3 DEF ReasonFitsVerdict, Rows
  <2>3. CASE b = t.bus
    <3>1. buses'[b].status = t.pc /\ buses'[b].reason = t.given /\ t.given \in Reasons(t.pc)
      BY <1>5, <2>1, <2>2, <2>3
    <3> QED
      BY <3>1 DEF Reasons
  <2>4. CASE b # t.bus
    BY <1>4, <2>2, <2>4 DEF BusInv, ReasonFitsVerdict
  <2> QED
    BY <2>3, <2>4
<1> QED
  BY <1>7, <1>8, <1>9, <1>10, <1>11 DEF BusInv

LEMMA BusStep == BusInv /\ [BusNext]_busVars => BusInv'
<1>. SUFFICES ASSUME BusInv, [BusNext]_busVars
              PROVE  BusInv'
  OBVIOUS
<1>1. CASE BusNext
  <2>1. PICK w \in Tasks :
          \/ \E p \in Plates : CheckPlate(w, p)
          \/ \E b \in 1..MaxBuses, verdict \in Verdicts : Load(w, b, verdict)
          \/ RegisterBus(w) \/ Judge(w)
    BY <1>1 DEF BusNext, Verdicts
  <2> QED
    BY <2>1, CheckPlateStep, LoadStep, RegisterStep, JudgeStep
<1>2. CASE UNCHANGED busVars
  BY <1>2 DEF busVars, BusInv, Types, PlatesAreCanonical, PlatesDiffer, AtMostOneTask,
              LoadedIsCurrent, ReasonFitsVerdict, Rows
<1> QED
  BY <1>1, <1>2

LEMMA BusInvariance == BusSpec => []BusInv
  BY BusInitInv, BusStep, PTL DEF BusSpec

(* register_bus never makes a second row of a bus, whatever spaces and     *)
(* cases its number was typed in and whichever requests race; and without  *)
(* overlapping verdicts a bus has a reason only if it is rejected.         *)
THEOREM BusesStaySound == BusSpec => []BusesAreSound
<1>1. BusInv => BusesAreSound
  BY DEF BusInv, BusesAreSound, OnePerPlate, PlatesAreCanonical, PlatesDiffer
<1> QED
  BY <1>1, BusInvariance, PTL

-----------------------------------------------------------------------------
(* The files.  The ledger names what was applied, no run knows more of it  *)
(* than there is, and an open transaction is of the first file its run     *)
(* still lacks.                                                            *)
RunsAreTrue ==
  /\ files \subseteq Files /\ ledger \subseteq files
  /\ applied \in Seq(Files)
  /\ run \in [Runs -> [done : SUBSET ledger, todo : SUBSET files, dry : BOOLEAN]]
  /\ pending \in [Runs -> Nat]
  /\ \A r \in Runs : pending[r] = 0 \/ pending[r] \in FirstOf(ToApply(r))

LedgerIsApplied == ledger = {applied[i] : i \in 1..Len(applied)}

(* What is before a file that is applied is applied, and what is before a  *)
(* file a run has still to come is so too, or is still to come itself.     *)
NothingIsPassedOver ==
  numbered => \A g \in files :
    /\ \A f \in ledger : g < f => g \in ledger
    /\ \A r \in Runs : \A f \in run[r].todo : g < f => g \in run[r].todo \cup ledger

LedgerInv == RunsAreTrue /\ LedgerIsApplied /\ NothingIsPassedOver /\ SchemaIsAPrefix

LEMMA FilesAreNumbers == Files \subseteq Nat /\ 0 \notin Files
  BY MigrationAssumption

LEMMA LedgerInit == MigrationInit => LedgerInv
<1> SUFFICES ASSUME MigrationInit PROVE LedgerInv
  OBVIOUS
<1>1. RunsAreTrue
  BY DEF MigrationInit, RunsAreTrue, NoRun
<1>2. LedgerIsApplied
  BY DEF MigrationInit, LedgerIsApplied
<1>3. NothingIsPassedOver
  BY DEF MigrationInit, NothingIsPassedOver, NoRun
<1>4. SchemaIsAPrefix
  BY DEF MigrationInit, SchemaIsAPrefix
<1> QED
  BY <1>1, <1>2, <1>3, <1>4 DEF LedgerInv

LEMMA ReleaseStep ==
  ASSUME LedgerInv, NEW f \in Files, Release(f)
  PROVE  LedgerInv'
<1>1. /\ files' = files \cup {f} /\ (numbered => \A g \in files : g < f)
      /\ numbered' = numbered /\ ledger' = ledger /\ applied' = applied
      /\ run' = run /\ pending' = pending
  BY DEF Release
<1>2. /\ files \subseteq Files /\ ledger \subseteq files /\ Files \subseteq Nat
      /\ \A r \in Runs : run[r].todo \subseteq files
  BY FilesAreNumbers DEF LedgerInv, RunsAreTrue
<1>3. RunsAreTrue'
  BY <1>1 DEF LedgerInv, RunsAreTrue, ToApply
<1>4. LedgerIsApplied'
  BY <1>1 DEF LedgerInv, LedgerIsApplied
<1>5. numbered => \A g \in files : ~(f < g)
  BY <1>1, <1>2
<1>6. NothingIsPassedOver'
  BY <1>1, <1>2, <1>5 DEF LedgerInv, NothingIsPassedOver
<1>7. SchemaIsAPrefix'
  <2>1. ASSUME numbered, NEW i \in 1..Len(applied)
        PROVE  {g \in files' : g < applied[i]} = {g \in files : g < applied[i]}
    <3>1. applied[i] \in files
      BY <1>2, <2>1 DEF LedgerInv, LedgerIsApplied
    <3>2. ~(f < applied[i])
      BY <1>5, <2>1, <3>1
    <3> QED
      BY <1>1, <3>2
  <2> QED
    BY <1>1, <2>1 DEF LedgerInv, SchemaIsAPrefix
<1> QED
  BY <1>3, <1>4, <1>6, <1>7 DEF LedgerInv

(* A step of a run that writes nothing.                                    *)
LEMMA QuietStep ==
  ASSUME LedgerInv, NEW r \in Runs,
         (\E dry \in BOOLEAN : ReadLedger(r, dry)) \/ Begin(r) \/ Ends(r)
  PROVE  LedgerInv'
<1>1. UNCHANGED <<numbered, files, ledger, applied>>
  BY DEF ReadLedger, Begin, Ends
<1>2. LedgerIsApplied' /\ SchemaIsAPrefix'
  BY <1>1 DEF LedgerInv, LedgerIsApplied, SchemaIsAPrefix
<1>3. CASE \E dry \in BOOLEAN : ReadLedger(r, dry)
  <2>1. PICK dry \in BOOLEAN :
          /\ run' = [run EXCEPT ![r] = [done |-> ledger, todo |-> files, dry |-> dry]]
          /\ run[r] = NoRun /\ pending' = pending
    BY <1>3 DEF ReadLedger
  <2>2. pending[r] = 0
    BY <2>1 DEF LedgerInv, RunsAreTrue, FirstOf, ToApply, NoRun
  <2>3. RunsAreTrue'
    BY <1>1, <2>1, <2>2 DEF LedgerInv, RunsAreTrue, ToApply
  <2>4. NothingIsPassedOver'
    BY <1>1, <2>1 DEF LedgerInv, RunsAreTrue, NothingIsPassedOver
  <2> QED
    BY <1>2, <2>3, <2>4 DEF LedgerInv
<1>4. CASE Begin(r)
  <2>1. PICK f \in FirstOf(ToApply(r)) : pending' = [pending EXCEPT ![r] = f] /\ run' = run
    BY <1>4 DEF Begin
  <2>2. f \in Nat
    BY <2>1, FilesAreNumbers DEF LedgerInv, RunsAreTrue, FirstOf, ToApply
  <2>3. RunsAreTrue'
    BY <1>1, <2>1, <2>2 DEF LedgerInv, RunsAreTrue, ToApply
  <2>4. NothingIsPassedOver'
    BY <1>1, <2>1 DEF LedgerInv, NothingIsPassedOver
  <2> QED
    BY <1>2, <2>3, <2>4 DEF LedgerInv
<1>5. CASE Ends(r)
  <2>1. run' = [run EXCEPT ![r] = NoRun] /\ pending' = [pending EXCEPT ![r] = 0]
    BY <1>5 DEF Ends
  <2>2. NoRun \in [done : SUBSET ledger, todo : SUBSET files, dry : BOOLEAN] /\ NoRun.todo = {}
    BY DEF NoRun
  <2>3. RunsAreTrue'
    <3>1. ASSUME NEW v \in Runs PROVE pending'[v] = 0 \/ pending'[v] \in FirstOf(ToApply(v)')
      BY <2>1 DEF LedgerInv, RunsAreTrue, ToApply
    <3> QED
      BY <1>1, <2>1, <2>2, <3>1 DEF LedgerInv, RunsAreTrue, FirstOf
  <2>4. NothingIsPassedOver'
    BY <1>1, <2>1, <2>2 DEF LedgerInv, RunsAreTrue, NothingIsPassedOver
  <2> QED
    BY <1>2, <2>3, <2>4 DEF LedgerInv
<1> QED
  BY <1>3, <1>4, <1>5

(* The file a run commits is the first that the ledger lacks.              *)
LEMMA CommitStep ==
  ASSUME LedgerInv, NEW r \in Runs, Commit(r)
  PROVE  LedgerInv'
<1>1. PICK p : p = pending[r] /\ p \in FirstOf(ToApply(r)) /\ p \notin ledger
  BY DEF Commit, Insertable, LedgerInv, RunsAreTrue
<1>2. /\ ledger' = ledger \cup {p} /\ applied' = Append(applied, p)
      /\ pending' = [pending EXCEPT ![r] = 0]
      /\ numbered' = numbered /\ files' = files
  BY <1>1 DEF Commit
<1>3. /\ p \in files /\ p \in Nat /\ p \in Files
      /\ files \subseteq Nat /\ ledger \subseteq files
      /\ run[r].done \subseteq ledger /\ run[r].todo \subseteq files
      /\ p \in run[r].todo
      /\ \A g \in run[r].todo : g \in run[r].done \/ p <= g
  BY <1>1, FilesAreNumbers DEF LedgerInv, RunsAreTrue, FirstOf, ToApply
<1>4. PICK n \in Nat : n = Len(applied)
  BY DEF LedgerInv, RunsAreTrue
<1>5. /\ Len(applied') = n + 1 /\ applied'[n + 1] = p /\ applied' \in Seq(Files)
      /\ \A i \in 1..n : applied'[i] = applied[i]
  BY <1>2, <1>3, <1>4 DEF LedgerInv, RunsAreTrue
<1>6. PICK left \in SUBSET run[r].todo :
        /\ left = {g \in run[r].todo : p < g}
        /\ run' = [run EXCEPT ![r] = [done |-> run[r].done, todo |-> left, dry |-> run[r].dry]]
  <2> DEFINE S == {g \in run[r].todo : p < g}
  <2>1. run' = [run EXCEPT ![r].todo = S]
    BY <1>1 DEF Commit
  <2>2. run[r] \in [done : SUBSET ledger, todo : SUBSET files, dry : BOOLEAN]
    BY DEF LedgerInv, RunsAreTrue
  <2>3. S \in SUBSET run[r].todo
    OBVIOUS
  <2>4. SUFFICES run' = [run EXCEPT ![r] = [done |-> run[r].done, todo |-> S, dry |-> run[r].dry]]
    BY <2>3
  <2> HIDE DEF S
  <2>5. run' = [run EXCEPT ![r] = [run[r] EXCEPT !.todo = S]]
    BY <2>1 DEF LedgerInv, RunsAreTrue
  <2>6. [run[r] EXCEPT !.todo = S] = [done |-> run[r].done, todo |-> S, dry |-> run[r].dry]
    BY <2>2
  <2> QED
    BY <2>5, <2>6
<1>7. RunsAreTrue'
  <2>1. run' \in [Runs -> [done : SUBSET ledger', todo : SUBSET files', dry : BOOLEAN]]
    BY <1>2, <1>6 DEF LedgerInv, RunsAreTrue
  <2>2. ASSUME NEW v \in Runs PROVE pending'[v] = 0 \/ pending'[v] \in FirstOf(ToApply(v)')
    BY <1>2, <1>6 DEF LedgerInv, RunsAreTrue, ToApply
  <2> QED
    BY <1>2, <1>3, <1>5, <2>1, <2>2 DEF LedgerInv, RunsAreTrue, FirstOf
<1>8. LedgerIsApplied'
  BY <1>2, <1>4, <1>5 DEF LedgerInv, LedgerIsApplied
<1>9. numbered => \A g \in files : g < p => g \in ledger
  BY <1>3 DEF LedgerInv, NothingIsPassedOver
<1>10. NothingIsPassedOver'
  <2>1. ASSUME numbered, NEW g \in files, NEW f \in ledger', g < f
        PROVE  g \in ledger'
    BY <1>2, <1>9, <2>1 DEF LedgerInv, NothingIsPassedOver
  <2>2. ASSUME numbered, NEW g \in files, NEW v \in Runs, NEW f \in run'[v].todo, g < f
        PROVE  g \in run'[v].todo \cup ledger'
    <3>1. CASE v = r
      <4>1. f \in run[r].todo
        BY <1>6, <2>2, <3>1 DEF LedgerInv, RunsAreTrue
      <4>2. g \in run[r].todo \cup ledger
        BY <2>2, <4>1 DEF LedgerInv, NothingIsPassedOver
      <4>3. g < p \/ g = p \/ p < g
        BY <1>3
      <4>4. run'[v].todo = left
        BY <1>6, <3>1 DEF LedgerInv, RunsAreTrue
      <4> QED
        BY <1>2, <1>6, <1>9, <2>2, <4>2, <4>3, <4>4
    <3>2. CASE v # r
      BY <1>2, <1>6, <2>2, <3>2 DEF LedgerInv, RunsAreTrue, NothingIsPassedOver
    <3> QED
      BY <3>1, <3>2
  <2> QED
    BY <1>2, <2>1, <2>2 DEF NothingIsPassedOver
<1>11. SchemaIsAPrefix'
  <2>1. ASSUME numbered, NEW i \in 1..(n + 1)
        PROVE  {applied'[j] : j \in 1..(i - 1)} = {f \in files : f < applied'[i]}
    <3>1. \A j \in 1..(i - 1) : j \in 1..n /\ applied'[j] = applied[j]
      BY <1>5
    <3>2. {applied'[j] : j \in 1..(i - 1)} = {applied[j] : j \in 1..(i - 1)}
      BY <3>1
    <3>3. CASE i \in 1..n
      <4>1. {applied[j] : j \in 1..(i - 1)} = {f \in files : f < applied[i]}
        BY <1>4, <2>1, <3>3 DEF LedgerInv, SchemaIsAPrefix
      <4> QED
        BY <1>5, <3>2, <3>3, <4>1
    <3>4. CASE i = n + 1
      <4>1. {applied[j] : j \in 1..(i - 1)} = ledger
        BY <1>4, <3>4 DEF LedgerInv, LedgerIsApplied
      <4>2. ASSUME NEW h \in ledger PROVE h < p
        <5>1. h \in files /\ h # p
          BY <1>1, <1>3
        <5>2. ~(p < h)
          BY <1>1, <1>3, <2>1 DEF LedgerInv, NothingIsPassedOver
        <5> QED
          BY <1>3, <5>1, <5>2
      <4>3. ledger = {f \in files : f < p}
        BY <1>3, <1>9, <2>1, <4>2
      <4> QED
        BY <1>5, <3>2, <3>4, <4>1, <4>3
    <3> QED
      BY <3>3, <3>4
  <2> QED
    BY <1>2, <1>5, <2>1 DEF SchemaIsAPrefix
<1> QED
  BY <1>7, <1>8, <1>10, <1>11 DEF LedgerInv

LEMMA LedgerStep == LedgerInv /\ [MigrationNext]_migrationVars => LedgerInv'
<1>. SUFFICES ASSUME LedgerInv, [MigrationNext]_migrationVars
              PROVE  LedgerInv'
  OBVIOUS
<1>1. CASE MigrationNext
  BY <1>1, ReleaseStep, QuietStep, CommitStep DEF MigrationNext
<1>2. CASE UNCHANGED migrationVars
  BY <1>2 DEF migrationVars, LedgerInv, RunsAreTrue, LedgerIsApplied, NothingIsPassedOver,
              SchemaIsAPrefix, ToApply
<1> QED
  BY <1>1, <1>2

(* If every later file is named after the ones there are, the schema is at *)
(* any time the one that the first so many files make in their order,      *)
(* whichever runs race, are killed between two files or find a newer file. *)
THEOREM SchemaStaysAPrefix == MigrationSpec => []SchemaIsAPrefix
<1>1. LedgerInv => SchemaIsAPrefix
  BY DEF LedgerInv
<1>2. MigrationSpec => []LedgerInv
  BY LedgerInit, LedgerStep, PTL DEF MigrationSpec
<1> QED
  BY <1>1, <1>2, PTL

-----------------------------------------------------------------------------
(* The villages.  The scripts fold their records one by one; what a fold   *)
(* makes of a table is proved step by step, with the least counterexample. *)

(* A set of numbers has a smallest one: what stands in for induction.      *)
LEMMA SmallestExists ==
  ASSUME NEW S \in SUBSET Nat, S # {}
  PROVE  \E n \in S : \A m \in S : n <= m
<1>. DEFINE R == {p \in Nat \X Nat : p[1] < p[2]}
<1>1. IsWellFoundedOn(R, Nat)
  BY NatLessThanWellFounded DEF OpToRel
<1>2. PICK n \in S : \A m \in S : ~(<<m, n>> \in R)
  <2>. HIDE DEF R
  <2> QED
    BY <1>1, WFMin
<1>3. ASSUME NEW m \in S PROVE n <= m
  <2>1. n \in Nat /\ m \in Nat
    OBVIOUS
  <2>2. m < n => <<m, n>> \in R
    BY <2>1
  <2> QED
    BY <1>2, <2>1, <2>2
<1> QED
  BY <1>3

(* What a fold keeps from one element to the next it keeps to the end.     *)
LEMMA StepByStep ==
  ASSUME NEW n \in Nat, NEW G, 0 \in G, \A k \in 1..n : k - 1 \in G => k \in G
  PROVE  \A k \in 0..n : k \in G
<1> DEFINE Bad == {k \in 0..n : k \notin G}
<1>1. ASSUME Bad # {} PROVE FALSE
  <2>1. Bad \in SUBSET Nat
    OBVIOUS
  <2>2. PICK m \in Bad : \A i \in Bad : m <= i
    BY <1>1, <2>1, SmallestExists
  <2>3. m \in 1..n /\ m - 1 \in 0..n /\ ~(m <= m - 1)
    BY <2>2
  <2>4. m - 1 \in G
    BY <2>2, <2>3
  <2> QED
    BY <2>2, <2>3, <2>4
<1> QED
  BY <1>1

LEMMA LargestExists ==
  ASSUME NEW n \in Nat, NEW S \in SUBSET (1..n), S # {}
  PROVE  Max(S) \in S /\ \A y \in S : Max(S) >= y
<1> DEFINE R == {n - x : x \in S}
<1>1. R \in SUBSET Nat /\ R # {}
  <2>1. \A x \in S : n - x \in Nat
    OBVIOUS
  <2> QED
    BY <2>1
<1>2. PICK r \in R : \A q \in R : r <= q
  BY <1>1, SmallestExists
<1>3. PICK x \in S : r = n - x
  OBVIOUS
<1>4. \A y \in S : x >= y
  <2> SUFFICES ASSUME NEW y \in S PROVE x >= y
    OBVIOUS
  <2>1. n - x <= n - y
    BY <1>2, <1>3
  <2>2. x \in Int /\ y \in Int
    OBVIOUS
  <2> QED
    BY <2>1, <2>2
<1> QED
  BY <1>4 DEF Max

LEMMA LargestUpTo ==
  ASSUME NEW k \in Nat, k >= 1
  PROVE  Max(1..k) = k /\ (1..k) \ {k} = 1..(k - 1)
<1>1. Max(1..k) \in 1..k /\ \A y \in 1..k : Max(1..k) >= y
  <2>1. 1..k \in SUBSET (1..k) /\ 1..k # {}
    OBVIOUS
  <2> QED
    BY <2>1, LargestExists
<1> QED
  BY <1>1

(* A fold from the left, as the folds of SequencesExt define it: over the  *)
(* sets of indices, the largest index last.                                *)
Folds(it, n, base, op) ==
  \A S \in SUBSET (1..n) :
    it[S] = IF S = {} THEN base ELSE op[<<it[S \ {Max(S)}], Max(S)>>]

LEMMA FoldExists ==
  ASSUME NEW n \in Nat, NEW D, NEW base \in D, NEW op \in [D \X (1..n) -> D]
  PROVE  \E it \in [SUBSET (1..n) -> D] : Folds(it, n, base, op)
<1> DEFINE Good(k, f) ==
             /\ f \in [SUBSET (1..k) -> D]
             /\ \A S \in SUBSET (1..k) :
                  f[S] = IF S = {} THEN base ELSE op[<<f[S \ {Max(S)}], Max(S)>>]
           G == {k \in 0..n : \E f : Good(k, f)}
<1>1. 0 \in G
  <2>1. 1..0 = {} /\ SUBSET (1..0) = {{}}
    OBVIOUS
  <2>2. Good(0, [S \in SUBSET (1..0) |-> base])
    BY <2>1
  <2> HIDE DEF Good
  <2> QED
    BY <2>2
<1>2. ASSUME NEW m \in 1..n, m - 1 \in G PROVE m \in G
  <2>1. PICK f : Good(m - 1, f)
    BY <1>2
  <2> DEFINE g == [S \in SUBSET (1..m) |-> IF m \in S THEN op[<<f[S \ {m}], m>>] ELSE f[S]]
  <2>0. m \in Nat
    OBVIOUS
  <2>2. ASSUME NEW S \in SUBSET (1..m)
        PROVE  g[S] \in D /\ g[S] = IF S = {} THEN base ELSE op[<<g[S \ {Max(S)}], Max(S)>>]
    <3>1. CASE m \in S
      <4>1. Max(S) = m
        <5>1. Max(S) \in S /\ \A y \in S : Max(S) >= y
          BY <2>0, <3>1, LargestExists
        <5>2. Max(S) \in 1..m
          BY <5>1
        <5> QED
          BY <2>0, <3>1, <5>1, <5>2
      <4>2. S \ {m} \in SUBSET (1..(m - 1)) /\ S \ {m} \in SUBSET (1..m)
        OBVIOUS
      <4>3. f[S \ {m}] \in D
        BY <2>1, <4>2
      <4>4. g[S] = op[<<f[S \ {m}], m>>] /\ g[S \ {m}] = f[S \ {m}]
        BY <3>1, <4>2
      <4> QED
        BY <3>1, <4>1, <4>3, <4>4
    <3>2. CASE m \notin S
      <4>1. S \in SUBSET (1..(m - 1))
        BY <3>2
      <4>2. g[S] = f[S]
        BY <3>2
      <4>3. CASE S = {}
        BY <2>1, <4>1, <4>2, <4>3
      <4>4. CASE S # {}
        <5>1. Max(S) \in S
          BY <2>0, <4>4, LargestExists
        <5>2. S \ {Max(S)} \in SUBSET (1..(m - 1)) /\ S \ {Max(S)} \in SUBSET (1..m) /\ m \notin S \ {Max(S)}
          BY <3>2, <4>1
        <5>3. g[S \ {Max(S)}] = f[S \ {Max(S)}]
          BY <5>2
        <5>4. f[S] \in D /\ f[S] = op[<<f[S \ {Max(S)}], Max(S)>>]
          BY <2>1, <4>1, <4>4
        <5> QED
          BY <4>2, <4>4, <5>3, <5>4
      <4> QED
        BY <4>3, <4>4
    <3> QED
      BY <3>1, <3>2
  <2>3. Good(m, g)
    BY <2>2
  <2> HIDE DEF Good, g
  <2> QED
    BY <2>3
<1>3. n \in G
  <2> HIDE DEF G
  <2> QED
    BY <1>1, <1>2, StepByStep
<1>4. PICK f : Good(n, f)
  BY <1>3
<1> QED
  BY <1>4 DEF Folds

-----------------------------------------------------------------------------
(* Records of the pipeline, over the values W; a row of the table is one.  *)
Records(W) == [taluk : W, name : W, code : W, at : W]

IsTable(s) == \E W : s \in Seq(Records(W))

LEMMA TablesShareValues ==
  ASSUME NEW r, NEW s, IsTable(r), IsTable(s)
  PROVE  \E W : Blank \in W /\ r \in Seq(Records(W)) /\ s \in Seq(Records(W))
<1>1. PICK V : r \in Seq(Records(V))
  BY DEF IsTable
<1>2. PICK U : s \in Seq(Records(U))
  BY DEF IsTable
<1> DEFINE W == V \cup U \cup {Blank}
<1>3. Records(V) \subseteq Records(W) /\ Records(U) \subseteq Records(W)
  BY DEF Records
<1>4. r \in Seq(Records(W)) /\ s \in Seq(Records(W))
  <2> HIDE DEF W
  <2> QED
    BY <1>1, <1>2, <1>3
<1> QED
  BY <1>4

(* upsert_villages of one record: an unknown village is added, a known one *)
(* is the last row that matches.                                           *)
LEMMA UpsertOneIs ==
  ASSUME NEW W, NEW rows \in Seq(Records(W)), NEW rec \in Records(W)
  PROVE  LET u == UpsertOne(rows, rec) IN
         /\ u \in Seq(Records(W))
         /\ \/ Matches(rows, rec) = {} /\ u = Append(rows, rec)
            \/ \E m \in Matches(rows, rec) :
                 /\ m \in 1..Len(rows) /\ Len(u) = Len(rows)
                 /\ u[m] = Updated(rows[m], rec)
                 /\ \A i \in 1..Len(rows) : i # m => u[i] = rows[i]
<1>1. CASE Matches(rows, rec) = {}
  <2>1. UpsertOne(rows, rec) = Append(rows, rec)
    BY <1>1, Zenon DEF UpsertOne
  <2> QED
    BY <1>1, <2>1
<1>2. CASE Matches(rows, rec) # {}
  <2>1. Len(rows) \in Nat /\ Matches(rows, rec) \in SUBSET (1..Len(rows))
    BY DEF Matches, Indices
  <2>2. Max(Matches(rows, rec)) \in Matches(rows, rec)
    BY <1>2, <2>1, LargestExists
  <2>3. PICK m \in Matches(rows, rec) : m = Max(Matches(rows, rec))
    BY <2>2
  <2>4. m \in 1..Len(rows) /\ rows[m] \in Records(W)
    BY <2>1
  <2>5. Updated(rows[m], rec) \in Records(W)
    BY <2>4 DEF Updated, Records
  <2>6. UpsertOne(rows, rec) = [rows EXCEPT ![m] = Updated(rows[m], rec)]
    BY <1>2, <2>3, <2>4 DEF UpsertOne
  <2>7. PICK r \in Records(W) : r = Updated(rows[m], rec)
    BY <2>5
  <2>8. /\ [rows EXCEPT ![m] = r] \in Seq(Records(W))
        /\ Len([rows EXCEPT ![m] = r]) = Len(rows)
        /\ [rows EXCEPT ![m] = r][m] = r
        /\ \A i \in 1..Len(rows) : i # m => [rows EXCEPT ![m] = r][i] = rows[i]
    BY <2>4, <2>7
  <2> QED
    BY <2>4, <2>6, <2>7, <2>8, Zenon
<1> QED
  BY <1>1, <1>2

(* The fold over all records, one table after the other.                   *)
Tables(t, W, rows, recs) ==
  /\ t[0] = rows /\ t[Len(recs)] = FoldLeft(UpsertOne, rows, recs)
  /\ \A k \in 0..Len(recs) : t[k] \in Seq(Records(W))
  /\ \A k \in 1..Len(recs) : t[k] = UpsertOne(t[k - 1], recs[k])

LEMMA UpsertWalk ==
  ASSUME NEW W, NEW rows \in Seq(Records(W)), NEW recs \in Seq(Records(W))
  PROVE  \E t : Tables(t, W, rows, recs)
<1> DEFINE n == Len(recs)
           D == Seq(Records(W))
           Solves(it) == it = [S \in SUBSET (1..n) |->
             IF S = {} THEN rows ELSE UpsertOne(it[S \ {Max(S)}], recs[Max(S)])]
           op == [p \in D \X (1..n) |-> UpsertOne(p[1], recs[p[2]])]
<1>1. n \in Nat /\ DOMAIN recs = 1..n
  OBVIOUS
<1>2. FoldLeft(UpsertOne, rows, recs) = (CHOOSE it : Solves(it))[1..n]
  <2>1. FoldLeft(UpsertOne, rows, recs) =
          (CHOOSE it : it = [S \in SUBSET (DOMAIN recs) |->
             IF S = {} THEN rows ELSE UpsertOne(it[S \ {Max(S)}], recs[Max(S)])])[DOMAIN recs]
    BY DEF FoldLeft, MapThenFoldSet
  <2> QED
    BY <1>1, <2>1
<1>3. op \in [D \X (1..n) -> D]
  <2>1. \A p \in D \X (1..n) : UpsertOne(p[1], recs[p[2]]) \in D
    <3> SUFFICES ASSUME NEW p \in D \X (1..n) PROVE UpsertOne(p[1], recs[p[2]]) \in D
      OBVIOUS
    <3>1. p[1] \in Seq(Records(W)) /\ recs[p[2]] \in Records(W)
      OBVIOUS
    <3> QED
      BY <3>1, UpsertOneIs
  <2> QED
    BY <2>1
<1>4. \E it : Solves(it)
  <2>1. PICK it \in [SUBSET (1..n) -> D] : Folds(it, n, rows, op)
    <3> HIDE DEF n, D, op
    <3>1. rows \in D
      BY DEF D
    <3> QED
      BY <1>1, <1>3, <3>1, FoldExists
  <2>2. ASSUME NEW S \in SUBSET (1..n)
        PROVE  it[S] = IF S = {} THEN rows ELSE UpsertOne(it[S \ {Max(S)}], recs[Max(S)])
    <3>1. CASE S = {}
      BY <2>1, <3>1 DEF Folds
    <3>2. CASE S # {}
      <4>1. Max(S) \in 1..n
        BY <1>1, <3>2, LargestExists
      <4>2. <<it[S \ {Max(S)}], Max(S)>> \in D \X (1..n)
        BY <2>1, <4>1
      <4>3. op[<<it[S \ {Max(S)}], Max(S)>>] = UpsertOne(it[S \ {Max(S)}], recs[Max(S)])
        BY <4>2
      <4> QED
        BY <2>1, <3>2, <4>3 DEF Folds
    <3> QED
      BY <3>1, <3>2
  <2>3. Solves(it)
    BY <2>1, <2>2
  <2> QED
    BY <2>3
<1>5. PICK it : Solves(it) /\ it[1..n] = FoldLeft(UpsertOne, rows, recs)
  <2> HIDE DEF Solves, n
  <2> QED
    BY <1>2, <1>4
<1> DEFINE t == [k \in 0..n |-> it[1..k]]
<1>6. t[0] = rows /\ t[n] = FoldLeft(UpsertOne, rows, recs)
  <2>1. 1..0 = {} /\ 1..0 \in SUBSET (1..n)
    OBVIOUS
  <2>2. it[1..0] = rows
    BY <1>5, <2>1
  <2>3. 0 \in 0..n /\ n \in 0..n
    BY <1>1
  <2> QED
    BY <1>5, <2>2, <2>3
<1>7. ASSUME NEW k \in 1..n PROVE t[k] = UpsertOne(t[k - 1], recs[k])
  <2>1. Max(1..k) = k /\ (1..k) \ {k} = 1..(k - 1)
    BY <1>1, LargestUpTo
  <2>2. 1..k \in SUBSET (1..n) /\ 1..k # {} /\ k - 1 \in 0..n /\ k \in 0..n
    <3>1. k \in Nat /\ k >= 1 /\ k <= n
      BY <1>1
    <3>2. k \in 1..k /\ 1..k \in SUBSET (1..n)
      BY <1>1, <3>1
    <3>3. k - 1 \in 0..n /\ k \in 0..n
      BY <1>1, <3>1
    <3> QED
      BY <3>2, <3>3
  <2>3. it[1..k] = UpsertOne(it[1..(k - 1)], recs[k])
    BY <1>5, <2>1, <2>2
  <2> QED
    BY <2>2, <2>3
<1>8. \A k \in 0..n : t[k] \in D
  <2> DEFINE G == {k \in 0..n : t[k] \in D}
  <2> HIDE DEF t
  <2>1. 0 \in G
    BY <1>1, <1>6
  <2>2. ASSUME NEW k \in 1..n, k - 1 \in G PROVE k \in G
    <3>1. recs[k] \in Records(W) /\ t[k - 1] \in Seq(Records(W))
      BY <2>2
    <3>2. UpsertOne(t[k - 1], recs[k]) \in Seq(Records(W))
      BY <3>1, UpsertOneIs
    <3> QED
      BY <1>7, <3>2
  <2> HIDE DEF G
  <2>3. \A k \in 0..n : k \in G
    BY <1>1, <2>1, <2>2, StepByStep
  <2> QED
    BY <2>3 DEF G
<1> QED
  <2> HIDE DEF t
  <2>1. Tables(t, W, rows, recs)
    BY <1>6, <1>7, <1>8 DEF Tables
  <2> QED
    BY <2>1

-----------------------------------------------------------------------------
(* Two rows of one village, and what the upsert takes for one.             *)
Same(r, s) == r.taluk = s.taluk /\ r.name = s.name /\ r.code = s.code

Known(r, rec) ==
  r.taluk = rec.taluk /\ r.code = rec.code /\ (rec.code = Blank => r.name = rec.name)

Apart(s) == \A i, j \in 1..Len(s) : i # j => ~Known(s[i], s[j])

Holds(s, rec) ==
  \E j \in 1..Len(s) : Known(s[j], rec) /\ (rec.at # Blank => s[j].at = rec.at)

(* One upsert: rows stay apart and keep their place, name and coordinates, *)
(* the record is in the table, and no row of another village has changed.  *)
OneMore(u, rows, rec) ==
  /\ Len(rows) <= Len(u) /\ Apart(u) /\ Holds(u, rec)
  /\ \A i \in 1..Len(rows) : /\ Same(u[i], rows[i])
                             /\ rows[i].at # Blank => u[i].at # Blank
                             /\ ~Known(rows[i], rec) => u[i] = rows[i]
  /\ \A j \in 1..Len(u) : \/ j \in 1..Len(rows) /\ u[j].at = rows[j].at
                          \/ Known(u[j], rec) /\ u[j].at = rec.at
  /\ \A j \in 1..Len(u) : j \notin 1..Len(rows) => u[j] = rec

LEMMA UpsertOneKeeps ==
  ASSUME NEW W, NEW rows \in Seq(Records(W)), NEW rec \in Records(W), Apart(rows)
  PROVE  UpsertOne(rows, rec) \in Seq(Records(W)) /\ OneMore(UpsertOne(rows, rec), rows, rec)
<1>1. PICK u \in Seq(Records(W)) :
        /\ u = UpsertOne(rows, rec)
        /\ \/ Matches(rows, rec) = {} /\ u = Append(rows, rec)
           \/ \E m \in Matches(rows, rec) :
                /\ m \in 1..Len(rows) /\ Len(u) = Len(rows)
                /\ u[m] = Updated(rows[m], rec)
                /\ \A i \in 1..Len(rows) : i # m => u[i] = rows[i]
  BY UpsertOneIs
<1> DEFINE n == Len(rows)
<1>2. n \in Nat /\ \A i \in 1..n : rows[i] \in Records(W)
  OBVIOUS
<1>3. \A i \in 1..n : i \in Matches(rows, rec) <=> Known(rows[i], rec)
  BY DEF Matches, Known, Indices
<1>4. CASE Matches(rows, rec) = {} /\ u = Append(rows, rec)
  <2>1. /\ Len(u) = n + 1 /\ u[n + 1] = rec /\ \A i \in 1..n : u[i] = rows[i]
    BY <1>4
  <2>2. \A i \in 1..n : ~Known(rows[i], rec) /\ ~Known(rec, rows[i])
    BY <1>3, <1>4 DEF Known
  <2>3. \A j \in 1..Len(u) : j \in 1..n \/ j = n + 1
    BY <1>2, <2>1
  <2>4. n + 1 \in 1..Len(u) /\ n <= Len(u)
    BY <1>2, <2>1
  <2> HIDE DEF n
  <2>5. Apart(u)
    <3> SUFFICES ASSUME NEW i \in 1..Len(u), NEW j \in 1..Len(u), i # j
                 PROVE  ~Known(u[i], u[j])
      BY DEF Apart
    <3>1. CASE i \in 1..n /\ j \in 1..n
      BY <2>1, <3>1 DEF Apart, n
    <3>2. CASE i = n + 1 /\ j \in 1..n
      BY <2>1, <2>2, <3>2
    <3>3. CASE i \in 1..n /\ j = n + 1
      BY <2>1, <2>2, <3>3
    <3> QED
      BY <2>3, <3>1, <3>2, <3>3
  <2>6. Known(rec, rec) /\ Holds(u, rec)
    BY <2>1, <2>4 DEF Known, Holds
  <2>7. \A i \in 1..n : /\ Same(u[i], rows[i])
                        /\ rows[i].at # Blank => u[i].at # Blank
                        /\ ~Known(rows[i], rec) => u[i] = rows[i]
    BY <2>1 DEF Same
  <2>8. \A j \in 1..Len(u) : \/ j \in 1..n /\ u[j].at = rows[j].at
                             \/ Known(u[j], rec) /\ u[j].at = rec.at
    BY <2>1, <2>3, <2>6
  <2>9. \A j \in 1..Len(u) : j \notin 1..n => u[j] = rec
    BY <2>1, <2>3
  <2> QED
    BY <1>1, <2>4, <2>5, <2>6, <2>7, <2>8, <2>9 DEF OneMore, n
<1>5. CASE \E m \in Matches(rows, rec) :
             /\ m \in 1..n /\ Len(u) = n
             /\ u[m] = Updated(rows[m], rec)
             /\ \A i \in 1..n : i # m => u[i] = rows[i]
  <2>1. PICK m \in 1..n : /\ Len(u) = n /\ Known(rows[m], rec)
                          /\ u[m] = Updated(rows[m], rec)
                          /\ \A i \in 1..n : i # m => u[i] = rows[i]
    BY <1>3, <1>5
  <2>2. /\ Same(Updated(rows[m], rec), rows[m])
        /\ Updated(rows[m], rec).at = IF rec.at = Blank THEN rows[m].at ELSE rec.at
    BY <1>2 DEF Same, Updated, Records
  <2> HIDE DEF n
  <2>3. \A i \in 1..n : Same(u[i], rows[i])
    BY <2>1, <2>2 DEF Same
  <2>4. \A i \in 1..n : /\ rows[i].at # Blank => u[i].at # Blank
                        /\ ~Known(rows[i], rec) => u[i] = rows[i]
    BY <2>1, <2>2
  <2>5. Apart(u)
    BY <2>1, <2>3 DEF Apart, Known, Same, n
  <2>6. Known(u[m], rec)
    BY <2>1, <2>3 DEF Known, Same
  <2>7. Holds(u, rec)
    BY <2>1, <2>2, <2>6 DEF Holds
  <2>8. \A j \in 1..Len(u) : \/ j \in 1..n /\ u[j].at = rows[j].at
                             \/ Known(u[j], rec) /\ u[j].at = rec.at
    BY <2>1, <2>2, <2>6
  <2>9. n <= Len(u)
    BY <1>2, <2>1
  <2> QED
    BY <1>1, <2>1, <2>3, <2>4, <2>5, <2>7, <2>8, <2>9 DEF OneMore, n
<1> QED
  BY <1>1, <1>4, <1>5

(* What an upsert of recs has made of the rows: every row is where it was, *)
(* with its name, and has coordinates if it had; one that no record is of  *)
(* is as it was; new rows and coordinates are those of a record.           *)
Extends(u, rows, recs) ==
  /\ Len(rows) <= Len(u)
  /\ \A i \in 1..Len(rows) : Same(u[i], rows[i]) /\ (rows[i].at # Blank => u[i].at # Blank)
  /\ \A i \in 1..Len(rows) : (\A k \in 1..Len(recs) : ~Known(rows[i], recs[k])) => u[i] = rows[i]
  /\ \A j \in 1..Len(u) : j \notin 1..Len(rows) => \E i \in 1..Len(recs) : Same(u[j], recs[i])
  /\ \A j \in 1..Len(u) : \/ j \in 1..Len(rows) /\ u[j].at = rows[j].at
                          \/ \E i \in 1..Len(recs) : Known(u[j], recs[i]) /\ u[j].at = recs[i].at

LEMMA UpsertAll ==
  ASSUME NEW W, NEW rows \in Seq(Records(W)), NEW recs \in Seq(Records(W)),
         Apart(rows), Apart(recs)
  PROVE  LET u == FoldLeft(UpsertOne, rows, recs) IN
         /\ u \in Seq(Records(W)) /\ Apart(u) /\ Extends(u, rows, recs)
         /\ \A i \in 1..Len(recs) : Holds(u, recs[i])
<1>0. PICK t : Tables(t, W, rows, recs)
  BY UpsertWalk
<1>1. /\ t[0] = rows /\ t[Len(recs)] = FoldLeft(UpsertOne, rows, recs)
      /\ \A k \in 0..Len(recs) : t[k] \in Seq(Records(W))
      /\ \A k \in 1..Len(recs) : t[k] = UpsertOne(t[k - 1], recs[k])
  BY <1>0 DEF Tables
<1> DEFINE n == Len(recs)
           G == {k \in 0..n : /\ Apart(t[k]) /\ Extends(t[k], rows, recs)
                              /\ \A i \in 1..k : Holds(t[k], recs[i])}
<1>2. n \in Nat /\ \A i \in 1..n : recs[i] \in Records(W)
  OBVIOUS
<1>3. 0 \in G
  <2>1. Extends(rows, rows, recs)
    BY DEF Extends, Same
  <2>2. 0 \in 0..n /\ 1..0 = {}
    BY <1>2
  <2> QED
    BY <1>1, <2>1, <2>2
<1>4. ASSUME NEW k \in 1..n, k - 1 \in G PROVE k \in G
  <2>1. PICK s \in Seq(Records(W)), rec \in Records(W), u \in Seq(Records(W)) :
          s = t[k - 1] /\ rec = recs[k] /\ u = UpsertOne(s, rec) /\ u = t[k]
    BY <1>1, <1>2, <1>4
  <2>2. /\ Apart(s) /\ Extends(s, rows, recs) /\ k - 1 \in 0..n /\ k \in 0..n
        /\ \A i \in 1..(k - 1) : Holds(s, recs[i])
    BY <1>2, <1>4, <2>1
  <2>3. /\ Len(s) <= Len(u) /\ Apart(u) /\ Holds(u, rec)
        /\ \A i \in 1..Len(s) : /\ Same(u[i], s[i])
                                /\ s[i].at # Blank => u[i].at # Blank
                                /\ ~Known(s[i], rec) => u[i] = s[i]
        /\ \A j \in 1..Len(u) : \/ j \in 1..Len(s) /\ u[j].at = s[j].at
                                \/ Known(u[j], rec) /\ u[j].at = rec.at
        /\ \A j \in 1..Len(u) : j \notin 1..Len(s) => u[j] = rec
    <3>1. OneMore(u, s, rec)
      BY <2>1, <2>2, UpsertOneKeeps
    <3> QED
      BY <3>1 DEF OneMore
  <2>4. Len(rows) \in Nat /\ Len(s) \in Nat /\ Len(u) \in Nat /\ Len(rows) <= Len(s)
    BY <2>2 DEF Extends
  <2>5. 1..Len(rows) \subseteq 1..Len(s) /\ 1..Len(s) \subseteq 1..Len(u) /\ Len(rows) <= Len(u)
    BY <2>3, <2>4
  <2>6. Extends(u, rows, recs)
    <3>1. ASSUME NEW i \in 1..Len(rows)
          PROVE  Same(u[i], rows[i]) /\ (rows[i].at # Blank => u[i].at # Blank)
      BY <2>2, <2>3, <2>5 DEF Extends, Same
    <3>2. ASSUME NEW j \in 1..Len(u), j \notin 1..Len(rows)
          PROVE  \E i \in 1..n : Same(u[j], recs[i])
      <4>1. CASE j \in 1..Len(s)
        BY <2>2, <2>3, <3>2, <4>1 DEF Extends, Same
      <4>2. CASE j \notin 1..Len(s)
        BY <2>1, <2>3, <4>2 DEF Same
      <4> QED
        BY <4>1, <4>2
    <3>3. ASSUME NEW j \in 1..Len(u)
          PROVE  \/ j \in 1..Len(rows) /\ u[j].at = rows[j].at
                 \/ \E i \in 1..n : Known(u[j], recs[i]) /\ u[j].at = recs[i].at
      <4>1. CASE j \in 1..Len(s) /\ u[j].at = s[j].at
        <5>1. Same(u[j], s[j])
          BY <2>3, <4>1
        <5>2. \/ j \in 1..Len(rows) /\ s[j].at = rows[j].at
              \/ \E i \in 1..n : Known(s[j], recs[i]) /\ s[j].at = recs[i].at
          BY <2>2, <4>1 DEF Extends
        <5> QED
          BY <4>1, <5>1, <5>2 DEF Same, Known
      <4>2. CASE Known(u[j], rec) /\ u[j].at = rec.at
        BY <2>1, <4>2
      <4> QED
        BY <2>3, <4>1, <4>2
    <3>4. ASSUME NEW i \in 1..Len(rows), \A m \in 1..n : ~Known(rows[i], recs[m])
          PROVE  u[i] = rows[i]
      <4>1. s[i] = rows[i] /\ i \in 1..Len(s)
        BY <2>2, <2>5, <3>4 DEF Extends
      <4>2. ~Known(s[i], rec)
        BY <2>1, <3>4, <4>1
      <4> QED
        BY <2>3, <4>1, <4>2
    <3> QED
      BY <2>5, <3>1, <3>2, <3>3, <3>4 DEF Extends
  <2>7. ASSUME NEW i \in 1..k PROVE Holds(u, recs[i])
    <3>1. CASE i = k
      BY <2>1, <2>3, <3>1
    <3>2. CASE i # k
      <4>1. i \in 1..(k - 1) /\ i \in 1..n /\ k \in 1..n
        BY <1>2, <3>2
      <4>2. PICK j \in 1..Len(s) :
              Known(s[j], recs[i]) /\ (recs[i].at # Blank => s[j].at = recs[i].at)
        BY <2>2, <4>1 DEF Holds
      <4>3. ~Known(recs[i], recs[k])
        BY <3>2, <4>1 DEF Apart
      <4>4. ~Known(s[j], rec)
        BY <2>1, <4>2, <4>3 DEF Known
      <4>5. u[j] = s[j] /\ j \in 1..Len(u)
        BY <2>3, <2>5, <4>4
      <4> QED
        BY <4>2, <4>5 DEF Holds
    <3> QED
      BY <3>1, <3>2
  <2> QED
    BY <2>1, <2>2, <2>3, <2>6, <2>7
<1>5. n \in G
  <2> HIDE DEF G
  <2>1. \A k \in 0..n : k \in G
    BY <1>2, <1>3, <1>4, StepByStep
  <2> QED
    BY <1>2, <2>1
<1>6. /\ Apart(t[n]) /\ Extends(t[n], rows, recs) /\ t[n] \in Seq(Records(W))
      /\ \A i \in 1..n : Holds(t[n], recs[i])
  BY <1>1, <1>2, <1>5
<1> QED
  BY <1>1, <1>6

-----------------------------------------------------------------------------
(* merge_village_sources: a dict, in order of insertion.                   *)
Keys(W)    == (W \X W) \cup (W \X W \X W)
Entries(W) == [key : Keys(W), rec : Records(W)]

LEMMA PutIs ==
  ASSUME NEW W, NEW dict \in Seq(Entries(W)), NEW key \in Keys(W), NEW rec \in Records(W)
  PROVE  /\ Put(dict, key, rec) \in Seq(Entries(W))
         /\ (\A i \in 1..Len(dict) : dict[i].key # key) =>
              Put(dict, key, rec) = Append(dict, [key |-> key, rec |-> rec])
         /\ (\E i \in 1..Len(dict) : dict[i].key = key) =>
              /\ Len(Put(dict, key, rec)) = Len(dict)
              /\ \A i \in 1..Len(dict) : Put(dict, key, rec)[i] =
                   IF dict[i].key = key THEN [key |-> key, rec |-> rec] ELSE dict[i]
<1>1. PICK e \in Entries(W) : e = [key |-> key, rec |-> rec]
  BY DEF Entries
<1>2. CASE \A i \in 1..Len(dict) : dict[i].key # key
  <2>1. Put(dict, key, rec) = Append(dict, e)
    BY <1>1, <1>2 DEF Put, Indices
  <2> QED
    BY <1>1, <1>2, <2>1
<1>3. CASE \E i \in 1..Len(dict) : dict[i].key = key
  <2>1. Put(dict, key, rec) = [i \in 1..Len(dict) |-> IF dict[i].key = key THEN e ELSE dict[i]]
    BY <1>1, <1>3 DEF Put, Indices
  <2>2. \A i \in 1..Len(dict) : (IF dict[i].key = key THEN e ELSE dict[i]) \in Entries(W)
    BY <1>1
  <2>3. Len(dict) \in Nat
    OBVIOUS
  <2>4. Put(dict, key, rec) \in Seq(Entries(W)) /\ Len(Put(dict, key, rec)) = Len(dict)
    BY <2>1, <2>2, <2>3
  <2> QED
    BY <1>1, <1>3, <2>1, <2>4
<1> QED
  BY <1>2, <1>3

LEMMA AppendToPair ==
  ASSUME NEW W, NEW a \in W, NEW b \in W, NEW c \in W
  PROVE  Append(<<a, b>>, c) = <<a, b, c>>
<1>1. <<a, b>> \in Seq(W) /\ Len(<<a, b>>) = 2 /\ <<a, b, c>> \in Seq(W) /\ Len(<<a, b, c>>) = 3
  OBVIOUS
<1>2. PICK p \in Seq(W) : p = <<a, b>> /\ Len(p) = 2 /\ p[1] = a /\ p[2] = b
  BY <1>1
<1>3. Append(p, c) \in Seq(W)
  OBVIOUS
<1>4. PICK s \in Seq(W) : s = Append(p, c)
  BY <1>3
<1>5. PICK t \in Seq(W) : t = <<a, b, c>> /\ Len(t) = 3 /\ t[1] = a /\ t[2] = b /\ t[3] = c
  BY <1>1
<1>6. Len(s) = 3 /\ s[1] = a /\ s[2] = b /\ s[3] = c
  BY <1>2, <1>4
<1>7. \A i \in 1..3 : i = 1 \/ i = 2 \/ i = 3
  OBVIOUS
<1>8. \A i \in 1..3 : s[i] = t[i]
  BY <1>5, <1>6, <1>7
<1>9. s = [i \in 1..3 |-> s[i]] /\ t = [i \in 1..3 |-> t[i]]
  BY <1>5, <1>6
<1> QED
  BY <1>2, <1>4, <1>5, <1>8, <1>9

(* One record: unless its name is known, it joins; if it is known and the  *)
(* codes differ, both stay.                                                *)
LEMMA MergeOneIs ==
  ASSUME NEW W, NEW dict \in Seq(Entries(W)), NEW rec \in Records(W)
  PROVE  /\ MergeOne(dict, rec) \in Seq(Entries(W))
         /\ <<rec.taluk, rec.name>> \in Keys(W)
         /\ \/ /\ \A i \in 1..Len(dict) : dict[i].key # <<rec.taluk, rec.name>>
               /\ MergeOne(dict, rec) = Put(dict, <<rec.taluk, rec.name>>, rec)
            \/ \E i \in 1..Len(dict) :
                 /\ dict[i].key = <<rec.taluk, rec.name>>
                 /\ <<rec.taluk, rec.name, dict[i].rec.code>> \in Keys(W)
                 /\ Differ(rec, dict[i].rec) =>
                      MergeOne(dict, rec) =
                        Put(Put(dict, <<rec.taluk, rec.name, dict[i].rec.code>>, dict[i].rec),
                            <<rec.taluk, rec.name>>, rec)
<1> DEFINE K == <<rec.taluk, rec.name>>
           I == {i \in 1..Len(dict) : dict[i].key = K}
           i0 == SelectInSeq(dict, LAMBDA e : e.key = K)
<1>1. rec.taluk \in W /\ rec.name \in W /\ K \in Keys(W)
  BY DEF Records, Keys
<1>2. i0 = IF I # {} THEN Min(I) ELSE 0
  BY DEF SelectInSeq
<1>3. CASE I = {}
  <2>1. i0 = 0
    BY <1>2, <1>3
  <2>2. MergeOne(dict, rec) = Put(dict, K, rec)
    BY <2>1 DEF MergeOne
  <2>3. Put(dict, K, rec) \in Seq(Entries(W))
    BY <1>1, PutIs
  <2> QED
    BY <1>1, <1>3, <2>2, <2>3
<1>4. CASE I # {}
  <2>1. PICK i \in I : i = i0
    <3>1. I \in SUBSET Nat
      OBVIOUS
    <3>2. \E x \in I : \A y \in I : x <= y
      BY <1>4, <3>1, SmallestExists
    <3>3. Min(I) \in I
      BY <3>2 DEF Min
    <3> QED
      BY <1>2, <1>4, <3>3
  <2> HIDE DEF i0
  <2>2. i \in 1..Len(dict) /\ dict[i].key = K /\ i # 0
    <3>1. i \in 1..Len(dict) /\ dict[i].key = K
      OBVIOUS
    <3> QED
      BY <3>1
  <2>3. dict[i] \in Entries(W)
    BY <2>2
  <2>4. PICK have \in Records(W) : have = dict[i].rec
    BY <2>3 DEF Entries
  <2>5. have.code \in W /\ <<rec.taluk, rec.name, have.code>> \in Keys(W)
    BY <1>1, <2>4 DEF Records, Keys
  <2>6. Append(K, have.code) = <<rec.taluk, rec.name, have.code>>
    BY <1>1, <2>5, AppendToPair, Zenon
  <2>7. MergeOne(dict, rec) =
          IF Differ(rec, have) THEN Put(Put(dict, <<rec.taluk, rec.name, have.code>>, have), K, rec)
          ELSE Put(dict, K, Filled(have, rec))
    BY <2>1, <2>2, <2>4, <2>6, Zenon DEF MergeOne, i0
  <2>8. Filled(have, rec) \in Records(W)
    BY DEF Filled, Records
  <2>9. MergeOne(dict, rec) \in Seq(Entries(W))
    <3>1. Put(dict, K, Filled(have, rec)) \in Seq(Entries(W))
      BY <1>1, <2>8, PutIs
    <3>2. Put(dict, <<rec.taluk, rec.name, have.code>>, have) \in Seq(Entries(W))
      BY <2>5, PutIs
    <3>3. Put(Put(dict, <<rec.taluk, rec.name, have.code>>, have), K, rec) \in Seq(Entries(W))
      BY <1>1, <3>2, PutIs
    <3> QED
      BY <2>7, <3>1, <3>3
  <2> QED
    BY <1>1, <2>2, <2>4, <2>5, <2>7, <2>9
<1> QED
  BY <1>3, <1>4

(* Records of one name have codes that differ.                             *)
Keyed(R) ==
  \A i, j \in 1..Len(R) :
    i # j /\ R[i].taluk = R[j].taluk /\ R[i].name = R[j].name => Differ(R[i], R[j])

(* The dict after the first k records: these and no others, each once,     *)
(* under its name or its name and code.                                    *)
KeyOf(e) ==
  \/ e.key = <<e.rec.taluk, e.rec.name>>
  \/ e.key = <<e.rec.taluk, e.rec.name, e.rec.code>>

Collects(d, R, k) ==
  /\ \A i \in 1..k : \E e \in 1..Len(d) : d[e].rec = R[i]
  /\ \A e \in 1..Len(d) : KeyOf(d[e]) /\ \E i \in 1..k : d[e].rec = R[i]
  /\ \A e, f \in 1..Len(d) : e # f => d[e].rec # d[f].rec /\ d[e].key # d[f].key

LEMMA PairIsNoTriple ==
  ASSUME NEW a, NEW b, NEW c, NEW d, NEW e
  PROVE  <<a, b>> # <<c, d, e>>
  OBVIOUS

LEMMA MergeStep ==
  ASSUME NEW W, NEW R \in Seq(Records(W)), Keyed(R), NEW k \in 1..Len(R),
         NEW d \in Seq(Entries(W)), Collects(d, R, k - 1)
  PROVE  Collects(MergeOne(d, R[k]), R, k)
<1> DEFINE K == <<R[k].taluk, R[k].name>>
           n == Len(d)
<1>1. /\ k \in Nat /\ R[k] \in Records(W) /\ n \in Nat /\ n + 1 \in Nat
      /\ \A i \in 1..(k - 1) : i \in 1..Len(R) /\ i # k /\ i \in 1..k
      /\ \A i \in 1..k : i \in 1..(k - 1) \/ i = k
      /\ \A e \in 1..n : d[e] \in Entries(W)
  OBVIOUS
<1>2. PICK rec \in Records(W) : rec = R[k]
  BY <1>1
<1>8. /\ \A i \in 1..(k - 1) : \E e \in 1..n : d[e].rec = R[i]
      /\ \A e \in 1..n : KeyOf(d[e])
      /\ \A e \in 1..n : \E i \in 1..(k - 1) : d[e].rec = R[i]
      /\ \A e, f \in 1..n : e # f => d[e].rec # d[f].rec /\ d[e].key # d[f].key
  BY DEF Collects
<1>3. ASSUME NEW e \in 1..n PROVE d[e].rec # rec
  <2>1. PICK i \in 1..(k - 1) : d[e].rec = R[i]
    BY <1>8
  <2> QED
    BY <1>1, <1>2, <2>1 DEF Keyed, Differ
<1>4. CASE /\ \A e \in 1..n : d[e].key # K
           /\ MergeOne(d, rec) = Put(d, K, rec)
  <2>1. K \in Keys(W)
    BY <1>2 DEF Keys, Records
  <2>2. Put(d, K, rec) = Append(d, [key |-> K, rec |-> rec])
    <3> HIDE DEF K
    <3> QED
      BY <1>4, <2>1, PutIs
  <2>3. PICK x \in Entries(W) : x = [key |-> K, rec |-> rec]
    BY <2>1 DEF Entries
  <2>4. x.key = K /\ x.rec = rec /\ KeyOf(x)
    BY <1>2, <2>3 DEF KeyOf
  <2>5. PICK u \in Seq(Entries(W)) : u = MergeOne(d, rec) /\ u = Append(d, x)
    <3>1. Append(d, x) \in Seq(Entries(W))
      OBVIOUS
    <3> QED
      BY <1>4, <2>2, <2>3, <3>1
  <2>6. Len(u) = n + 1 /\ u[n + 1] = x /\ \A e \in 1..n : u[e] = d[e]
    BY <1>1, <2>5
  <2>7. n + 1 \in 1..Len(u) /\ 1..n \subseteq 1..Len(u)
        /\ \A e \in 1..Len(u) : e \in 1..n \/ e = n + 1
    BY <1>1, <2>6
  <2> HIDE DEF n, K
  <2>8. ASSUME NEW i \in 1..k PROVE \E e \in 1..Len(u) : u[e].rec = R[i]
    <3>1. CASE i = k
      BY <1>2, <2>4, <2>6, <2>7, <3>1
    <3>2. CASE i \in 1..(k - 1)
      <4>1. PICK e \in 1..n : d[e].rec = R[i]
        BY <1>8, <3>2
      <4> QED
        BY <2>6, <2>7, <4>1
    <3> QED
      BY <1>1, <3>1, <3>2
  <2>9. ASSUME NEW e \in 1..Len(u) PROVE KeyOf(u[e]) /\ \E i \in 1..k : u[e].rec = R[i]
    <3>1. CASE e = n + 1
      BY <1>1, <1>2, <2>4, <2>6, <3>1
    <3>2. CASE e \in 1..n
      <4>1. KeyOf(d[e]) /\ \E i \in 1..(k - 1) : d[e].rec = R[i]
        BY <1>8, <3>2
      <4> QED
        BY <1>1, <2>6, <3>2, <4>1
    <3> QED
      BY <2>7, <3>1, <3>2
  <2>10. ASSUME NEW e \in 1..Len(u), NEW f \in 1..Len(u), e # f
         PROVE  u[e].rec # u[f].rec /\ u[e].key # u[f].key
    <3>1. CASE e \in 1..n /\ f \in 1..n
      <4>1. d[e].rec # d[f].rec /\ d[e].key # d[f].key
        BY <1>8, <2>10, <3>1
      <4> QED
        BY <2>6, <3>1, <4>1
    <3>2. CASE e = n + 1 /\ f \in 1..n
      BY <1>3, <1>4, <2>4, <2>6, <3>2
    <3>3. CASE e \in 1..n /\ f = n + 1
      BY <1>3, <1>4, <2>4, <2>6, <3>3
    <3> QED
      BY <2>7, <2>10, <3>1, <3>2, <3>3
  <2>11. Collects(u, R, k)
    BY <2>8, <2>9, <2>10 DEF Collects
  <2> QED
    BY <1>2, <2>5, <2>11
<1>5. CASE \E i \in 1..n :
             /\ d[i].key = K
             /\ <<rec.taluk, rec.name, d[i].rec.code>> \in Keys(W)
             /\ Differ(rec, d[i].rec) =>
                  MergeOne(d, rec) =
                    Put(Put(d, <<rec.taluk, rec.name, d[i].rec.code>>, d[i].rec), K, rec)
  <2>1. PICK i \in 1..n :
          /\ d[i].key = K
          /\ <<rec.taluk, rec.name, d[i].rec.code>> \in Keys(W)
          /\ Differ(rec, d[i].rec) =>
               MergeOne(d, rec) =
                 Put(Put(d, <<rec.taluk, rec.name, d[i].rec.code>>, d[i].rec), K, rec)
    BY <1>5
  <2>2. PICK have \in Records(W) : have = d[i].rec
    BY <1>1 DEF Entries
  <2>3. PICK a \in 1..(k - 1) : have = R[a]
    BY <1>8, <2>2
  <2>4. have.taluk = rec.taluk /\ have.name = rec.name
    <3>1. KeyOf(d[i])
      BY <1>8
    <3>2. d[i].key # <<have.taluk, have.name, have.code>>
      BY <2>1, PairIsNoTriple
    <3>3. d[i].key = <<have.taluk, have.name>>
      BY <2>2, <3>1, <3>2 DEF KeyOf
    <3> QED
      BY <1>2, <2>1, <3>3
  <2>5. Differ(rec, have)
    BY <1>1, <1>2, <2>3, <2>4 DEF Keyed, Differ
  <2> DEFINE L == <<rec.taluk, rec.name, have.code>>
  <2>6. K \in Keys(W) /\ L \in Keys(W) /\ K # L
    BY <1>2, <2>1, <2>2, PairIsNoTriple DEF Keys, Records
  <2>7. ASSUME NEW e \in 1..n PROVE d[e].key # L
    <3>1. SUFFICES ASSUME d[e].key = L PROVE FALSE
      OBVIOUS
    <3>2. PICK b \in 1..(k - 1) : d[e].rec = R[b]
      BY <1>8
    <3>3. d[e].key # <<R[b].taluk, R[b].name>>
      BY <3>1, PairIsNoTriple
    <3>4. L = <<R[b].taluk, R[b].name, R[b].code>>
      <4>1. KeyOf(d[e])
        BY <1>8
      <4> QED
        BY <3>1, <3>2, <3>3, <4>1 DEF KeyOf
    <3>5. R[b].taluk = rec.taluk /\ R[b].name = rec.name /\ R[b].code = have.code
      BY <3>4
    <3>6. b = a
      BY <1>1, <2>3, <2>4, <3>5 DEF Keyed, Differ
    <3>7. e = i
      <4>1. d[e].rec = d[i].rec
        BY <2>2, <2>3, <3>2, <3>6
      <4>2. e # i => d[e].rec # d[i].rec
        BY <1>8
      <4> QED
        BY <4>1, <4>2
    <3> QED
      BY <2>1, <2>6, <3>1, <3>7
  <2>8. PICK x \in Entries(W), y \in Entries(W) :
          x = [key |-> L, rec |-> have] /\ y = [key |-> K, rec |-> rec]
    BY <2>6 DEF Entries
  <2>9. /\ x.key = L /\ x.rec = have /\ KeyOf(x)
        /\ y.key = K /\ y.rec = rec /\ KeyOf(y)
    BY <1>2, <2>4, <2>8 DEF KeyOf
  <2>10. MergeOne(d, rec) = Put(Put(d, L, have), K, rec)
    BY <2>1, <2>2, <2>5
  <2> HIDE DEF K, L
  <2>11. PICK v \in Seq(Entries(W)) : v = Put(d, L, have) /\ v = Append(d, x)
    <3>1. Put(d, L, have) \in Seq(Entries(W)) /\ Put(d, L, have) = Append(d, [key |-> L, rec |-> have])
      BY <2>6, <2>7, PutIs
    <3> QED
      BY <2>8, <3>1
  <2>12. Len(v) = n + 1 /\ v[n + 1] = x /\ \A e \in 1..n : v[e] = d[e]
    BY <1>1, <2>11
  <2>13. n + 1 \in 1..(n + 1) /\ i \in 1..(n + 1) /\ i # n + 1 /\ 1..n \subseteq 1..(n + 1)
         /\ \A e \in 1..(n + 1) : e \in 1..n \/ e = n + 1
    <3>1. n \in Nat /\ i \in Nat /\ 1 <= i /\ i <= n
      BY <1>1
    <3> QED
      BY <3>1
  <2>14. PICK u \in Seq(Entries(W)) :
           /\ u = MergeOne(d, rec) /\ Len(u) = n + 1
           /\ \A e \in 1..(n + 1) : u[e] = IF v[e].key = K THEN y ELSE v[e]
    <3>1. \E e \in 1..Len(v) : v[e].key = K
      BY <2>1, <2>12, <2>13
    <3>2. /\ Put(v, K, rec) \in Seq(Entries(W)) /\ Len(Put(v, K, rec)) = Len(v)
          /\ \A e \in 1..Len(v) : Put(v, K, rec)[e] =
               IF v[e].key = K THEN [key |-> K, rec |-> rec] ELSE v[e]
      BY <2>6, <3>1, PutIs
    <3> QED
      BY <2>8, <2>10, <2>11, <2>12, <3>2
  <2>15. /\ u[i] = y /\ u[n + 1] = x
         /\ \A e \in 1..n : e # i => u[e] = d[e]
    <3>1. \A e \in 1..n : e # i => d[e].key # K
      BY <1>8, <2>1
    <3> QED
      BY <2>1, <2>6, <2>9, <2>12, <2>13, <2>14, <3>1
  <2>16. ASSUME NEW j \in 1..k PROVE \E e \in 1..(n + 1) : u[e].rec = R[j]
    <3>1. CASE j = k
      BY <1>2, <2>9, <2>13, <2>15, <3>1
    <3>2. CASE j \in 1..(k - 1)
      <4>1. PICK e \in 1..n : d[e].rec = R[j]
        BY <1>8, <3>2
      <4>2. CASE e = i
        BY <2>2, <2>9, <2>13, <2>15, <4>1, <4>2
      <4>3. CASE e # i
        BY <2>13, <2>15, <4>1, <4>3
      <4> QED
        BY <4>2, <4>3
    <3> QED
      BY <1>1, <3>1, <3>2
  <2>17. ASSUME NEW e \in 1..(n + 1) PROVE KeyOf(u[e]) /\ \E j \in 1..k : u[e].rec = R[j]
    <3>1. CASE e = n + 1
      BY <1>1, <2>3, <2>9, <2>15, <3>1
    <3>2. CASE e = i
      BY <1>1, <1>2, <2>9, <2>15, <3>2
    <3>3. CASE e \in 1..n /\ e # i
      <4>1. KeyOf(d[e]) /\ \E j \in 1..(k - 1) : d[e].rec = R[j]
        BY <1>8, <3>3
      <4> QED
        BY <1>1, <2>15, <3>3, <4>1
    <3> QED
      BY <2>13, <3>1, <3>2, <3>3
  <2>18. \A e \in 1..n : e # i => d[e].rec # have
    BY <1>8, <2>2
  <2>19. rec # have
    BY <1>3, <2>2
  <2>20. ASSUME NEW e \in 1..(n + 1), NEW f \in 1..(n + 1), e # f
         PROVE  u[e].rec # u[f].rec /\ u[e].key # u[f].key
    <3> DEFINE Old(g) == g \in 1..n /\ g # i
    <3>1. /\ Old(e) \/ e = i \/ e = n + 1
          /\ Old(f) \/ f = i \/ f = n + 1
      BY <2>13
    <3>2. \A g : Old(g) => u[g] = d[g] /\ d[g].rec # rec /\ d[g].rec # have
                           /\ d[g].key # K /\ d[g].key # L
      BY <1>3, <1>8, <2>1, <2>7, <2>15, <2>18
    <3>3. CASE Old(e) /\ Old(f)
      <4>1. d[e].rec # d[f].rec /\ d[e].key # d[f].key
        BY <1>8, <2>20, <3>3
      <4> QED
        BY <3>2, <3>3, <4>1
    <3>4. CASE Old(e) /\ ~Old(f)
      BY <2>9, <2>15, <3>1, <3>2, <3>4
    <3>5. CASE ~Old(e) /\ Old(f)
      BY <2>9, <2>15, <3>1, <3>2, <3>5
    <3>6. CASE ~Old(e) /\ ~Old(f)
      BY <2>6, <2>9, <2>15, <2>19, <2>20, <3>1, <3>6
    <3> QED
      BY <3>3, <3>4, <3>5, <3>6
  <2>21. Collects(u, R, k)
    <3>1. Len(u) = n + 1
      BY <2>14
    <3> HIDE DEF n
    <3> QED
      BY <2>16, <2>17, <2>20, <3>1 DEF Collects
  <2> QED
    BY <1>2, <2>14, <2>21
<1> QED
  <2>1. \/ /\ \A i \in 1..n : d[i].key # <<rec.taluk, rec.name>>
           /\ MergeOne(d, rec) = Put(d, <<rec.taluk, rec.name>>, rec)
        \/ \E i \in 1..n :
             /\ d[i].key = <<rec.taluk, rec.name>>
             /\ <<rec.taluk, rec.name, d[i].rec.code>> \in Keys(W)
             /\ Differ(rec, d[i].rec) =>
                  MergeOne(d, rec) =
                    Put(Put(d, <<rec.taluk, rec.name, d[i].rec.code>>, d[i].rec),
                        <<rec.taluk, rec.name>>, rec)
    BY MergeOneIs
  <2>2. K = <<rec.taluk, rec.name>>
    BY <1>2
  <2> HIDE DEF K
  <2> QED
    BY <1>4, <1>5, <2>1, <2>2

Dicts(t, W, recs) ==
  /\ t[0] = <<>> /\ t[Len(recs)] = FoldLeft(MergeOne, <<>>, recs)
  /\ \A k \in 0..Len(recs) : t[k] \in Seq(Entries(W))
  /\ \A k \in 1..Len(recs) : t[k] = MergeOne(t[k - 1], recs[k])

LEMMA MergeWalk ==
  ASSUME NEW W, NEW recs \in Seq(Records(W))
  PROVE  \E t : Dicts(t, W, recs)
<1> DEFINE n == Len(recs)
           D == Seq(Entries(W))
           Solves(it) == it = [S \in SUBSET (1..n) |->
             IF S = {} THEN <<>> ELSE MergeOne(it[S \ {Max(S)}], recs[Max(S)])]
           op == [p \in D \X (1..n) |-> MergeOne(p[1], recs[p[2]])]
<1>1. n \in Nat /\ DOMAIN recs = 1..n /\ <<>> \in D
  OBVIOUS
<1>2. FoldLeft(MergeOne, <<>>, recs) = (CHOOSE it : Solves(it))[1..n]
  <2>1. FoldLeft(MergeOne, <<>>, recs) =
          (CHOOSE it : it = [S \in SUBSET (DOMAIN recs) |->
             IF S = {} THEN <<>> ELSE MergeOne(it[S \ {Max(S)}], recs[Max(S)])])[DOMAIN recs]
    BY DEF FoldLeft, MapThenFoldSet
  <2> QED
    BY <1>1, <2>1
<1>3. op \in [D \X (1..n) -> D]
  <2>1. \A p \in D \X (1..n) : MergeOne(p[1], recs[p[2]]) \in D
    <3> SUFFICES ASSUME NEW p \in D \X (1..n) PROVE MergeOne(p[1], recs[p[2]]) \in D
      OBVIOUS
    <3>1. p[1] \in Seq(Entries(W)) /\ recs[p[2]] \in Records(W)
      OBVIOUS
    <3> QED
      BY <3>1, MergeOneIs
  <2> QED
    BY <2>1
<1>4. \E it : Solves(it)
  <2>1. PICK it \in [SUBSET (1..n) -> D] : Folds(it, n, <<>>, op)
    <3> HIDE DEF n, D, op
    <3> QED
      BY <1>1, <1>3, FoldExists
  <2>2. ASSUME NEW S \in SUBSET (1..n)
        PROVE  it[S] = IF S = {} THEN <<>> ELSE MergeOne(it[S \ {Max(S)}], recs[Max(S)])
    <3>1. CASE S = {}
      BY <2>1, <3>1 DEF Folds
    <3>2. CASE S # {}
      <4>1. Max(S) \in 1..n
        BY <1>1, <3>2, LargestExists
      <4>2. <<it[S \ {Max(S)}], Max(S)>> \in D \X (1..n)
        BY <2>1, <4>1
      <4>3. op[<<it[S \ {Max(S)}], Max(S)>>] = MergeOne(it[S \ {Max(S)}], recs[Max(S)])
        BY <4>2
      <4> QED
        BY <2>1, <3>2, <4>3 DEF Folds
    <3> QED
      BY <3>1, <3>2
  <2>3. Solves(it)
    BY <2>1, <2>2
  <2> QED
    BY <2>3
<1>5. PICK it : Solves(it) /\ it[1..n] = FoldLeft(MergeOne, <<>>, recs)
  <2> HIDE DEF Solves, n
  <2> QED
    BY <1>2, <1>4
<1> DEFINE t == [k \in 0..n |-> it[1..k]]
<1>6. t[0] = <<>> /\ t[n] = FoldLeft(MergeOne, <<>>, recs)
  <2>1. 1..0 = {} /\ 1..0 \in SUBSET (1..n)
    OBVIOUS
  <2>2. it[1..0] = <<>>
    BY <1>5, <2>1
  <2>3. 0 \in 0..n /\ n \in 0..n
    BY <1>1
  <2> QED
    BY <1>5, <2>2, <2>3
<1>7. ASSUME NEW k \in 1..n PROVE t[k] = MergeOne(t[k - 1], recs[k])
  <2>1. Max(1..k) = k /\ (1..k) \ {k} = 1..(k - 1)
    BY <1>1, LargestUpTo
  <2>2. 1..k \in SUBSET (1..n) /\ 1..k # {} /\ k - 1 \in 0..n /\ k \in 0..n
    <3>1. k \in Nat /\ k >= 1 /\ k <= n
      BY <1>1
    <3>2. k \in 1..k /\ 1..k \in SUBSET (1..n)
      BY <1>1, <3>1
    <3>3. k - 1 \in 0..n /\ k \in 0..n
      BY <1>1, <3>1
    <3> QED
      BY <3>2, <3>3
  <2>3. it[1..k] = MergeOne(it[1..(k - 1)], recs[k])
    BY <1>5, <2>1, <2>2
  <2> QED
    BY <2>2, <2>3
<1>8. \A k \in 0..n : t[k] \in D
  <2> DEFINE G == {k \in 0..n : t[k] \in D}
  <2> HIDE DEF t
  <2>1. 0 \in G
    <3>1. 0 \in 0..n /\ t[0] \in D
      BY <1>1, <1>6
    <3> QED
      BY <3>1
  <2>2. ASSUME NEW k \in 1..n, k - 1 \in G PROVE k \in G
    <3>1. recs[k] \in Records(W) /\ t[k - 1] \in Seq(Entries(W))
      BY <2>2
    <3>2. MergeOne(t[k - 1], recs[k]) \in Seq(Entries(W))
      BY <3>1, MergeOneIs
    <3> QED
      BY <1>7, <3>2
  <2> HIDE DEF G
  <2>3. \A k \in 0..n : k \in G
    BY <1>1, <2>1, <2>2, StepByStep
  <2> QED
    BY <2>3 DEF G
<1> QED
  <2> HIDE DEF t
  <2>1. Dicts(t, W, recs)
    BY <1>6, <1>7, <1>8 DEF Dicts
  <2> QED
    BY <2>1

(* Nothing is lost in the merge, nothing is added, and nothing is there    *)
(* twice.                                                                  *)
Shuffles(M, R) ==
  /\ \A i \in 1..Len(R) : \E e \in 1..Len(M) : M[e] = R[i]
  /\ \A e \in 1..Len(M) : \E i \in 1..Len(R) : M[e] = R[i]
  /\ \A e, f \in 1..Len(M) : e # f => M[e] # M[f]

LEMMA MergedIs ==
  ASSUME NEW W, NEW R \in Seq(Records(W)), Keyed(R)
  PROVE  Merged(R) \in Seq(Records(W)) /\ Shuffles(Merged(R), R)
<1>1. PICK t : Dicts(t, W, R)
  BY MergeWalk
<1> DEFINE n == Len(R)
           G == {k \in 0..n : Collects(t[k], R, k)}
<1>2. /\ n \in Nat /\ t[0] = <<>> /\ t[n] = FoldLeft(MergeOne, <<>>, R)
      /\ \A k \in 0..n : t[k] \in Seq(Entries(W))
      /\ \A k \in 1..n : t[k] = MergeOne(t[k - 1], R[k])
  BY <1>1 DEF Dicts
<1>3. 0 \in G
  <2>1. 1..0 = {} /\ 0 \in 0..n /\ Len(<<>>) = 0
    BY <1>2
  <2>2. Collects(<<>>, R, 0)
    BY <2>1 DEF Collects
  <2> QED
    BY <1>2, <2>1, <2>2
<1>4. ASSUME NEW k \in 1..n, k - 1 \in G PROVE k \in G
  <2>1. k - 1 \in 0..n /\ k \in 0..n
    BY <1>2
  <2>2. Collects(MergeOne(t[k - 1], R[k]), R, k)
    BY <1>2, <1>4, <2>1, MergeStep
  <2> QED
    BY <1>2, <2>1, <2>2
<1>5. n \in G
  <2> HIDE DEF G
  <2>1. \A k \in 0..n : k \in G
    BY <1>2, <1>3, <1>4, StepByStep
  <2> QED
    BY <1>2, <2>1
<1>6. PICK d \in Seq(Entries(W)) : d = FoldLeft(MergeOne, <<>>, R) /\ Collects(d, R, n)
  <2>1. t[n] \in Seq(Entries(W)) /\ Collects(t[n], R, n)
    BY <1>2, <1>5
  <2> QED
    BY <1>2, <2>1
<1>7. Merged(R) = [i \in 1..Len(d) |-> d[i].rec]
  BY <1>6 DEF Merged, Indices
<1>8. Len(d) \in Nat /\ \A i \in 1..Len(d) : d[i].rec \in Records(W)
  <2>1. Len(d) \in Nat /\ \A i \in 1..Len(d) : d[i] \in Entries(W)
    OBVIOUS
  <2> QED
    BY <2>1 DEF Entries
<1>9. PICK M \in Seq(Records(W)) :
        M = Merged(R) /\ Len(M) = Len(d) /\ \A i \in 1..Len(d) : M[i] = d[i].rec
  <2>1. Merged(R) \in Seq(Records(W))
    BY <1>7, <1>8
  <2> QED
    BY <1>7, <1>8, <2>1
<1>10. /\ \A i \in 1..n : \E e \in 1..Len(d) : d[e].rec = R[i]
       /\ \A e \in 1..Len(d) : \E i \in 1..n : d[e].rec = R[i]
       /\ \A e, f \in 1..Len(d) : e # f => d[e].rec # d[f].rec
  BY <1>6 DEF Collects
<1>11. \A i \in 1..n : \E e \in 1..Len(M) : M[e] = R[i]
  BY <1>9, <1>10
<1>12. \A e \in 1..Len(M) : \E i \in 1..n : M[e] = R[i]
  BY <1>9, <1>10
<1>13. \A e, f \in 1..Len(M) : e # f => M[e] # M[f]
  BY <1>9, <1>10
<1> QED
  BY <1>9, <1>11, <1>12, <1>13 DEF Shuffles

-----------------------------------------------------------------------------
(* parse_tn_census_csv: every village of the file, each once.              *)
CensusValues  == CensusOf("taluk") \cup CensusOf("name") \cup CensusOf("code") \cup {Blank}
CensusRecords == [taluk : CensusOf("taluk"), name : CensusOf("name"), code : CensusOf("code")]

LEMMA CensusRowsAre ==
  /\ CensusRows \in Seq(CensusRecords)
  /\ Len(CensusRows) \in Nat
  /\ \A i \in 1..Len(CensusRows) : CensusRows[i] \in CensusRecords
<1>1. CensusRows \in Seq(CensusRecords)
  BY CensusAssumption DEF CensusRecords
<1> HIDE DEF CensusRecords
<1> QED
  BY <1>1

LEMMA ParseOneIs ==
  ASSUME NEW recs \in Seq(Records(CensusValues)), NEW row \in CensusRecords
  PROVE  /\ Village(row) \in Records(CensusValues)
         /\ ParseOne(recs, row) \in Seq(Records(CensusValues))
<1>1. Village(row) \in Records(CensusValues)
  BY DEF Village, Records, CensusValues, CensusRecords
<1> QED
  BY <1>1 DEF ParseOne

Parses(t) ==
  /\ t[0] = <<>> /\ t[Len(CensusRows)] = FoldLeft(ParseOne, <<>>, CensusRows)
  /\ \A k \in 0..Len(CensusRows) : t[k] \in Seq(Records(CensusValues))
  /\ \A k \in 1..Len(CensusRows) : t[k] = ParseOne(t[k - 1], CensusRows[k])

LEMMA ParseWalk == \E t : Parses(t)
<1> DEFINE n == Len(CensusRows)
           D == Seq(Records(CensusValues))
           Solves(it) == it = [S \in SUBSET (1..n) |->
             IF S = {} THEN <<>> ELSE ParseOne(it[S \ {Max(S)}], CensusRows[Max(S)])]
           op == [p \in D \X (1..n) |-> ParseOne(p[1], CensusRows[p[2]])]
<1>1. n \in Nat /\ DOMAIN CensusRows = 1..n /\ <<>> \in D
  BY CensusAssumption
<1>2. FoldLeft(ParseOne, <<>>, CensusRows) = (CHOOSE it : Solves(it))[1..n]
  <2>1. FoldLeft(ParseOne, <<>>, CensusRows) =
          (CHOOSE it : it = [S \in SUBSET (DOMAIN CensusRows) |->
             IF S = {} THEN <<>> ELSE ParseOne(it[S \ {Max(S)}], CensusRows[Max(S)])])[DOMAIN CensusRows]
    BY DEF FoldLeft, MapThenFoldSet
  <2> QED
    BY <1>1, <2>1
<1>3. op \in [D \X (1..n) -> D]
  <2>1. \A p \in D \X (1..n) : ParseOne(p[1], CensusRows[p[2]]) \in D
    <3> SUFFICES ASSUME NEW p \in D \X (1..n) PROVE ParseOne(p[1], CensusRows[p[2]]) \in D
      OBVIOUS
    <3>1. p[1] \in Seq(Records(CensusValues)) /\ CensusRows[p[2]] \in CensusRecords
      BY CensusRowsAre
    <3> QED
      BY <3>1, ParseOneIs
  <2> QED
    BY <2>1
<1>4. \E it : Solves(it)
  <2>1. PICK it \in [SUBSET (1..n) -> D] : Folds(it, n, <<>>, op)
    <3> HIDE DEF n, D, op
    <3> QED
      BY <1>1, <1>3, FoldExists
  <2>2. ASSUME NEW S \in SUBSET (1..n)
        PROVE  it[S] = IF S = {} THEN <<>> ELSE ParseOne(it[S \ {Max(S)}], CensusRows[Max(S)])
    <3>1. CASE S = {}
      BY <2>1, <3>1 DEF Folds
    <3>2. CASE S # {}
      <4>1. Max(S) \in 1..n
        BY <1>1, <3>2, LargestExists
      <4>2. <<it[S \ {Max(S)}], Max(S)>> \in D \X (1..n)
        BY <2>1, <4>1
      <4>3. op[<<it[S \ {Max(S)}], Max(S)>>] = ParseOne(it[S \ {Max(S)}], CensusRows[Max(S)])
        BY <4>2
      <4> QED
        BY <2>1, <3>2, <4>3 DEF Folds
    <3> QED
      BY <3>1, <3>2
  <2>3. Solves(it)
    BY <2>1, <2>2
  <2> QED
    BY <2>3
<1>5. PICK it : Solves(it) /\ it[1..n] = FoldLeft(ParseOne, <<>>, CensusRows)
  <2> HIDE DEF Solves, n
  <2> QED
    BY <1>2, <1>4
<1> DEFINE t == [k \in 0..n |-> it[1..k]]
<1>6. t[0] = <<>> /\ t[n] = FoldLeft(ParseOne, <<>>, CensusRows)
  <2>1. 1..0 = {} /\ 1..0 \in SUBSET (1..n)
    OBVIOUS
  <2>2. it[1..0] = <<>>
    BY <1>5, <2>1
  <2>3. 0 \in 0..n /\ n \in 0..n
    BY <1>1
  <2> QED
    BY <1>5, <2>2, <2>3
<1>7. ASSUME NEW k \in 1..n PROVE t[k] = ParseOne(t[k - 1], CensusRows[k])
  <2>1. Max(1..k) = k /\ (1..k) \ {k} = 1..(k - 1)
    BY <1>1, LargestUpTo
  <2>2. 1..k \in SUBSET (1..n) /\ 1..k # {} /\ k - 1 \in 0..n /\ k \in 0..n
    <3>1. k \in Nat /\ k >= 1 /\ k <= n
      BY <1>1
    <3>2. k \in 1..k /\ 1..k \in SUBSET (1..n)
      BY <1>1, <3>1
    <3>3. k - 1 \in 0..n /\ k \in 0..n
      BY <1>1, <3>1
    <3> QED
      BY <3>2, <3>3
  <2>3. it[1..k] = ParseOne(it[1..(k - 1)], CensusRows[k])
    BY <1>5, <2>1, <2>2
  <2> QED
    BY <2>2, <2>3
<1>8. \A k \in 0..n : t[k] \in D
  <2> DEFINE G == {k \in 0..n : t[k] \in D}
  <2> HIDE DEF t
  <2>1. 0 \in G
    <3>1. 0 \in 0..n /\ t[0] \in D
      BY <1>1, <1>6
    <3> QED
      BY <3>1
  <2>2. ASSUME NEW k \in 1..n, k - 1 \in G PROVE k \in G
    <3>1. CensusRows[k] \in CensusRecords /\ t[k - 1] \in Seq(Records(CensusValues))
      BY <2>2, CensusRowsAre
    <3>2. ParseOne(t[k - 1], CensusRows[k]) \in Seq(Records(CensusValues))
      BY <3>1, ParseOneIs
    <3> QED
      BY <1>7, <3>2
  <2> HIDE DEF G
  <2>3. \A k \in 0..n : k \in G
    BY <1>1, <2>1, <2>2, StepByStep
  <2> QED
    BY <2>3 DEF G
<1> QED
  <2> HIDE DEF t
  <2>1. Parses(t)
    BY <1>6, <1>7, <1>8 DEF Parses
  <2> QED
    BY <2>1

(* What the file has been read as after its first k rows.                  *)
IsReading(p, k) ==
  /\ \A i \in 1..k : \E j \in 1..Len(p) :
       p[j].taluk = CensusRows[i].taluk /\ p[j].code = CensusRows[i].code
  /\ \A j \in 1..Len(p) : \E i \in 1..Len(CensusRows) : p[j] = Village(CensusRows[i])
  /\ \A i, j \in 1..Len(p) : i # j => p[i].taluk # p[j].taluk \/ p[i].code # p[j].code

LEMMA ParseStep ==
  ASSUME NEW p \in Seq(Records(CensusValues)), NEW k \in 1..Len(CensusRows), IsReading(p, k - 1)
  PROVE  IsReading(ParseOne(p, CensusRows[k]), k)
<1>1. /\ k \in Nat /\ CensusRows[k] \in CensusRecords
      /\ \A i \in 1..k : i \in 1..(k - 1) \/ i = k
  BY CensusRowsAre
<1>2. CASE \E i \in 1..Len(p) : p[i].taluk = CensusRows[k].taluk /\ p[i].code = CensusRows[k].code
  <2>1. ParseOne(p, CensusRows[k]) = p
    BY <1>2 DEF ParseOne, Indices
  <2>2. IsReading(p, k)
    BY <1>1, <1>2 DEF IsReading
  <2> QED
    BY <2>1, <2>2
<1>3. CASE \A i \in 1..Len(p) : p[i].taluk # CensusRows[k].taluk \/ p[i].code # CensusRows[k].code
  <2>1. PICK x \in Records(CensusValues) : x = Village(CensusRows[k])
    BY <1>1, ParseOneIs
  <2>2. x.taluk = CensusRows[k].taluk /\ x.code = CensusRows[k].code
    BY <2>1 DEF Village
  <2>3. PICK u \in Seq(Records(CensusValues)) : u = ParseOne(p, CensusRows[k]) /\ u = Append(p, x)
    <3>1. Append(p, x) \in Seq(Records(CensusValues))
      OBVIOUS
    <3>2. ParseOne(p, CensusRows[k]) = Append(p, x)
      BY <1>3, <2>1 DEF ParseOne, Indices
    <3> QED
      BY <3>1, <3>2
  <2> DEFINE n == Len(p)
  <2>4. n \in Nat /\ Len(u) = n + 1 /\ u[n + 1] = x /\ \A i \in 1..n : u[i] = p[i]
    BY <2>3
  <2>5. n + 1 \in 1..(n + 1) /\ 1..n \subseteq 1..(n + 1)
        /\ \A i \in 1..(n + 1) : i \in 1..n \/ i = n + 1
    BY <2>4
  <2>6. /\ \A i \in 1..(k - 1) : \E j \in 1..n :
             p[j].taluk = CensusRows[i].taluk /\ p[j].code = CensusRows[i].code
        /\ \A j \in 1..n : \E i \in 1..Len(CensusRows) : p[j] = Village(CensusRows[i])
        /\ \A i, j \in 1..n : i # j => p[i].taluk # p[j].taluk \/ p[i].code # p[j].code
    BY DEF IsReading
  <2>7. \A i \in 1..n : p[i].taluk # x.taluk \/ p[i].code # x.code
    BY <1>3, <2>2
  <2> HIDE DEF n
  <2>8. ASSUME NEW i \in 1..k
        PROVE  \E j \in 1..(n + 1) : u[j].taluk = CensusRows[i].taluk /\ u[j].code = CensusRows[i].code
    <3>1. CASE i = k
      BY <2>2, <2>4, <2>5, <3>1
    <3>2. CASE i \in 1..(k - 1)
      <4>1. PICK j \in 1..n : p[j].taluk = CensusRows[i].taluk /\ p[j].code = CensusRows[i].code
        BY <2>6, <3>2
      <4> QED
        BY <2>4, <2>5, <4>1
    <3> QED
      BY <1>1, <3>1, <3>2
  <2>9. ASSUME NEW j \in 1..(n + 1)
        PROVE  \E i \in 1..Len(CensusRows) : u[j] = Village(CensusRows[i])
    <3>1. CASE j \in 1..n
      <4>1. \E i \in 1..Len(CensusRows) : p[j] = Village(CensusRows[i])
        BY <2>6, <3>1
      <4> QED
        BY <2>4, <3>1, <4>1
    <3>2. CASE j = n + 1
      BY <2>1, <2>4, <3>2
    <3> QED
      BY <2>5, <3>1, <3>2
  <2>10. ASSUME NEW i \in 1..(n + 1), NEW j \in 1..(n + 1), i # j
         PROVE  u[i].taluk # u[j].taluk \/ u[i].code # u[j].code
    <3>1. CASE i \in 1..n /\ j \in 1..n
      <4>1. p[i].taluk # p[j].taluk \/ p[i].code # p[j].code
        BY <2>6, <2>10, <3>1
      <4> QED
        BY <2>4, <3>1, <4>1
    <3>2. CASE i = n + 1 /\ j \in 1..n
      BY <2>4, <2>7, <3>2
    <3>3. CASE i \in 1..n /\ j = n + 1
      BY <2>4, <2>7, <3>3
    <3> QED
      BY <2>5, <2>10, <3>1, <3>2, <3>3
  <2>11. IsReading(u, k)
    BY <2>4, <2>8, <2>9, <2>10 DEF IsReading
  <2> QED
    BY <2>3, <2>11
<1> QED
  BY <1>2, <1>3

LEMMA ParsedIs ==
  Parsed \in Seq(Records(CensusValues)) /\ IsReading(Parsed, Len(CensusRows))
<1>1. PICK t : Parses(t)
  BY ParseWalk
<1> DEFINE n == Len(CensusRows)
           G == {k \in 0..n : IsReading(t[k], k)}
<1>2. /\ n \in Nat /\ t[0] = <<>> /\ t[n] = Parsed
      /\ \A k \in 0..n : t[k] \in Seq(Records(CensusValues))
      /\ \A k \in 1..n : t[k] = ParseOne(t[k - 1], CensusRows[k])
  BY <1>1, CensusRowsAre DEF Parses, Parsed
<1>3. 0 \in G
  <2>1. 1..0 = {} /\ 0 \in 0..n /\ Len(<<>>) = 0
    BY <1>2
  <2>2. IsReading(<<>>, 0)
    BY <2>1 DEF IsReading
  <2> QED
    BY <1>2, <2>1, <2>2
<1>4. ASSUME NEW k \in 1..n, k - 1 \in G PROVE k \in G
  <2>1. k - 1 \in 0..n /\ k \in 0..n
    BY <1>2
  <2>2. IsReading(ParseOne(t[k - 1], CensusRows[k]), k)
    BY <1>2, <1>4, <2>1, ParseStep
  <2> QED
    BY <1>2, <2>1, <2>2
<1>5. n \in G
  <2> HIDE DEF G
  <2>1. \A k \in 0..n : k \in G
    BY <1>2, <1>3, <1>4, StepByStep
  <2> QED
    BY <1>2, <2>1
<1> QED
  BY <1>2, <1>5

-----------------------------------------------------------------------------
(* enrich_with_osm_coords and merge_osm_places: the villages of the file   *)
(* with coordinates, then places of other names.                           *)
LEMMA SetToSeqIs ==
  ASSUME NEW S, IsFiniteSet(S)
  PROVE  /\ SetToSeq(S) \in Seq(S)
         /\ \A i, j \in 1..Len(SetToSeq(S)) : i # j => SetToSeq(S)[i] # SetToSeq(S)[j]
<1> DEFINE n == Cardinality(S)
<1>1. n \in Nat /\ ExistsBijection(1..n, S)
  BY FS_CardinalityType
<1>2. \E f \in [1..n -> S] : IsInjective(f)
  BY <1>1 DEF ExistsBijection, Bijection, Injection, IsInjective
<1>3. SetToSeq(S) \in [1..n -> S] /\ IsInjective(SetToSeq(S))
  BY <1>2 DEF SetToSeq
<1> HIDE DEF n
<1>4. PICK f \in [1..n -> S] : f = SetToSeq(S) /\ IsInjective(f)
  BY <1>3
<1>5. f \in Seq(S) /\ Len(f) = n
  BY <1>1
<1>6. \A i, j \in 1..n : i # j => f[i] # f[j]
  BY <1>4 DEF IsInjective
<1> QED
  BY <1>4, <1>5, <1>6

PlaceValues(places) == {p.at : p \in places} \cup {p.name : p \in places}

(* A record with its name and, if a place gives them, its coordinates.     *)
LEMMA EnrichedIs ==
  ASSUME NEW W, NEW recs \in Seq(Records(W)), NEW places, PlaceValues(places) \subseteq W
  PROVE  /\ Enriched(recs, places) \in Seq(Records(W))
         /\ Len(Enriched(recs, places)) = Len(recs)
         /\ \A i \in 1..Len(recs) :
              /\ Same(Enriched(recs, places)[i], recs[i])
              /\ \/ Enriched(recs, places)[i].at = recs[i].at
                 \/ \E p \in places :
                      p.name = recs[i].name /\ Enriched(recs, places)[i].at = p.at
<1> DEFINE M(i) == {p \in places : p.name = recs[i].name}
           E(i) == IF Cardinality(M(i)) = 1
                   THEN [recs[i] EXCEPT !.at = (CHOOSE p \in M(i) : TRUE).at] ELSE recs[i]
<1>1. Enriched(recs, places) = [i \in 1..Len(recs) |-> E(i)]
  BY DEF Enriched, Indices
<1>2. ASSUME NEW i \in 1..Len(recs)
      PROVE  /\ E(i) \in Records(W) /\ Same(E(i), recs[i])
             /\ \/ E(i).at = recs[i].at
                \/ \E p \in places : p.name = recs[i].name /\ E(i).at = p.at
  <2>1. PICK r \in Records(W) : r = recs[i]
    OBVIOUS
  <2>2. CASE Cardinality(M(i)) = 1
    <3>1. M(i) # {}
      <4>1. PICK m : m = M(i)
        OBVIOUS
      <4>2. Cardinality(m) = 1
        BY <2>2, <4>1
      <4>3. ASSUME m = {} PROVE FALSE
        <5>1. Cardinality({}) = 0
          BY FS_EmptySet
        <5>2. Cardinality({}) = 1
          BY <4>2, <4>3, Zenon
        <5> QED
          BY <5>1, <5>2
      <4> QED
        BY <4>1, <4>3
    <3>2. PICK p \in M(i) : p = CHOOSE q \in M(i) : TRUE
      BY <3>1
    <3>3. p \in places /\ p.name = r.name /\ p.at \in W
      BY <2>1, <3>2 DEF PlaceValues
    <3>4. E(i) = [r EXCEPT !.at = p.at]
      BY <2>1, <2>2, <3>2
    <3>5. [r EXCEPT !.at = p.at] \in Records(W) /\ Same([r EXCEPT !.at = p.at], r)
          /\ [r EXCEPT !.at = p.at].at = p.at
      BY <3>3 DEF Records, Same
    <3> QED
      BY <2>1, <3>3, <3>4, <3>5
  <2>3. CASE Cardinality(M(i)) # 1
    BY <2>1, <2>3 DEF Same
  <2> QED
    BY <2>2, <2>3
<1> HIDE DEF E
<1>3. Len(recs) \in Nat
  OBVIOUS
<1>4. Enriched(recs, places) \in Seq(Records(W)) /\ Len(Enriched(recs, places)) = Len(recs)
  BY <1>1, <1>2, <1>3
<1>5. \A i \in 1..Len(recs) : Enriched(recs, places)[i] = E(i)
  BY <1>1
<1> QED
  BY <1>2, <1>4, <1>5

(* The records first, as they were; what joins them has no code, a name    *)
(* of its own, and the coordinates of a place.                             *)
Joins(R, recs, places) ==
  /\ Len(recs) <= Len(R) /\ \A i \in 1..Len(recs) : R[i] = recs[i]
  /\ \A i \in 1..Len(R) : i \notin 1..Len(recs) =>
       /\ R[i].code = Blank /\ R[i].taluk # Blank
       /\ \A j \in 1..Len(recs) : recs[j].name # R[i].name
       /\ \E p \in places : R[i].name = p.name /\ R[i].at = p.at
  /\ \A i, j \in 1..Len(R) :
       i # j /\ i \notin 1..Len(recs) /\ j \notin 1..Len(recs) => R[i].name # R[j].name
  /\ recs = <<>> => R = <<>>

LEMMA NoCentroids == Centroids(<<>>) = <<>>
  BY DEF Centroids, Indices

LEMMA JoinedIs ==
  ASSUME NEW W, NEW recs \in Seq(Records(W)), NEW A \in Seq(Records(W)), NEW places,
         \A i \in 1..Len(A) : /\ A[i].code = Blank /\ A[i].taluk # Blank
                              /\ \A j \in 1..Len(recs) : recs[j].name # A[i].name
                              /\ \E p \in places : A[i].name = p.name /\ A[i].at = p.at,
         \A i, j \in 1..Len(A) : i # j => A[i].name # A[j].name,
         recs = <<>> => A = <<>>
  PROVE  recs \o A \in Seq(Records(W)) /\ Joins(recs \o A, recs, places)
<1> DEFINE n == Len(recs)
           a == Len(A)
<1>1. PICK R \in Seq(Records(W)) : R = recs \o A
  <2>1. recs \o A \in Seq(Records(W))
    OBVIOUS
  <2> QED
    BY <2>1
<1>2. /\ n \in Nat /\ a \in Nat /\ Len(R) = n + a
      /\ \A i \in 1..n : R[i] = recs[i]
      /\ \A i \in 1..(n + a) : i \notin 1..n => i - n \in 1..a /\ R[i] = A[i - n]
  BY <1>1
<1>8. /\ \A i \in 1..a : /\ A[i].code = Blank /\ A[i].taluk # Blank
                         /\ \A j \in 1..n : recs[j].name # A[i].name
                         /\ \E p \in places : A[i].name = p.name /\ A[i].at = p.at
      /\ \A i, j \in 1..a : i # j => A[i].name # A[j].name
  OBVIOUS
<1> HIDE DEF n, a
<1>3. n <= n + a /\ \A i, j \in 1..(n + a) : i # j => i - n # j - n
  BY <1>2
<1>4. ASSUME NEW i \in 1..(n + a), i \notin 1..n
      PROVE  /\ R[i].code = Blank /\ R[i].taluk # Blank /\ \A j \in 1..n : recs[j].name # R[i].name
             /\ \E p \in places : R[i].name = p.name /\ R[i].at = p.at
  <2>1. PICK x \in 1..a : x = i - n /\ R[i] = A[x]
    BY <1>2, <1>4
  <2> QED
    BY <1>8, <2>1
<1>5. ASSUME NEW i \in 1..(n + a), NEW j \in 1..(n + a), i # j, i \notin 1..n, j \notin 1..n
      PROVE  R[i].name # R[j].name
  <2>1. PICK x \in 1..a : x = i - n /\ R[i] = A[x]
    BY <1>2, <1>5
  <2>2. PICK y \in 1..a : y = j - n /\ R[j] = A[y]
    BY <1>2, <1>5
  <2>3. x # y
    BY <1>3, <1>5, <2>1, <2>2
  <2> QED
    BY <1>8, <2>1, <2>2, <2>3
<1>6. recs = <<>> => R = <<>>
  BY <1>1
<1>7. Joins(R, recs, places)
  <2>1. n = Len(recs) /\ Len(R) = n + a /\ n <= n + a
    BY <1>2, <1>3 DEF n
  <2>2. \A i \in 1..n : R[i] = recs[i]
    BY <1>2
  <2> QED
    BY <1>4, <1>5, <1>6, <2>1, <2>2 DEF Joins
<1> QED
  BY <1>1, <1>7

OneOfEach(places) == \A p, q \in places : p.name = q.name => p = q

LEMMA WithPlacesIs ==
  ASSUME NEW W, NEW recs \in Seq(Records(W)), NEW places, IsFiniteSet(places),
         PlaceValues(places) \subseteq W, OneOfEach(places)
  PROVE  IsTable(WithPlaces(recs, places)) /\ Joins(WithPlaces(recs, places), recs, places)
<1> DEFINE known  == {recs[i].name : i \in 1..Len(recs)}
           blocks == {recs[i].taluk : i \in 1..Len(recs)}
           cs     == Centroids(recs)
           T(p)   == TalukOf(p, cs, blocks)
           added  == IF cs = <<>> THEN {} ELSE {p \in places : p.name \notin known /\ T(p) # Blank}
           q      == SetToSeq(added)
           Rec(p) == [taluk |-> T(p), name |-> p.name, code |-> Blank, at |-> p.at]
           A      == [i \in 1..Len(q) |-> Rec(q[i])]
           V      == W \cup {T(p) : p \in places} \cup {Blank}
<1>1. WithPlaces(recs, places) = recs \o A
  BY DEF WithPlaces, Indices
<1>2. added \subseteq places /\ \A p \in added : p.name \notin known
  OBVIOUS
<1>3. recs = <<>> => added = {}
  BY NoCentroids
<1>4. \A p \in places : Rec(p) \in Records(V)
  BY DEF Records, PlaceValues
<1>5. recs \in Seq(Records(V))
  <2>1. Records(W) \subseteq Records(V)
    BY DEF Records
  <2> HIDE DEF V
  <2> QED
    BY <2>1
<1>6. /\ \A p \in places : Rec(p).code = Blank /\ Rec(p).name = p.name /\ Rec(p).at = p.at
      /\ \A p \in added : Rec(p).taluk # Blank
  OBVIOUS
<1> HIDE DEF added, V, Rec
<1>7. IsFiniteSet(added)
  BY <1>2, FS_Subset
<1>8. q \in Seq(added) /\ \A i, j \in 1..Len(q) : i # j => q[i] # q[j]
  BY <1>7, SetToSeqIs
<1> HIDE DEF q
<1>9. Len(q) \in Nat /\ \A i \in 1..Len(q) : q[i] \in added /\ q[i] \in places
  BY <1>2, <1>8
<1>10. A \in Seq(Records(V)) /\ Len(A) = Len(q) /\ \A i \in 1..Len(q) : A[i] = Rec(q[i])
  BY <1>4, <1>9
<1> HIDE DEF A
<1>11. \A i \in 1..Len(A) : /\ A[i].code = Blank /\ A[i].taluk # Blank
                            /\ \A j \in 1..Len(recs) : recs[j].name # A[i].name
                            /\ \E p \in places : A[i].name = p.name /\ A[i].at = p.at
  <2> SUFFICES ASSUME NEW i \in 1..Len(A)
               PROVE  /\ A[i].code = Blank /\ A[i].taluk # Blank
                      /\ \A j \in 1..Len(recs) : recs[j].name # A[i].name
                      /\ \E p \in places : A[i].name = p.name /\ A[i].at = p.at
    OBVIOUS
  <2>1. PICK p \in added : p \in places /\ A[i] = Rec(p)
    BY <1>9, <1>10
  <2>2. p.name \notin known
    BY <1>2, <2>1
  <2> QED
    BY <1>6, <2>1, <2>2
<1>12. \A i, j \in 1..Len(A) : i # j => A[i].name # A[j].name
  <2> SUFFICES ASSUME NEW i \in 1..Len(A), NEW j \in 1..Len(A), i # j PROVE A[i].name # A[j].name
    OBVIOUS
  <2>1. q[i] # q[j] /\ q[i] \in places /\ q[j] \in places
    BY <1>8, <1>9, <1>10
  <2>2. A[i].name = q[i].name /\ A[j].name = q[j].name
    BY <1>6, <1>10, <2>1
  <2> QED
    BY <2>1, <2>2 DEF OneOfEach
<1>13. recs = <<>> => A = <<>>
  <2> SUFFICES ASSUME recs = <<>> PROVE A = <<>>
    OBVIOUS
  <2>1. added = {}
    BY <1>3
  <2>2. Len(q) = 0
    BY <1>9, <2>1
  <2> QED
    BY <1>10, <2>2
<1>14. recs \o A \in Seq(Records(V)) /\ Joins(recs \o A, recs, places)
  BY <1>5, <1>10, <1>11, <1>12, <1>13, JoinedIs
<1> QED
  BY <1>1, <1>14 DEF IsTable

(* What is merged in a census ingest: the villages of the file, apart, and *)
(* then names that the file does not have.                                 *)
CensusRecs(places) == WithPlaces(Enriched(Parsed, places), places)

AtPlaces(R, places) ==
  \A i \in 1..Len(R) :
    R[i].at = Blank \/ \E p \in places : p.name = R[i].name /\ R[i].at = p.at

FromCensus(R) ==
  \A i \in 1..Len(R) : R[i].code = Blank \/ \E j \in 1..Len(Parsed) : Same(R[i], Parsed[j])

HasCensus(R) ==
  \A j \in 1..Len(Parsed) : \E i \in 1..Len(R) : Same(R[i], Parsed[j])

LEMMA VillagesHaveCodes ==
  /\ Len(Parsed) \in Nat
  /\ \A i \in 1..Len(Parsed) : /\ Parsed[i].code # Blank /\ Parsed[i].taluk # Blank
                               /\ Parsed[i].at = Blank
                               /\ \E j \in 1..Len(CensusRows) : Parsed[i] = Village(CensusRows[j])
  /\ \A i, j \in 1..Len(Parsed) :
       i # j => Parsed[i].taluk # Parsed[j].taluk \/ Parsed[i].code # Parsed[j].code
<1>1. Len(Parsed) \in Nat
  BY ParsedIs
<1>2. ASSUME NEW i \in 1..Len(Parsed)
      PROVE  /\ Parsed[i].code # Blank /\ Parsed[i].taluk # Blank
             /\ Parsed[i].at = Blank
             /\ \E j \in 1..Len(CensusRows) : Parsed[i] = Village(CensusRows[j])
  <2>1. PICK j \in 1..Len(CensusRows) : Parsed[i] = Village(CensusRows[j])
    BY ParsedIs DEF IsReading
  <2>2. CensusRows[j] \in CensusRecords
    BY CensusRowsAre
  <2>3. CensusRows[j].code # Blank /\ CensusRows[j].taluk # Blank
    BY <2>2, CensusAssumption DEF CensusRecords
  <2> QED
    BY <2>1, <2>3 DEF Village
<1> QED
  BY <1>1, <1>2, ParsedIs DEF IsReading

LEMMA CensusRecsAre ==
  ASSUME NEW places \in SUBSET Places, OneOfEach(places)
  PROVE  LET R == CensusRecs(places) IN
         /\ IsTable(R) /\ Apart(R) /\ Keyed(R)
         /\ AtPlaces(R, places) /\ FromCensus(R) /\ HasCensus(R)
         /\ \A i \in 1..Len(R) : R[i].taluk # Blank
         /\ CensusRows = <<>> => R = <<>>
<1> DEFINE W == CensusValues \cup PlaceValues(places)
           n == Len(Parsed)
<1>1. Parsed \in Seq(Records(W)) /\ PlaceValues(places) \subseteq W
  <2>1. Records(CensusValues) \subseteq Records(W)
    BY DEF Records
  <2> HIDE DEF W
  <2>2. Parsed \in Seq(Records(W))
    BY <2>1, ParsedIs
  <2> QED
    BY <2>2 DEF W
<1> HIDE DEF W
<1>2. PICK E \in Seq(Records(W)) :
        /\ E = Enriched(Parsed, places) /\ Len(E) = n
        /\ \A i \in 1..n : /\ Same(E[i], Parsed[i])
                           /\ \/ E[i].at = Parsed[i].at
                              \/ \E p \in places : p.name = Parsed[i].name /\ E[i].at = p.at
  BY <1>1, EnrichedIs
<1>3. IsFiniteSet(places)
  BY CensusAssumption, FS_Subset
<1>4. PICK R : R = CensusRecs(places) /\ IsTable(R) /\ Joins(R, E, places)
  BY <1>1, <1>2, <1>3, WithPlacesIs DEF CensusRecs
<1>5. /\ n \in Nat /\ Len(R) \in Nat /\ n <= Len(R)
      /\ \A i \in 1..n : i \in 1..Len(R) /\ R[i] = E[i]
      /\ \A i \in 1..Len(R) : i \notin 1..n =>
           /\ R[i].code = Blank /\ R[i].taluk # Blank /\ \A j \in 1..n : E[j].name # R[i].name
           /\ \E p \in places : R[i].name = p.name /\ R[i].at = p.at
      /\ \A i, j \in 1..Len(R) : i # j /\ i \notin 1..n /\ j \notin 1..n => R[i].name # R[j].name
  <2>1. n \in Nat
    BY VillagesHaveCodes
  <2>2. Len(R) \in Nat /\ n <= Len(R)
    BY <1>2, <1>4 DEF IsTable, Joins
  <2>3. \A i \in 1..n : i \in 1..Len(R)
    BY <2>1, <2>2
  <2> QED
    BY <1>2, <1>4, <2>1, <2>2, <2>3 DEF Joins
<1>6. \A i \in 1..n : /\ Same(R[i], Parsed[i]) /\ R[i].code # Blank /\ R[i].taluk # Blank
                      /\ R[i].at = Blank \/ \E p \in places : p.name = R[i].name /\ R[i].at = p.at
  BY <1>2, <1>5, VillagesHaveCodes, SMTT(30) DEF Same
<1>7. \A i, j \in 1..n : i # j => R[i].taluk # R[j].taluk \/ R[i].code # R[j].code
  BY <1>6, VillagesHaveCodes DEF Same
<1>8. \A i \in 1..Len(R) : i \notin 1..n => \A j \in 1..n : R[j].name # R[i].name
  BY <1>5
<1> HIDE DEF n
<1>9. Apart(R)
  <2> SUFFICES ASSUME NEW i \in 1..Len(R), NEW j \in 1..Len(R), i # j PROVE ~Known(R[i], R[j])
    BY DEF Apart
  <2>1. CASE i \in 1..n /\ j \in 1..n
    BY <1>7, <2>1 DEF Known
  <2>2. CASE i \in 1..n /\ j \notin 1..n
    BY <1>5, <1>6, <2>2 DEF Known
  <2>3. CASE i \notin 1..n /\ j \in 1..n
    BY <1>5, <1>6, <2>3 DEF Known
  <2>4. CASE i \notin 1..n /\ j \notin 1..n
    BY <1>5, <2>4 DEF Known
  <2> QED
    BY <2>1, <2>2, <2>3, <2>4
<1>10. Keyed(R)
  <2> SUFFICES ASSUME NEW i \in 1..Len(R), NEW j \in 1..Len(R), i # j,
                      R[i].taluk = R[j].taluk, R[i].name = R[j].name
               PROVE  Differ(R[i], R[j])
    BY DEF Keyed
  <2>1. CASE i \in 1..n /\ j \in 1..n
    BY <1>6, <1>7, <2>1 DEF Differ
  <2>2. CASE i \in 1..n /\ j \notin 1..n
    BY <1>8, <2>2
  <2>3. CASE i \notin 1..n /\ j \in 1..n
    BY <1>8, <2>3
  <2>4. CASE i \notin 1..n /\ j \notin 1..n
    BY <1>5, <2>4
  <2> QED
    BY <2>1, <2>2, <2>3, <2>4
<1>11. AtPlaces(R, places)
  <2> SUFFICES ASSUME NEW i \in 1..Len(R)
               PROVE  R[i].at = Blank \/ \E p \in places : p.name = R[i].name /\ R[i].at = p.at
    BY DEF AtPlaces
  <2>1. CASE i \in 1..n
    BY <1>6, <2>1
  <2>2. CASE i \notin 1..n
    BY <1>5, <2>2
  <2> QED
    BY <2>1, <2>2
<1>12. FromCensus(R) /\ HasCensus(R)
  BY <1>5, <1>6 DEF FromCensus, HasCensus, n
<1>13. CensusRows = <<>> => R = <<>>
  <2> SUFFICES ASSUME CensusRows = <<>> PROVE R = <<>>
    OBVIOUS
  <2>1. \A i \in 1..n : FALSE
    BY VillagesHaveCodes DEF n
  <2>2. n = 0
    BY <1>5, <2>1
  <2>3. E = <<>>
    BY <1>2, <2>2 DEF n
  <2> QED
    BY <1>4, <2>3 DEF Joins
<1>14. \A i \in 1..Len(R) : R[i].taluk # Blank
  BY <1>5, <1>6
<1> QED
  BY <1>4, <1>9, <1>10, <1>11, <1>12, <1>13, <1>14

LEMMA TablesAre ==
  ASSUME NEW s, IsTable(s)
  PROVE  Len(s) \in Nat /\ (Len(s) = 0 => s = <<>>) /\ (s = <<>> => Len(s) = 0)
<1>1. PICK W : s \in Seq(Records(W))
  BY DEF IsTable
<1> QED
  BY <1>1

(* What a table of villages is: rows apart, villages of the census or      *)
(* towns, and coordinates of a place of their name.                        *)
Published(s, places) == IsTable(s) /\ Apart(s) /\ FromCensus(s) /\ AtPlaces(s, places)

LEMMA ShuffleKeeps ==
  ASSUME NEW M, NEW R, NEW places, IsTable(M), Published(R, places), Shuffles(M, R)
  PROVE  /\ Published(M, places)
         /\ HasCensus(R) => HasCensus(M)
         /\ R = <<>> => M = <<>>
<1>1. /\ \A e \in 1..Len(M) : \E i \in 1..Len(R) : M[e] = R[i]
      /\ \A i \in 1..Len(R) : \E e \in 1..Len(M) : M[e] = R[i]
  BY DEF Shuffles
<1>2. Apart(M)
  <2> SUFFICES ASSUME NEW e \in 1..Len(M), NEW f \in 1..Len(M), e # f PROVE ~Known(M[e], M[f])
    BY DEF Apart
  <2>1. PICK i \in 1..Len(R) : M[e] = R[i]
    BY <1>1
  <2>2. PICK j \in 1..Len(R) : M[f] = R[j]
    BY <1>1
  <2>3. i # j
    BY <2>1, <2>2 DEF Shuffles
  <2> QED
    BY <2>1, <2>2, <2>3 DEF Apart, Published
<1>3. FromCensus(M) /\ AtPlaces(M, places)
  <2>1. \A i \in 1..Len(R) :
          /\ R[i].code = Blank \/ \E j \in 1..Len(Parsed) : Same(R[i], Parsed[j])
          /\ R[i].at = Blank \/ \E p \in places : p.name = R[i].name /\ R[i].at = p.at
    BY DEF Published, FromCensus, AtPlaces
  <2>2. ASSUME NEW e \in 1..Len(M)
        PROVE  /\ M[e].code = Blank \/ \E j \in 1..Len(Parsed) : Same(M[e], Parsed[j])
               /\ M[e].at = Blank \/ \E p \in places : p.name = M[e].name /\ M[e].at = p.at
    <3>1. PICK i \in 1..Len(R) : M[e] = R[i]
      BY <1>1
    <3> QED
      BY <2>1, <3>1
  <2> QED
    BY <2>2 DEF FromCensus, AtPlaces
<1>4. HasCensus(R) => HasCensus(M)
  BY <1>1 DEF HasCensus
<1>5. R = <<>> => M = <<>>
  <2> SUFFICES ASSUME R = <<>> PROVE M = <<>>
    OBVIOUS
  <2>1. Len(R) = 0 /\ Len(M) \in Nat /\ (Len(M) = 0 => M = <<>>)
    BY TablesAre DEF Published
  <2>2. \A e \in 1..Len(M) : FALSE
    BY <1>1, <2>1
  <2> QED
    BY <2>1, <2>2
<1> QED
  BY <1>2, <1>3, <1>4, <1>5 DEF Published

-----------------------------------------------------------------------------
(* What an upsert of such records makes of such a table.                   *)
LEMMA VillagesByCode ==
  ASSUME NEW r, NEW s, NEW a \in 1..Len(Parsed), NEW b \in 1..Len(Parsed),
         Same(r, Parsed[a]), Same(s, Parsed[b]), r.taluk = s.taluk, r.code = s.code
  PROVE  a = b /\ Same(r, s)
<1>1. Parsed[a].taluk = Parsed[b].taluk /\ Parsed[a].code = Parsed[b].code
  BY DEF Same
<1>2. a = b
  BY <1>1, VillagesHaveCodes
<1> QED
  BY <1>2 DEF Same

LEMMA UpsertKeeps ==
  ASSUME NEW rows, NEW M, Published(rows, Places), Published(M, Places)
  PROVE  LET u == FoldLeft(UpsertOne, rows, M) IN
         /\ Published(u, Places) /\ Extends(u, rows, M)
         /\ HasCensus(rows) \/ HasCensus(M) => HasCensus(u)
         /\ \A i \in 1..Len(M) : Holds(u, M[i])
<1>1. PICK W : rows \in Seq(Records(W)) /\ M \in Seq(Records(W))
  BY TablesShareValues DEF Published
<1>2. PICK u : /\ u = FoldLeft(UpsertOne, rows, M)
               /\ u \in Seq(Records(W)) /\ Apart(u) /\ Extends(u, rows, M)
               /\ \A i \in 1..Len(M) : Holds(u, M[i])
  BY <1>1, UpsertAll DEF Published
<1>3. FromCensus(u)
  <2> SUFFICES ASSUME NEW j \in 1..Len(u)
               PROVE  u[j].code = Blank \/ \E k \in 1..Len(Parsed) : Same(u[j], Parsed[k])
    BY DEF FromCensus
  <2>1. CASE j \in 1..Len(rows)
    <3>1. Same(u[j], rows[j])
      BY <1>2, <2>1 DEF Extends
    <3>2. rows[j].code = Blank \/ \E k \in 1..Len(Parsed) : Same(rows[j], Parsed[k])
      BY <2>1 DEF Published, FromCensus
    <3> QED
      BY <3>1, <3>2 DEF Same
  <2>2. CASE j \notin 1..Len(rows)
    <3>1. PICK i \in 1..Len(M) : Same(u[j], M[i])
      BY <1>2, <2>2 DEF Extends
    <3>2. M[i].code = Blank \/ \E k \in 1..Len(Parsed) : Same(M[i], Parsed[k])
      BY DEF Published, FromCensus
    <3> QED
      BY <3>1, <3>2 DEF Same
  <2> QED
    BY <2>1, <2>2
<1>4. AtPlaces(u, Places)
  <2> SUFFICES ASSUME NEW j \in 1..Len(u)
               PROVE  u[j].at = Blank \/ \E p \in Places : p.name = u[j].name /\ u[j].at = p.at
    BY DEF AtPlaces
  <2>1. CASE j \in 1..Len(rows) /\ u[j].at = rows[j].at
    <3>1. u[j].name = rows[j].name
      BY <1>2, <2>1 DEF Extends, Same
    <3>2. rows[j].at = Blank \/ \E p \in Places : p.name = rows[j].name /\ rows[j].at = p.at
      BY <2>1 DEF Published, AtPlaces
    <3> QED
      BY <2>1, <3>1, <3>2
  <2>2. CASE \E i \in 1..Len(M) : Known(u[j], M[i]) /\ u[j].at = M[i].at
    <3>1. PICK i \in 1..Len(M) : Known(u[j], M[i]) /\ u[j].at = M[i].at
      BY <2>2
    <3>2. u[j].name = M[i].name
      <4>1. CASE M[i].code = Blank
        BY <3>1, <4>1 DEF Known
      <4>2. CASE M[i].code # Blank
        <5>1. PICK b \in 1..Len(Parsed) : Same(M[i], Parsed[b])
          BY <4>2 DEF Published, FromCensus
        <5>2. PICK a \in 1..Len(Parsed) : Same(u[j], Parsed[a])
          BY <1>3, <3>1, <4>2 DEF FromCensus, Known
        <5> QED
          BY <3>1, <5>1, <5>2, VillagesByCode DEF Same, Known
      <4> QED
        BY <4>1, <4>2
    <3>3. M[i].at = Blank \/ \E p \in Places : p.name = M[i].name /\ M[i].at = p.at
      BY DEF Published, AtPlaces
    <3> QED
      BY <3>1, <3>2, <3>3
  <2> QED
    BY <1>2, <2>1, <2>2 DEF Extends
<1>5. ASSUME HasCensus(M) PROVE HasCensus(u)
  <2> SUFFICES ASSUME NEW k \in 1..Len(Parsed) PROVE \E j \in 1..Len(u) : Same(u[j], Parsed[k])
    BY DEF HasCensus
  <2>1. PICK i \in 1..Len(M) : Same(M[i], Parsed[k])
    BY <1>5 DEF HasCensus
  <2>2. PICK j \in 1..Len(u) : Known(u[j], M[i])
    BY <1>2 DEF Holds
  <2>3. u[j].code # Blank
    BY <2>1, <2>2, VillagesHaveCodes DEF Same, Known
  <2>4. PICK a \in 1..Len(Parsed) : Same(u[j], Parsed[a])
    BY <1>3, <2>3 DEF FromCensus
  <2>5. a = k
    BY <2>1, <2>2, <2>4, VillagesByCode DEF Known
  <2> QED
    BY <2>4, <2>5
<1>6. IsTable(u)
  BY <1>2 DEF IsTable
<1>7. ASSUME HasCensus(rows) PROVE HasCensus(u)
  <2> SUFFICES ASSUME NEW k \in 1..Len(Parsed) PROVE \E j \in 1..Len(u) : Same(u[j], Parsed[k])
    BY DEF HasCensus
  <2>1. PICK i \in 1..Len(rows) : Same(rows[i], Parsed[k])
    BY <1>7 DEF HasCensus
  <2>2. i \in 1..Len(u) /\ Same(u[i], rows[i])
    BY <1>1, <1>2 DEF Extends
  <2> QED
    BY <2>1, <2>2 DEF Same
<1> QED
  BY <1>2, <1>3, <1>4, <1>5, <1>6, <1>7 DEF Published

(* A record that the table holds changes nothing.                          *)
LEMMA UpsertOneIdles ==
  ASSUME NEW W, NEW rows \in Seq(Records(W)), NEW rec \in Records(W), Apart(rows), Holds(rows, rec)
  PROVE  UpsertOne(rows, rec) = rows
<1>1. PICK j \in 1..Len(rows) : Known(rows[j], rec) /\ (rec.at # Blank => rows[j].at = rec.at)
  BY DEF Holds
<1>2. j \in Matches(rows, rec)
  BY <1>1 DEF Matches, Known, Indices
<1>3. \A m \in Matches(rows, rec) : m = j
  <2> SUFFICES ASSUME NEW m \in Matches(rows, rec), m # j PROVE FALSE
    OBVIOUS
  <2>1. m \in 1..Len(rows) /\ Known(rows[m], rec)
    BY DEF Matches, Known, Indices
  <2>2. Known(rows[m], rows[j])
    BY <1>1, <2>1 DEF Known
  <2> QED
    BY <2>1, <2>2 DEF Apart
<1>4. PICK u \in Seq(Records(W)) :
        /\ u = UpsertOne(rows, rec)
        /\ \/ Matches(rows, rec) = {} /\ u = Append(rows, rec)
           \/ \E m \in Matches(rows, rec) :
                /\ m \in 1..Len(rows) /\ Len(u) = Len(rows)
                /\ u[m] = Updated(rows[m], rec)
                /\ \A i \in 1..Len(rows) : i # m => u[i] = rows[i]
  BY UpsertOneIs
<1>5. /\ Len(u) = Len(rows) /\ u[j] = Updated(rows[j], rec)
      /\ \A i \in 1..Len(rows) : i # j => u[i] = rows[i]
  BY <1>2, <1>3, <1>4
<1>6. rows[j] \in Records(W)
  OBVIOUS
<1>7. Updated(rows[j], rec) = rows[j]
  BY <1>1, <1>6 DEF Updated, Records
<1>8. \A i \in 1..Len(rows) : u[i] = rows[i]
  BY <1>5, <1>7
<1>9. u = rows
  BY <1>5, <1>8
<1> QED
  BY <1>4, <1>9

LEMMA UpsertIdles ==
  ASSUME NEW W, NEW rows \in Seq(Records(W)), NEW recs \in Seq(Records(W)), Apart(rows),
         \A i \in 1..Len(recs) : Holds(rows, recs[i])
  PROVE  FoldLeft(UpsertOne, rows, recs) = rows
<1>1. PICK t : Tables(t, W, rows, recs)
  BY UpsertWalk
<1>2. /\ t[0] = rows /\ t[Len(recs)] = FoldLeft(UpsertOne, rows, recs)
      /\ \A k \in 1..Len(recs) : t[k] = UpsertOne(t[k - 1], recs[k])
  BY <1>1 DEF Tables
<1>3. Len(recs) \in Nat /\ \A i \in 1..Len(recs) : recs[i] \in Records(W)
  OBVIOUS
<1> DEFINE G == {k \in 0..Len(recs) : t[k] = rows}
<1>4. 0 \in G
  BY <1>2, <1>3
<1>5. \A k \in 1..Len(recs) : k - 1 \in G => k \in G
  <2> SUFFICES ASSUME NEW k \in 1..Len(recs), k - 1 \in G PROVE k \in G
    OBVIOUS
  <2>1. t[k - 1] = rows /\ k \in 0..Len(recs)
    BY <1>3
  <2>2. t[k] = UpsertOne(rows, recs[k])
    BY <1>2, <2>1
  <2>3. UpsertOne(rows, recs[k]) = rows
    BY <1>3, UpsertOneIdles
  <2> QED
    BY <2>1, <2>2, <2>3
<1>6. \A k \in 0..Len(recs) : k \in G
  <2> HIDE DEF G
  <2> QED
    BY <1>3, <1>4, <1>5, StepByStep
<1>7. t[Len(recs)] = rows
  BY <1>3, <1>6
<1> QED
  BY <1>2, <1>7

LEMMA NoRowsNoVillages == CensusRows = <<>> => \A R : HasCensus(R)
<1>1. ASSUME CensusRows = <<>>, NEW R PROVE HasCensus(R)
  <2>1. \A i \in 1..Len(Parsed) : FALSE
    BY <1>1, VillagesHaveCodes
  <2> QED
    BY <2>1 DEF HasCensus
<1> QED
  BY <1>1

-----------------------------------------------------------------------------
(* The gate.  A merge that keeps every village has as many in each block   *)
(* as the census has; one whose records are in no block has too few.       *)
LEMMA CountsAre ==
  ASSUME NEW s, IsTable(s), NEW t
  PROVE  /\ IsFiniteSet({i \in 1..Len(s) : s[i].taluk = t})
         /\ CountIn(s, t) = Cardinality({i \in 1..Len(s) : s[i].taluk = t})
         /\ CountIn(s, t) \in Nat
<1>1. IsFiniteSet(1..Len(s))
  BY TablesAre, FS_Interval
<1>2. IsFiniteSet({i \in 1..Len(s) : s[i].taluk = t})
  BY <1>1, FS_Subset
<1>3. CountIn(s, t) = Cardinality({i \in 1..Len(s) : s[i].taluk = t})
  BY DEF CountIn, Indices
<1> QED
  BY <1>2, <1>3, FS_CardinalityType

LEMMA ParsedIsTable == IsTable(Parsed)
  BY ParsedIs DEF IsTable

LEMMA CensusClearsTheGate ==
  ASSUME NEW M, IsTable(M), HasCensus(M)
  PROVE  ~Blocks(M)
<1> SUFFICES ASSUME NEW t, t \in {Parsed[i].taluk : i \in 1..Len(Parsed)}
             PROVE  ~(CountIn(M, t) < Expected[t])
  BY DEF Blocks, Expected, Indices
<1> DEFINE S == {i \in 1..Len(Parsed) : Parsed[i].taluk = t}
           T == {e \in 1..Len(M) : M[e].taluk = t}
           f == [i \in S |-> CHOOSE e \in 1..Len(M) : Same(M[e], Parsed[i])]
<1>1. \A i \in S : f[i] \in 1..Len(M) /\ Same(M[f[i]], Parsed[i])
  BY DEF HasCensus
<1>2. f \in [S -> T]
  BY <1>1 DEF Same
<1>3. \A i, j \in S : f[i] = f[j] => i = j
  <2> SUFFICES ASSUME NEW i \in S, NEW j \in S, f[i] = f[j] PROVE i = j
    OBVIOUS
  <2> HIDE DEF f
  <2>1. /\ Same(M[f[i]], Parsed[i]) /\ Same(M[f[i]], Parsed[j])
        /\ i \in 1..Len(Parsed) /\ j \in 1..Len(Parsed)
    BY <1>1
  <2> HIDE DEF S
  <2> QED
    BY <2>1, VillagesByCode
<1>4. f \in Injection(S, T)
  <2> HIDE DEF f, S, T
  <2> QED
    BY <1>2, <1>3 DEF Injection, IsInjective
<1>5. /\ IsFiniteSet(S) /\ CountIn(Parsed, t) = Cardinality(S) /\ Cardinality(S) \in Nat
      /\ IsFiniteSet(T) /\ CountIn(M, t) = Cardinality(T) /\ Cardinality(T) \in Nat
  <2>1. IsFiniteSet(S) /\ CountIn(Parsed, t) = Cardinality(S)
    BY ParsedIsTable, CountsAre
  <2>2. IsFiniteSet(T) /\ CountIn(M, t) = Cardinality(T)
    BY CountsAre
  <2> HIDE DEF S, T
  <2> QED
    BY <2>1, <2>2, FS_CardinalityType
<1>6. Cardinality(S) <= Cardinality(T)
  <2> HIDE DEF f, S, T
  <2> QED
    BY <1>4, <1>5, FS_Injection
<1>7. Expected[t] = CountIn(Parsed, t)
  BY DEF Expected, Indices
<1> HIDE DEF S, T
<1> QED
  BY <1>5, <1>6, <1>7

LEMMA TownsAloneDoNot ==
  ASSUME NEW M, IsTable(M), \A e \in 1..Len(M) : M[e].taluk = Blank, CensusRows # <<>>
  PROVE  Blocks(M)
<1>1. PICK j \in 1..Len(Parsed) : TRUE
  <2>1. 1 \in 1..Len(CensusRows)
    BY CensusRowsAre
  <2> QED
    BY <2>1, CensusRowsAre, ParsedIs DEF IsReading
<1> DEFINE t == Parsed[j].taluk
           S == {i \in 1..Len(Parsed) : Parsed[i].taluk = t}
           T == {e \in 1..Len(M) : M[e].taluk = t}
<1>2. /\ IsFiniteSet(S) /\ CountIn(Parsed, t) = Cardinality(S) /\ Cardinality(S) \in Nat
      /\ CountIn(M, t) = Cardinality(T)
  <2>1. IsFiniteSet(S) /\ CountIn(Parsed, t) = Cardinality(S)
    BY ParsedIsTable, CountsAre
  <2>2. CountIn(M, t) = Cardinality(T)
    BY CountsAre
  <2> HIDE DEF S, T
  <2> QED
    BY <2>1, <2>2, FS_CardinalityType
<1>3. T = {}
  BY VillagesHaveCodes
<1>4. j \in S
  OBVIOUS
<1>5. Expected[t] = CountIn(Parsed, t) /\ t \in DOMAIN Expected
  BY DEF Expected, Indices
<1> HIDE DEF t, S, T
<1>6. Cardinality(S) # 0
  BY <1>2, <1>4, FS_EmptySet
<1>7. CountIn(M, t) = 0
  BY <1>2, <1>3, FS_EmptySet
<1>8. CountIn(M, t) < Expected[t]
  BY <1>2, <1>5, <1>6, <1>7
<1> QED
  BY <1>5, <1>8 DEF Blocks

-----------------------------------------------------------------------------
(* The two ingests.                                                        *)
LEMMA CensusMerges ==
  ASSUME NEW places \in FirstOfEach
  PROVE  LET M == Merged(CensusRecs(places)) IN
         /\ Published(M, places) /\ HasCensus(M) /\ ~Blocks(M)
         /\ \A e \in 1..Len(M) : M[e].taluk # Blank
<1>1. places \in SUBSET Places /\ OneOfEach(places)
  BY DEF FirstOfEach, OneOfEach
<1>2. PICK R : /\ R = CensusRecs(places) /\ Published(R, places) /\ Keyed(R) /\ HasCensus(R)
               /\ \A i \in 1..Len(R) : R[i].taluk # Blank
  BY <1>1, CensusRecsAre DEF Published
<1>3. PICK W : R \in Seq(Records(W))
  BY <1>2 DEF Published, IsTable
<1>4. IsTable(Merged(R)) /\ Shuffles(Merged(R), R)
  BY <1>2, <1>3, MergedIs DEF IsTable
<1>5. /\ Published(Merged(R), places) /\ HasCensus(Merged(R))
  BY <1>2, <1>4, ShuffleKeeps
<1>7. \A e \in 1..Len(Merged(R)) : Merged(R)[e].taluk # Blank
  BY <1>2, <1>4 DEF Shuffles
<1>6. ~Blocks(Merged(R))
  BY <1>4, <1>5, CensusClearsTheGate
<1> QED
  BY <1>2, <1>5, <1>6, <1>7

OsmRecs(places) ==
  [i \in Indices(SetToSeq(places)) |->
     [taluk |-> Blank, name |-> SetToSeq(places)[i].name, code |-> Blank, at |-> SetToSeq(places)[i].at]]

LEMMA OsmRecsAre ==
  ASSUME NEW places \in SUBSET Places, OneOfEach(places)
  PROVE  LET R == OsmRecs(places) IN
         /\ Published(R, places) /\ Keyed(R)
         /\ \A i \in 1..Len(R) : R[i].taluk = Blank
<1> DEFINE q == SetToSeq(places)
           Rec(p) == [taluk |-> Blank, name |-> p.name, code |-> Blank, at |-> p.at]
           V == PlaceValues(places) \cup {Blank}
<1>1. IsFiniteSet(places)
  BY CensusAssumption, FS_Subset
<1>2. OsmRecs(places) = [i \in 1..Len(q) |-> Rec(q[i])]
  BY DEF OsmRecs, Indices
<1>3. \A p \in places : Rec(p) \in Records(V)
  BY DEF PlaceValues, Records
<1>4. /\ q \in Seq(places)
      /\ \A i, j \in 1..Len(q) : i # j => q[i] # q[j]
  BY <1>1, SetToSeqIs
<1> HIDE DEF q, V
<1>5. /\ Len(q) \in Nat
      /\ \A i \in 1..Len(q) : q[i] \in places
  BY <1>4
<1>6. PICK R \in Seq(Records(V)) :
        R = OsmRecs(places) /\ Len(R) = Len(q) /\ \A i \in 1..Len(q) : R[i] = Rec(q[i])
  <2> HIDE DEF Rec
  <2>1. OsmRecs(places) \in Seq(Records(V))
    BY <1>2, <1>3, <1>5
  <2> QED
    BY <1>2, <1>5, <2>1
<1>7. \A i \in 1..Len(R) : /\ R[i].taluk = Blank /\ R[i].code = Blank
                           /\ R[i].name = q[i].name /\ R[i].at = q[i].at /\ q[i] \in places
  <2> SUFFICES ASSUME NEW i \in 1..Len(R)
               PROVE  /\ R[i].taluk = Blank /\ R[i].code = Blank
                      /\ R[i].name = q[i].name /\ R[i].at = q[i].at /\ q[i] \in places
    OBVIOUS
  <2>1. R[i] = Rec(q[i]) /\ q[i] \in places
    BY <1>5, <1>6
  <2> QED
    BY <2>1
<1>8. \A i, j \in 1..Len(R) : i # j => R[i].name # R[j].name
  BY <1>4, <1>6, <1>7 DEF OneOfEach
<1>9. Apart(R) /\ Keyed(R)
  BY <1>7, <1>8 DEF Apart, Known, Keyed
<1>10. FromCensus(R) /\ AtPlaces(R, places)
  BY <1>7 DEF FromCensus, AtPlaces
<1>11. IsTable(R)
  BY DEF IsTable
<1> QED
  BY <1>6, <1>7, <1>9, <1>10, <1>11 DEF Published

LEMMA OsmMerges ==
  ASSUME NEW places \in FirstOfEach
  PROVE  LET M == Merged(OsmRecs(places)) IN
         /\ Published(M, places) /\ (CensusRows # <<>> => Blocks(M))
         /\ \A e \in 1..Len(M) : M[e].taluk = Blank
<1>1. places \in SUBSET Places /\ OneOfEach(places)
  BY DEF FirstOfEach, OneOfEach
<1>2. PICK R : /\ R = OsmRecs(places) /\ Published(R, places) /\ Keyed(R)
               /\ \A i \in 1..Len(R) : R[i].taluk = Blank
  BY <1>1, OsmRecsAre
<1>3. PICK W : R \in Seq(Records(W))
  BY <1>2 DEF Published, IsTable
<1>4. IsTable(Merged(R)) /\ Shuffles(Merged(R), R)
  BY <1>2, <1>3, MergedIs DEF IsTable
<1>5. Published(Merged(R), places)
  BY <1>2, <1>4, ShuffleKeeps
<1>6. \A e \in 1..Len(Merged(R)) : Merged(R)[e].taluk = Blank
  BY <1>2, <1>4 DEF Shuffles
<1>7. CensusRows # <<>> => Blocks(Merged(R))
  BY <1>4, <1>6, TownsAloneDoNot
<1> QED
  BY <1>2, <1>5, <1>6, <1>7

-----------------------------------------------------------------------------
(* The inductive invariant of the pipeline: the table is one of villages   *)
(* of the census and towns, apart; once it has a row in a taluk of the     *)
(* census, or an ingest that was given counts has loaded, it has every     *)
(* village; and after an ingest of the census it holds what the next one   *)
(* would merge.                                                            *)
Complete == {<<"census", TRUE, TRUE>>, <<"osm", TRUE, TRUE>>}

InTaluks(s) == \E j \in 1..Len(s) : s[j].taluk # Blank

VillageInv ==
  /\ extract = Blank \/ extract \in FirstOfEach
  /\ ingested \in BOOLEAN
  /\ Published(villageTable, Places)
  /\ InTaluks(villageTable) \/ result \in Complete => HasCensus(villageTable)
  /\ result # <<"census", TRUE, FALSE>>
  /\ ingested => /\ extract # Blank
                 /\ \A i \in 1..Len(Merged(CensusRecs(extract))) :
                      Holds(villageTable, Merged(CensusRecs(extract))[i])

LEMMA VillageInvInit == VillageInit => VillageInv
<1> SUFFICES ASSUME VillageInit PROVE VillageInv
  OBVIOUS
<1>1. IsTable(<<>>)
  BY DEF IsTable
<1>2. Published(<<>>, Places) /\ ~InTaluks(<<>>)
  BY <1>1 DEF Published, Apart, FromCensus, AtPlaces, InTaluks
<1>3. <<>> \notin Complete /\ <<>> # <<"census", TRUE, FALSE>>
  BY DEF Complete
<1> QED
  BY <1>2, <1>3 DEF VillageInit, VillageInv

(* An ingest that the gate stops, and one that it lets through.            *)
LEMMA PublishedWidens ==
  ASSUME NEW M, NEW places \in FirstOfEach, Published(M, places)
  PROVE  Published(M, Places)
<1>1. places \subseteq Places
  BY DEF FirstOfEach
<1> QED
  BY <1>1 DEF Published, AtPlaces

LEMMA CensusIngestKeeps ==
  ASSUME VillageInv, IngestCensus
  PROVE  /\ VillageInv'
         /\ Extends(villageTable', villageTable, Merged(CensusRecs(extract)))
         /\ ingested => villageTable' = villageTable
<1> DEFINE M == Merged(CensusRecs(extract))
<1>1. extract \in FirstOfEach /\ extract # Blank
  BY DEF VillageInv, IngestCensus
<1>2. Published(M, Places) /\ HasCensus(M) /\ ~Blocks(M)
  BY <1>1, CensusMerges, PublishedWidens
<1>3. /\ villageTable' = FoldLeft(UpsertOne, villageTable, M)
      /\ result' = <<"census", TRUE, TRUE>> /\ ingested' = TRUE /\ extract' = extract
  <2>1. Upsert("census", TRUE, CensusRecs(extract)) /\ ingested' = TRUE /\ extract' = extract
    BY DEF IngestCensus, CensusRecs
  <2> QED
    BY <1>2, <2>1 DEF Upsert
<1> HIDE DEF M
<1>4. /\ Published(villageTable', Places) /\ HasCensus(villageTable')
      /\ Extends(villageTable', villageTable, M)
      /\ \A i \in 1..Len(M) : Holds(villageTable', M[i])
  BY <1>2, <1>3, UpsertKeeps DEF VillageInv
<1>5. ASSUME ingested PROVE villageTable' = villageTable
  <2>1. PICK W : villageTable \in Seq(Records(W)) /\ M \in Seq(Records(W))
    BY <1>2, TablesShareValues DEF Published, VillageInv
  <2>2. Apart(villageTable) /\ \A i \in 1..Len(M) : Holds(villageTable, M[i])
    BY <1>5 DEF VillageInv, Published, M
  <2> QED
    BY <1>3, <2>1, <2>2, UpsertIdles
<1>6. <<"census", TRUE, TRUE>> # <<"census", TRUE, FALSE>>
  OBVIOUS
<1>7. VillageInv'
  <2>1. M = Merged(CensusRecs(extract'))
    BY <1>3 DEF M
  <2>2. result' # <<"census", TRUE, FALSE>> /\ ingested' \in BOOLEAN
        /\ extract' \in FirstOfEach /\ extract' # Blank
    BY <1>1, <1>3, <1>6
  <2> QED
    BY <1>4, <2>1, <2>2 DEF VillageInv
<1> QED
  BY <1>4, <1>5, <1>7 DEF M

LEMMA OsmIngestKeeps ==
  ASSUME VillageInv, NEW checked \in BOOLEAN, IngestOsmOnly(checked)
  PROVE  /\ VillageInv'
         /\ \/ villageTable' = villageTable
            \/ Extends(villageTable', villageTable, Merged(OsmRecs(extract)))
<1> DEFINE M == Merged(OsmRecs(extract))
           loads == checked => ~Blocks(M)
<1>1. extract \in FirstOfEach /\ extract # Blank
  BY DEF VillageInv, IngestOsmOnly
<1>2. /\ Published(M, Places) /\ (CensusRows # <<>> => Blocks(M))
      /\ \A e \in 1..Len(M) : M[e].taluk = Blank
  BY <1>1, OsmMerges, PublishedWidens
<1>3. /\ villageTable' = IF loads THEN FoldLeft(UpsertOne, villageTable, M) ELSE villageTable
      /\ result' = <<"osm", checked, loads>> /\ ingested' = ingested /\ extract' = extract
  <2>1. Upsert("osm", checked, OsmRecs(extract)) /\ ingested' = ingested /\ extract' = extract
    BY DEF IngestOsmOnly, OsmRecs
  <2> QED
    BY <2>1 DEF Upsert
<1> HIDE DEF M
<1>4. /\ result' # <<"census", TRUE, FALSE>>
      /\ ingested' \in BOOLEAN /\ extract' \in FirstOfEach /\ (ingested' => extract' # Blank)
  <2>1. <<"osm", checked, loads>> # <<"census", TRUE, FALSE>>
    OBVIOUS
  <2> QED
    BY <1>1, <1>3, <2>1 DEF VillageInv
<1>5. ASSUME result' \in Complete PROVE \A R : HasCensus(R)
  <2>1. checked /\ loads
    BY <1>3, <1>5 DEF Complete
  <2> QED
    BY <1>2, <2>1, NoRowsNoVillages
<1>6. CASE villageTable' = villageTable
  BY <1>3, <1>4, <1>5, <1>6 DEF VillageInv
<1>7. CASE villageTable' = FoldLeft(UpsertOne, villageTable, M)
  <2>1. /\ Published(villageTable', Places) /\ Extends(villageTable', villageTable, M)
        /\ HasCensus(villageTable) => HasCensus(villageTable')
    BY <1>2, <1>7, UpsertKeeps DEF VillageInv
  <2>2. InTaluks(villageTable') => InTaluks(villageTable)
    <3> SUFFICES ASSUME NEW j \in 1..Len(villageTable'), villageTable'[j].taluk # Blank
                 PROVE  j \in 1..Len(villageTable) /\ villageTable[j].taluk # Blank
      BY DEF InTaluks
    <3>1. CASE j \in 1..Len(villageTable)
      BY <2>1, <3>1 DEF Extends, Same
    <3>2. CASE j \notin 1..Len(villageTable)
      BY <1>2, <2>1, <3>2 DEF Extends, Same
    <3> QED
      BY <3>1, <3>2
  <2>3. InTaluks(villageTable') \/ result' \in Complete => HasCensus(villageTable')
    BY <1>5, <2>1, <2>2 DEF VillageInv
  <2>4. ASSUME ingested, NEW rec, rec.taluk # Blank, Holds(villageTable, rec)
        PROVE  Holds(villageTable', rec)
    <3>1. PICK j \in 1..Len(villageTable) :
            /\ Known(villageTable[j], rec) /\ (rec.at # Blank => villageTable[j].at = rec.at)
      BY <2>4 DEF Holds
    <3>2. \A k \in 1..Len(M) : ~Known(villageTable[j], M[k])
      BY <1>2, <2>4, <3>1 DEF Known
    <3>3. villageTable'[j] = villageTable[j]
      BY <2>1, <3>2 DEF Extends
    <3>4. j \in 1..Len(villageTable')
      <4>1. Len(villageTable) \in Nat /\ Len(villageTable') \in Nat
        BY <2>1, TablesAre DEF VillageInv, Published
      <4> QED
        BY <2>1, <4>1 DEF Extends
    <3> QED
      BY <3>1, <3>3, <3>4 DEF Holds
  <2>5. ASSUME ingested', NEW i \in 1..Len(Merged(CensusRecs(extract')))
        PROVE  Holds(villageTable', Merged(CensusRecs(extract'))[i])
    <3>1. Merged(CensusRecs(extract'))[i].taluk # Blank
      BY <1>4, CensusMerges
    <3>2. Holds(villageTable, Merged(CensusRecs(extract'))[i])
      BY <1>3, <2>5 DEF VillageInv
    <3> QED
      BY <1>3, <2>4, <2>5, <3>1, <3>2
  <2> QED
    BY <1>4, <2>1, <2>3, <2>5 DEF VillageInv, M
<1> QED
  BY <1>3, <1>6, <1>7

LEMMA VillageInvNext == VillageInv /\ [VillageNext]_villageVars => VillageInv'
<1> SUFFICES ASSUME VillageInv, [VillageNext]_villageVars PROVE VillageInv'
  OBVIOUS
<1>1. CASE \E rows \in FirstOfEach : BuildExtract(rows)
  BY <1>1 DEF VillageInv, BuildExtract
<1>2. CASE IngestCensus
  BY <1>2, CensusIngestKeeps
<1>3. CASE \E checked \in BOOLEAN : IngestOsmOnly(checked)
  BY <1>3, OsmIngestKeeps
<1>4. CASE UNCHANGED villageVars
  BY <1>4 DEF VillageInv, villageVars
<1> QED
  BY <1>1, <1>2, <1>3, <1>4 DEF VillageNext

LEMMA VillageInvariance == VillageSpec => []VillageInv
BY VillageInvInit, VillageInvNext, PTL DEF VillageSpec

(* The types of the pipeline's state; a row lies where a place of its name *)
(* lies.                                                                   *)
THEOREM VillagesTyped == VillageSpec => []VillageTypeOK
<1>1. VillageInv => VillageTypeOK
  <2> SUFFICES ASSUME VillageInv PROVE VillageTypeOK
    OBVIOUS
  <2>1. extract = Blank \/ extract \subseteq Places
    BY DEF VillageInv, FirstOfEach
  <2>2. ASSUME NEW i \in 1..Len(villageTable)
        PROVE  villageTable[i].at \in {Blank} \cup {p.at : p \in {q \in Places : q.name = villageTable[i].name}}
    BY DEF VillageInv, Published, AtPlaces
  <2> QED
    BY <2>1, <2>2 DEF VillageInv, VillageTypeOK, Indices
<1> QED
  BY <1>1, VillageInvariance, PTL

(* Nothing is silently dropped, and nothing is there twice: whatever the   *)
(* census file, the places and the order of the scripts, with or without   *)
(* counts, the census clears the gate of the report; an ingest against     *)
(* counts that loads, and any row in a taluk of the census, means that     *)
(* the table has every village of the file, once, with its own name.       *)
THEOREM VillagesStayKept == VillageSpec => []VillagesAreKept
<1>1. VillageInv => VillagesAreKept
  <2> SUFFICES ASSUME VillageInv PROVE VillagesAreKept
    OBVIOUS
  <2>1. ASSUME HasCensus(villageTable), NEW i \in 1..Len(CensusRows)
        PROVE  \E j \in 1..Len(villageTable) :
                 /\ villageTable[j].taluk = CensusRows[i].taluk /\ villageTable[j].code = CensusRows[i].code
                 /\ \E k \in 1..Len(CensusRows) : CensusRows[k] = [taluk |-> villageTable[j].taluk,
                       name |-> villageTable[j].name, code |-> villageTable[j].code]
    <3>1. PICK p \in 1..Len(Parsed) :
            Parsed[p].taluk = CensusRows[i].taluk /\ Parsed[p].code = CensusRows[i].code
      BY ParsedIs DEF IsReading
    <3>2. PICK j \in 1..Len(villageTable) : Same(villageTable[j], Parsed[p])
      BY <2>1 DEF HasCensus
    <3>3. PICK k \in 1..Len(CensusRows) : Parsed[p] = Village(CensusRows[k])
      BY VillagesHaveCodes
    <3>4. CensusRows[k] = [taluk |-> CensusRows[k].taluk, name |-> CensusRows[k].name,
                           code |-> CensusRows[k].code]
      <4>1. CensusRows[k] \in CensusRecords
        BY CensusRowsAre
      <4> QED
        BY <4>1 DEF CensusRecords
    <3>5. /\ villageTable[j].taluk = CensusRows[k].taluk /\ villageTable[j].name = CensusRows[k].name
          /\ villageTable[j].code = CensusRows[k].code
      BY <3>2, <3>3 DEF Same, Village
    <3> QED
      BY <3>1, <3>2, <3>4, <3>5 DEF Same
  <2>4. HasCensus(villageTable) => EveryVillage
    BY <2>1 DEF EveryVillage, Indices
  <2>2. NoVillageIsDropped
    BY <2>4 DEF NoVillageIsDropped, VillageInv, InTaluks, Complete, Indices
  <2>3. OneRowEach
    BY DEF OneRowEach, VillageInv, Published, Apart, Known, Indices
  <2> QED
    BY <2>2, <2>3 DEF VillagesAreKept
<1> QED
  BY <1>1, VillageInvariance, PTL

(* Re-running is safe: an ingest of the census with the extract it had     *)
(* leaves the table as it is, and no run takes the coordinates of a row.   *)
THEOREM RerunsAlwaysKeepRows == VillageSpec => RerunsKeepRows
<1>1. VillageInv /\ [VillageNext]_villageVars =>
        [ingested /\ ingested' /\ IngestCensus => villageTable' = villageTable]_villageVars
  BY CensusIngestKeeps
<1>2. VillageInv /\ [VillageNext]_villageVars =>
        [\A i \in Indices(villageTable) : villageTable[i].at # Blank => villageTable'[i].at # Blank]_villageVars
  <2> SUFFICES ASSUME VillageInv, VillageNext, NEW i \in 1..Len(villageTable), villageTable[i].at # Blank
               PROVE  villageTable'[i].at # Blank
    BY DEF Indices
  <2>1. CASE \E rows \in FirstOfEach : BuildExtract(rows)
    BY <2>1 DEF BuildExtract
  <2>2. CASE IngestCensus
    BY <2>2, CensusIngestKeeps DEF Extends
  <2>3. CASE \E checked \in BOOLEAN : IngestOsmOnly(checked)
    <3>1. CASE villageTable' = villageTable
      BY <3>1
    <3>2. CASE Extends(villageTable', villageTable, Merged(OsmRecs(extract)))
      BY <3>2 DEF Extends
    <3> QED
      BY <2>3, <3>1, <3>2, OsmIngestKeeps
  <2> QED
    BY <2>1, <2>2, <2>3 DEF VillageNext
<1> QED
  BY <1>1, <1>2, VillageInvariance, PTL
    DEF VillageSpec, RerunsKeepRows, RerunChangesNothing, LocatedStaysLocated
=============================================================================
