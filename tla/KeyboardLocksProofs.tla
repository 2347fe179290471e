------------------------- MODULE KeyboardLocksProofs -------------------------
(***************************************************************************)
(* Proofs about KeyboardLocks, for any keys and lock keys, any number of   *)
(* slots and of endpoint banks: the composition behaves, for the keyboard, *)
(* as KeyReport does, so that what is proved of KeyReport holds of it; and *)
(* GET_*_LOCK tells the state of the host.                                 *)
(***************************************************************************)
EXTENDS KeyboardLocks, KeyReportProofs, FiniteSetTheorems, FunctionTheorems, WellFoundedInduction

(* The lock keys only watch the keyboard: every step is one of KeyReport or *)
(* leaves it alone.                                                         *)
THEOREM LocksWatchReport == LocksSpec => Spec
<1>1. LocksInit => Init
  BY DEF LocksInit
<1>2. [LocksNext]_allVars => [Next]_vars
  BY DEF LocksNext, LockCommand, LockOperation, HostTakesLocks, OtherKeyboard, LedReport,
         LedReportFails, ResetLocks, BusResetLocks, ConfigureLocks, Next, allVars
<1> QED
  BY <1>1, <1>2, PTL DEF LocksSpec, Spec

-----------------------------------------------------------------------------
(* An unconfigured device has an empty endpoint and was told nothing.       *)

Unplugged == ~configured => wire = <<>> /\ ~told /\ ~ledDue

LocksTyped ==
  /\ lockOn \subseteq LockKeys /\ leds \subseteq LockKeys /\ goal \subseteq LockKeys
  /\ ledDue \in BOOLEAN /\ told \in BOOLEAN /\ watched \in BOOLEAN
  /\ configured \in BOOLEAN

ToldInv == told /\ ~ledDue => leds = lockOn

LocksInv == LocksTyped /\ Unplugged /\ ToldInv

LEMMA ToggleSubset ==
  ASSUME NEW S, NEW A, NEW B, A \subseteq S, B \subseteq S
  PROVE  Toggle(A, B) \subseteq S
BY DEF Toggle

LEMMA SetLockKeys ==
  ASSUME Command, command'.cmd = "KB_SET_LOCK"
  PROVE  command'.keys \subseteq LockKeys
<1>1. KB_SET_LOCK
  BY DEF Command, KB_DOWN, KB_UP, KB_PRESS, KB_UP_ALL, KB_COMB_DOWN, KB_COMB_UP,
         KB_COMB_PRESS, Begin
<1>2. PICK k \in LockKeys : Begin("KB_SET_LOCK", <<Op("press", k), Op("release", k)>>)
  BY <1>1 DEF KB_SET_LOCK
<1> DEFINE ops == <<Op("press", k), Op("release", k)>>
<1>3. Len(ops) = 2 /\ ops[1].key = k /\ ops[2].key = k
  BY DEF Op
<1>4. command'.keys = Named(ops)
  BY <1>2 DEF Begin
<1> HIDE DEF ops
<1> QED
  BY <1>3, <1>4 DEF Named

LEMMA CommandLeaves ==
  ASSUME Command
  PROVE  UNCHANGED <<configured, wire>>
BY DEF Command, KB_DOWN, KB_UP, KB_PRESS, KB_UP_ALL, KB_COMB_DOWN, KB_COMB_UP,
       KB_COMB_PRESS, KB_SET_LOCK, Begin

LEMMA OperationPlugged ==
  ASSUME Operation, ~configured
  PROVE  UNCHANGED <<configured, wire>>
BY DEF Operation, DoAdd, DoRemove, DoSend, DoPress, DoRelease, DoReleaseAll, Do, SendReport

LEMMA NextLocksInv == LocksInv /\ [LocksNext]_allVars => LocksInv'
<1> SUFFICES ASSUME LocksInv, [LocksNext]_allVars PROVE LocksInv'
  OBVIOUS
<1> USE DEF LocksInv
<1>1. CASE LockCommand
  <2>1. UNCHANGED <<configured, wire, lockOn, leds, ledDue, told>>
    BY <1>1, CommandLeaves DEF LockCommand
  <2>2. watched' \in BOOLEAN /\ goal' \subseteq LockKeys
    <3>1. Settled \subseteq LockKeys
      BY DEF Settled
    <3>2. CASE command'.cmd = "KB_SET_LOCK"
      <4>1. {k \in command'.keys : k \notin LastShown /\ CanAdd(k)} \subseteq LockKeys
        BY <1>1, <3>2, SetLockKeys DEF LockCommand
      <4>2. Toggle(Settled, {k \in command'.keys : k \notin LastShown /\ CanAdd(k)})
              \subseteq LockKeys
        BY <3>1, <4>1, ToggleSubset
      <4> QED
        BY <1>1, <3>2, <4>2 DEF LockCommand
    <3>3. CASE command'.cmd # "KB_SET_LOCK"
      BY <1>1, <3>3 DEF LockCommand
    <3> QED
      BY <3>2, <3>3
  <2> QED
    BY <2>1, <2>2 DEF LocksTyped, Unplugged, ToldInv
<1>2. CASE LockOperation
  <2>1. UNCHANGED <<configured, lockVars>>
    BY <1>2 DEF LockOperation, Operation, DoAdd, DoRemove, DoSend, DoPress, DoRelease,
                DoReleaseAll, Do
  <2>2. ~configured => UNCHANGED wire
    BY <1>2, OperationPlugged DEF LockOperation
  <2> QED
    BY <2>1, <2>2 DEF lockVars, LocksTyped, Unplugged, ToldInv
<1>3. CASE HostTakesLocks
  <2>1. /\ wire # <<>> /\ UNCHANGED <<configured, leds, told, watched, goal>>
        /\ lockOn' = Toggle(lockOn, PressedAt(2))
        /\ ledDue' = (ledDue \/ PressedAt(2) # {})
    BY <1>3 DEF HostTakesLocks, HostTakes
  <2>2. PressedAt(2) \subseteq LockKeys
    BY DEF PressedAt
  <2>3. lockOn' \subseteq LockKeys
    BY <2>1, <2>2, ToggleSubset DEF LocksTyped
  <2>4. PressedAt(2) = {} => lockOn' = lockOn
    BY <2>1 DEF Toggle
  <2> QED
    BY <2>1, <2>3, <2>4 DEF LocksTyped, Unplugged, ToldInv
<1>4. ASSUME NEW k \in LockKeys, OtherKeyboard(k)
      PROVE  LocksInv'
  <2>1. /\ UNCHANGED <<configured, wire, leds, told, watched>>
        /\ lockOn' = Toggle(lockOn, {k}) /\ ledDue' = configured
        /\ goal' = IF watched THEN Toggle(goal, {k}) ELSE goal
    BY <1>4 DEF OtherKeyboard, vars
  <2>2. Toggle(lockOn, {k}) \subseteq LockKeys /\ Toggle(goal, {k}) \subseteq LockKeys
    BY ToggleSubset DEF LocksTyped
  <2>3. ledDue' \in BOOLEAN /\ (~configured' => ~ledDue') /\ (configured' => ledDue')
    <3>1. configured \in BOOLEAN
      BY DEF LocksTyped
    <3> QED
      BY <2>1, <3>1
  <2> QED
    BY <2>1, <2>2, <2>3 DEF LocksTyped, Unplugged, ToldInv
<1>5. CASE LedReport
  BY <1>5 DEF LedReport, vars, LocksTyped, Unplugged, ToldInv
<1>6. CASE LedReportFails
  BY <1>6 DEF LedReportFails, vars, LocksTyped, Unplugged, ToldInv
<1>7. CASE ResetLocks
  BY <1>7 DEF ResetLocks, Reset, LocksTyped, Unplugged, ToldInv
<1>8. CASE BusResetLocks
  BY <1>8 DEF BusResetLocks, BusReset, LocksTyped, Unplugged, ToldInv
<1>9. CASE ConfigureLocks
  BY <1>9 DEF ConfigureLocks, Configure, LocksTyped, Unplugged, ToldInv
<1>10. CASE UNCHANGED allVars
  BY <1>10 DEF allVars, lockVars, vars, LocksTyped, Unplugged, ToldInv
<1> QED
  BY <1>1, <1>2, <1>3, <1>4, <1>5, <1>6, <1>7, <1>8, <1>9, <1>10 DEF LocksNext

LEMMA LocksInvariance == LocksSpec => []LocksInv
<1>1. LocksInit => LocksInv
  BY DEF LocksInit, Init, LocksInv, LocksTyped, Unplugged, ToldInv
<1> QED
  BY <1>1, NextLocksInv, PTL DEF LocksSpec

(* Keyboard, locks and LEDs keep their types, and only a configured device  *)
(* has LEDs coming.                                                         *)
THEOREM LocksTypeCorrect == LocksSpec => []LocksTypeOK
<1>1. TypeOK /\ LocksInv => LocksTypeOK
  BY DEF LocksInv, LocksTyped, Unplugged, LocksTypeOK, TypeOK
<1> QED
  BY <1>1, LocksWatchReport, TypeCorrect, LocksInvariance, PTL

(* After the LED report of the last change, Get*Lock tells the lock state   *)
(* of the host, whatever other keyboards, bus resets and restarts did.      *)
THEOREM GetIsTrue == LocksSpec => []GetTellsLock
<1>1. LocksInv => GetTellsLock
  BY DEF LocksInv, ToldInv, GetTellsLock, Answer
<1> QED
  BY <1>1, LocksInvariance, PTL

-----------------------------------------------------------------------------
(* The reports the host has still to look at, and how often a lock toggles  *)
(* in them.                                                                 *)

Edges(k) == {i \in 2..Len(Shows) : k \in PressedAt(i)}
OddEdges(k) == Cardinality(Edges(k)) % 2 = 1

LEMMA SettledMeans ==
  ASSUME NEW k \in LockKeys
  PROVE  k \in Settled <=> ~(k \in lockOn <=> OddEdges(k))
BY DEF Settled, OddEdges, Edges

LEMMA ShowsShape ==
  ASSUME NEW h \in SUBSET AnyKey, NEW w \in Seq(SUBSET AnyKey), NEW t, t = <<h>> \o w
  PROVE  /\ t \in Seq(SUBSET AnyKey)
         /\ Len(w) \in Nat /\ Len(t) = Len(w) + 1 /\ t[1] = h
         /\ \A i \in 2..Len(w) + 1 : t[i] = w[i - 1]
<1> DEFINE s == <<h>>
<1>1. s \in Seq(SUBSET AnyKey) /\ Len(s) = 1 /\ s[1] = h
  OBVIOUS
<1>2. t = s \o w
  OBVIOUS
<1> HIDE DEF s
<1>3. Len(w) \in Nat
  BY LenProperties
<1>4. /\ t \in Seq(SUBSET AnyKey) /\ Len(t) = Len(s) + Len(w)
      /\ \A i \in 1..Len(s) + Len(w) : t[i] = IF i <= Len(s) THEN s[i] ELSE w[i - Len(s)]
  BY <1>1, <1>2, ConcatProperties
<1>5. \A i \in 1..1 + Len(w) : t[i] = IF i <= 1 THEN s[i] ELSE w[i - 1]
  BY <1>1, <1>4
<1> QED
  BY <1>1, <1>3, <1>4, <1>5

LEMMA ShowsTyped ==
  ASSUME TypeOK
  PROVE  /\ Shows \in Seq(SUBSET AnyKey)
         /\ Len(wire) \in Nat /\ Len(Shows) = Len(wire) + 1 /\ Shows[1] = host
         /\ \A i \in 2..Len(wire) + 1 : Shows[i] = wire[i - 1]
<1>1. host \in SUBSET AnyKey /\ wire \in Seq(SUBSET AnyKey)
  BY DEF TypeOK
<1> QED
  BY <1>1, ShowsShape DEF Shows

LEMMA ShowsTypedNext ==
  ASSUME TypeOK'
  PROVE  /\ Len(Shows') = Len(wire') + 1 /\ Shows'[1] = host'
         /\ \A i \in 2..Len(wire') + 1 : Shows'[i] = wire'[i - 1]
<1>1. host' \in SUBSET AnyKey /\ wire' \in Seq(SUBSET AnyKey)
  BY DEF TypeOK
<1> QED
  BY <1>1, ShowsShape DEF Shows

LEMMA EdgesFinite ==
  ASSUME TypeOK, NEW k
  PROVE  IsFiniteSet(Edges(k)) /\ Cardinality(Edges(k)) \in Nat
<1>1. IsFiniteSet(2..Len(Shows))
  BY ShowsTyped, FS_Interval
<1>2. Edges(k) \subseteq 2..Len(Shows)
  BY DEF Edges
<1> QED
  BY <1>1, <1>2, FS_Subset, FS_CardinalityType

(* A report that goes into the endpoint toggles, in the end, the locks it   *)
(* presses that the one before it did not show.                             *)
LEMMA AppendSettles ==
  ASSUME TypeOK, NEW R \in SUBSET AnyKey, wire' = Append(wire, R),
         UNCHANGED <<host, lockOn>>, TypeOK', NEW k \in LockKeys
  PROVE  /\ LastShown' = R
         /\ k \in Settled' <=> ~(k \in Settled <=> (k \in R /\ k \notin LastShown))
<1>0. PICK n \in Nat : n = Len(wire) + 1
  BY ShowsTyped
<1>1. /\ n \in Nat \ {0} /\ Len(Shows) = n /\ Len(Shows') = n + 1 /\ Shows'[n + 1] = R
      /\ \A i \in 1..n : Shows'[i] = Shows[i]
  <2>1. /\ Len(wire) \in Nat /\ Len(Shows) = Len(wire) + 1 /\ Shows[1] = host
        /\ \A i \in 2..Len(wire) + 1 : Shows[i] = wire[i - 1]
    BY ShowsTyped
  <2>2. /\ Len(Shows') = Len(wire') + 1 /\ Shows'[1] = host'
        /\ \A i \in 2..Len(wire') + 1 : Shows'[i] = wire'[i - 1]
    BY ShowsTypedNext
  <2>3. /\ Len(wire') = Len(wire) + 1 /\ wire'[Len(wire) + 1] = R
        /\ \A i \in 1..Len(wire) : wire'[i] = wire[i]
    <3>1. wire \in Seq(SUBSET AnyKey)
      BY DEF TypeOK
    <3> QED
      BY <3>1, AppendProperties
  <2>4. Shows'[n + 1] = R
    BY <1>0, <2>1, <2>2, <2>3
  <2>5. \A i \in 1..n : Shows'[i] = Shows[i]
    BY <1>0, <2>1, <2>2, <2>3
  <2> QED
    BY <1>0, <2>1, <2>2, <2>3, <2>4, <2>5
<1>2. LastShown = Shows[n] /\ LastShown' = R
  BY <1>1 DEF LastShown
<1>3. \A i \in 2..n : PressedAt(i)' = PressedAt(i)
  BY <1>1 DEF PressedAt
<1>4. PressedAt(n + 1)' = (R \ LastShown) \cap LockKeys
  <2>1. (n + 1) - 1 = n /\ n \in 1..n
    BY <1>1
  <2>2. Shows'[n + 1] = R /\ Shows'[(n + 1) - 1] = LastShown
    BY <1>1, <1>2, <2>1
  <2> QED
    BY <2>2 DEF PressedAt
<1>5. 2..n + 1 = (2..n) \cup {n + 1} /\ n + 1 \notin 2..n
  BY <1>1
<1> DEFINE E == Edges(k)
           F == Edges(k)'
<1>6. E = {i \in 2..n : k \in PressedAt(i)} /\ F = {i \in 2..n + 1 : k \in PressedAt(i)'}
  BY <1>1 DEF Edges
<1> HIDE DEF E, F
<1>7. /\ \A i \in 2..n : i \in F <=> i \in E
      /\ n + 1 \in F <=> k \in R /\ k \notin LastShown
      /\ E \subseteq 2..n /\ F \subseteq (2..n) \cup {n + 1} /\ n + 1 \notin E
  <2>1. n + 1 \in 2..n + 1
    BY <1>1
  <2>2. n + 1 \in F <=> k \in R /\ k \notin LastShown
    BY <1>4, <1>6, <2>1
  <2>3. \A i \in 2..n : i \in F <=> i \in E
    BY <1>3, <1>5, <1>6
  <2> QED
    BY <1>5, <1>6, <2>2, <2>3
<1>8. CASE k \in R /\ k \notin LastShown
  <2>1. Edges(k)' = Edges(k) \cup {n + 1} /\ n + 1 \notin Edges(k)
    <3>1. F = E \cup {n + 1}
      BY <1>8, <1>7
    <3> QED
      BY <1>7, <3>1 DEF E, F
  <2>2. Cardinality(Edges(k)') = Cardinality(Edges(k)) + 1 /\ Cardinality(Edges(k)) \in Nat
    BY <2>1, EdgesFinite, FS_AddElement
  <2>3. OddEdges(k)' <=> ~OddEdges(k)
    BY <2>2 DEF OddEdges
  <2>4. k \in Settled' <=> ~(k \in lockOn' <=> OddEdges(k)')
    BY DEF Settled, OddEdges, Edges
  <2> QED
    BY <1>2, <1>8, <2>3, <2>4, SettledMeans
<1>9. CASE ~(k \in R /\ k \notin LastShown)
  <2>1. Edges(k)' = Edges(k)
    <3>1. F = E
      BY <1>9, <1>7
    <3> QED
      BY <3>1 DEF E, F
  <2>2. OddEdges(k)' <=> OddEdges(k)
    BY <2>1 DEF OddEdges
  <2>3. k \in Settled' <=> ~(k \in lockOn' <=> OddEdges(k)')
    BY DEF Settled, OddEdges, Edges
  <2> QED
    BY <1>2, <1>9, <2>2, <2>3, SettledMeans
<1> QED
  BY <1>8, <1>9

(* A report that the host takes has done its part already. *)
LEMMA TakeShows ==
  ASSUME TypeOK, TypeOK', HostTakesLocks, NEW n, n = Len(wire)
  PROVE  /\ n \in Nat \ {0} /\ Len(Shows) = n + 1 /\ Len(Shows') = n
         /\ \A i \in 1..n : Shows'[i] = Shows[i + 1]
         /\ LastShown' = LastShown
<1>1. wire # <<>> /\ host' = Head(wire) /\ wire' = Tail(wire)
  BY DEF HostTakesLocks, HostTakes
<1>2. /\ n \in Nat \ {0} /\ Len(Shows) = n + 1 /\ Len(Shows') = n
      /\ \A i \in 1..n : Shows'[i] = Shows[i + 1]
  <2>1. /\ Len(Shows) = Len(wire) + 1 /\ \A i \in 2..Len(wire) + 1 : Shows[i] = wire[i - 1]
    BY ShowsTyped
  <2>2. /\ Len(Shows') = Len(wire') + 1 /\ Shows'[1] = host'
        /\ \A i \in 2..Len(wire') + 1 : Shows'[i] = wire'[i - 1]
    BY ShowsTypedNext
  <2>3. /\ n \in Nat \ {0} /\ Head(wire) = wire[1] /\ Len(wire') = n - 1
        /\ \A i \in 1..n - 1 : wire'[i] = wire[i + 1]
    <3>1. wire \in Seq(SUBSET AnyKey)
      BY DEF TypeOK
    <3>2. n \in Nat \ {0}
      BY <1>1, <3>1, EmptySeq
    <3>3. Len(Tail(wire)) = n - 1 /\ \A i \in 1..Len(Tail(wire)) : Tail(wire)[i] = wire[i + 1]
      BY <1>1, <3>1, HeadTailProperties
    <3> QED
      BY <1>1, <3>1, <3>2, <3>3
  <2>4. Shows'[1] = Shows[2]
    BY <1>1, <2>1, <2>2, <2>3
  <2>5. \A i \in 2..n : Shows'[i] = Shows[i + 1]
    <3> SUFFICES ASSUME NEW i \in 2..n PROVE Shows'[i] = Shows[i + 1]
      OBVIOUS
    <3>1. i - 1 \in 1..n - 1 /\ (i - 1) + 1 = i /\ i + 1 \in 2..n + 1 /\ (i + 1) - 1 = i
      BY <2>3
    <3>2. Shows'[i] = wire'[i - 1]
      BY <2>2, <2>3
    <3>3. wire'[i - 1] = wire[i]
      BY <2>3, <3>1
    <3>4. Shows[i + 1] = wire[i]
      BY <2>1, <3>1
    <3> QED
      BY <3>2, <3>3, <3>4
  <2> QED
    BY <2>1, <2>2, <2>3, <2>4, <2>5
<1>3. LastShown' = LastShown
  BY <1>2 DEF LastShown
<1> QED
  BY <1>2, <1>3

LEMMA TakeSettles ==
  ASSUME TypeOK, TypeOK', HostTakesLocks, NEW k \in LockKeys
  PROVE  k \in Settled' <=> k \in Settled
<1> DEFINE n == Len(wire)
<1>2. /\ n \in Nat \ {0} /\ Len(Shows) = n + 1 /\ Len(Shows') = n
      /\ \A i \in 1..n : Shows'[i] = Shows[i + 1]
  BY TakeShows
<1> HIDE DEF n
<1>4. \A i \in 2..n : PressedAt(i)' = PressedAt(i + 1)
  <2> SUFFICES ASSUME NEW i \in 2..n PROVE PressedAt(i)' = PressedAt(i + 1)
    OBVIOUS
  <2>1. i \in 1..n /\ i - 1 \in 1..n /\ (i - 1) + 1 = i /\ (i + 1) - 1 = i
    BY <1>2
  <2>2. Shows'[i] = Shows[i + 1] /\ Shows'[i - 1] = Shows[i]
    BY <1>2, <2>1
  <2> QED
    BY <2>1, <2>2 DEF PressedAt
<1> DEFINE S == Edges(k)
           T == Edges(k)'
           D == S \ {2}
           f == [i \in D |-> i - 1]
<1>5. D \subseteq 3..n + 1 /\ T \subseteq 2..n /\ \A i \in 2..n : i \in T <=> i + 1 \in D
  BY <1>2, <1>4 DEF Edges
<1>6. 2 \in S <=> k \in PressedAt(2)
  BY <1>2 DEF Edges
<1>7. IsFiniteSet(S) /\ Cardinality(S) \in Nat
  BY EdgesFinite
<1> HIDE DEF S, T
<1>8. f \in Bijection(D, T)
  <2>1. f \in [D -> T]
    <3> SUFFICES ASSUME NEW i \in D PROVE i - 1 \in T
      OBVIOUS
    <3>1. i - 1 \in 2..n /\ (i - 1) + 1 = i
      BY <1>2, <1>5
    <3> QED
      BY <1>5, <3>1
  <2>2. \A i, j \in D : f[i] = f[j] => i = j
    BY <1>2, <1>5
  <2>3. \A t \in T : \E i \in D : f[i] = t
    <3> SUFFICES ASSUME NEW t \in T PROVE \E i \in D : f[i] = t
      OBVIOUS
    <3>1. t \in 2..n /\ t + 1 \in D /\ (t + 1) - 1 = t
      BY <1>2, <1>5
    <3> QED
      BY <3>1
  <2> HIDE DEF f
  <2> QED
    BY <2>1, <2>2, <2>3, Fun_IsBij
<1> HIDE DEF D, f
<1>9. IsFiniteSet(D) /\ Cardinality(D) = IF 2 \in S THEN Cardinality(S) - 1 ELSE Cardinality(S)
  BY <1>7, FS_RemoveElement DEF D
<1>10. Cardinality(T) = Cardinality(D)
  BY <1>8, <1>9, FS_Bijection DEF ExistsBijection
<1>11. Cardinality(D) \in Nat
  BY <1>9, FS_CardinalityType
<1>12. OddEdges(k)' <=> ~(OddEdges(k) <=> k \in PressedAt(2))
  <2>1. OddEdges(k) <=> Cardinality(S) % 2 = 1
    BY DEF OddEdges, S
  <2>2. OddEdges(k)' <=> Cardinality(T) % 2 = 1
    BY DEF OddEdges, T
  <2> QED
    BY <1>6, <1>7, <1>9, <1>10, <1>11, <2>1, <2>2
<1>13. k \in lockOn' <=> ~(k \in lockOn <=> k \in PressedAt(2))
  BY DEF HostTakesLocks, Toggle
<1>14. k \in Settled' <=> ~(k \in lockOn' <=> OddEdges(k)')
  BY DEF Settled, OddEdges, Edges
<1> QED
  BY <1>12, <1>13, <1>14, SettledMeans

-----------------------------------------------------------------------------
(* SET_*_LOCK.  Stage by stage, the goal is the settled state of the lock,  *)
(* toggled as long as the press that toggles it has still to be sent.       *)

Agreed(k, due) == k \in goal <=> ~(k \in Settled <=> due)

Beginning(k) ==
  /\ Len(todo) = 2 /\ todo[1] = Op("press", k) /\ todo[2] = Op("release", k)
  /\ Agreed(k, k \notin LastShown /\ CanAdd(k))

Pressed(k) ==
  /\ Len(todo) = 2 /\ todo[1] = Send /\ todo[2] = Op("release", k)
  /\ k \in Held /\ Agreed(k, k \notin LastShown)

PressSent(k) == Len(todo) = 1 /\ todo[1] = Op("release", k) /\ Agreed(k, FALSE)

Released(k) == Len(todo) = 1 /\ todo[1] = Send /\ k \notin Held /\ Agreed(k, FALSE)

Ended(k) == Len(todo) = 0 /\ Agreed(k, FALSE)

Stage(k) == Beginning(k) \/ Pressed(k) \/ PressSent(k) \/ Released(k) \/ Ended(k)

WatchInv ==
  watched /\ ~lost => \E k \in LockKeys : command.keys = {k} /\ Stage(k)

(* A key that finds a slot is in the report. *)
LEMMA AddShows ==
  ASSUME ReportOK, NEW k \in AnyKey, Add(k), CanAdd(k)
  PROVE  k \in Held'
<1>0. RESERVED \notin Keys \cup Modifiers
  BY KeyAssumption
<1>1. CASE k \in Modifiers
  BY <1>1 DEF Add, Held
<1>2. CASE k \notin Modifiers /\ Shown(k)
  BY <1>0, <1>2 DEF Add, Held, Shown, AnyKey
<1>3. CASE k \notin Modifiers /\ ~Shown(k)
  <2>1. Free # {} /\ Free \subseteq Slots
    BY <1>3 DEF CanAdd, Free
  <2>2. Slots \subseteq Nat
    BY KeyAssumption DEF Slots
  <2>3. First(Free) \in Slots
    BY <2>1, <2>2, FirstIsIn
  <2>4. keycodes' = [keycodes EXCEPT ![First(Free)] = k]
    BY <1>3, <2>1 DEF Add
  <2>5. keycodes'[First(Free)] = k
    BY <2>3, <2>4 DEF ReportOK
  <2> QED
    BY <1>0, <2>3, <2>5 DEF Held, AnyKey
<1> QED
  BY <1>1, <1>2, <1>3

(* One step leaves the list as it is, drops its head, or puts a send there. *)
LEMMA ListAfter ==
  ASSUME TypeOK, todo # <<>>
  PROVE  /\ Len(todo) \in Nat \ {0} /\ Head(todo) = todo[1]
         /\ Continue => /\ Len(todo') = Len(todo) - 1
                        /\ Len(todo) = 2 => todo'[1] = todo[2]
         /\ ThenSend => /\ Len(todo') = Len(todo) /\ todo'[1] = Send
                        /\ Len(todo) = 2 => todo'[2] = todo[2]
<1>1. /\ Len(todo) \in Nat \ {0} /\ Head(todo) = todo[1]
      /\ Len(Tail(todo)) = Len(todo) - 1
      /\ \A i \in 1..Len(todo) - 1 : Tail(todo)[i] = todo[i + 1]
      /\ Len(<<Send>> \o Tail(todo)) = Len(todo)
      /\ (<<Send>> \o Tail(todo))[1] = Send
      /\ \A i \in 2..Len(todo) : (<<Send>> \o Tail(todo))[i] = todo[i]
  BY Popped
<1>2. ASSUME Continue
      PROVE  Len(todo') = Len(todo) - 1 /\ (Len(todo) = 2 => todo'[1] = todo[2])
  <2>1. Len(todo) = 2 => 1 \in 1..Len(todo) - 1 /\ 1 + 1 = 2
    OBVIOUS
  <2> QED
    BY <1>1, <1>2, <2>1 DEF Continue
<1>3. ASSUME ThenSend
      PROVE  /\ Len(todo') = Len(todo) /\ todo'[1] = Send
             /\ Len(todo) = 2 => todo'[2] = todo[2]
  <2>1. Len(todo) = 2 => 2 \in 2..Len(todo)
    OBVIOUS
  <2> QED
    BY <1>1, <1>3, <2>1 DEF ThenSend
<1> QED
  BY <1>1, <1>2, <1>3

LEMMA SettledSame ==
  ASSUME UNCHANGED <<wire, host, lockOn>>, NEW k
  PROVE  LastShown' = LastShown /\ (k \in Settled' <=> k \in Settled)
<1>1. Shows' = Shows
  BY DEF Shows
<1>2. \A i : PressedAt(i)' = PressedAt(i)
  BY <1>1 DEF PressedAt
<1>3. Settled' = Settled
  BY <1>1, <1>2 DEF Settled
<1> QED
  BY <1>1, <1>3 DEF LastShown

LEMMA WatchCommand ==
  ASSUME LockCommand
  PROVE  WatchInv'
<1> SUFFICES ASSUME watched'
             PROVE  \E k \in LockKeys : command'.keys = {k} /\ Stage(k)'
  BY DEF WatchInv
<1>1. Command /\ command'.cmd = "KB_SET_LOCK"
  BY DEF LockCommand
<1>2. KB_SET_LOCK
  BY <1>1 DEF Command, KB_DOWN, KB_UP, KB_PRESS, KB_UP_ALL, KB_COMB_DOWN, KB_COMB_UP,
         KB_COMB_PRESS, Begin
<1>3. PICK k \in LockKeys : Begin("KB_SET_LOCK", <<Op("press", k), Op("release", k)>>)
  BY <1>2 DEF KB_SET_LOCK
<1> DEFINE ops == <<Op("press", k), Op("release", k)>>
<1>4. /\ Len(ops) = 2 /\ ops[1] = Op("press", k) /\ ops[2] = Op("release", k)
      /\ ops[1].key = k /\ ops[2].key = k
  BY DEF Op
<1>5. /\ todo' = ops /\ command'.keys = Named(ops)
      /\ UNCHANGED <<modifiers, keycodes, wire, host, lockOn>>
  BY <1>3 DEF Begin, LockCommand
<1> HIDE DEF ops
<1>6. command'.keys = {k}
  <2>1. k # RESERVED
    BY KeyAssumption
  <2> QED
    BY <1>4, <1>5, <2>1 DEF Named
<1>7. k \in goal' <=> ~(k \in Settled <=> k \notin LastShown /\ CanAdd(k))
  <2>1. goal' = Toggle(Settled, {x \in {k} : x \notin LastShown /\ CanAdd(x)})
    BY <1>6 DEF LockCommand
  <2> QED
    BY <2>1 DEF Toggle
<1>8. LastShown' = LastShown /\ (k \in Settled' <=> k \in Settled)
  BY <1>5, SettledSame
<1>9. CanAdd(k)' <=> CanAdd(k)
  BY <1>5 DEF CanAdd, Shown, Free
<1>10. Beginning(k)'
  BY <1>4, <1>5, <1>7, <1>8, <1>9 DEF Beginning, Agreed
<1> QED
  BY <1>6, <1>10 DEF Stage

LEMMA WatchOperation ==
  ASSUME IInv, IInv', LocksInv, WatchInv, LockOperation
  PROVE  WatchInv'
<1> USE DEF IInv
<1> SUFFICES ASSUME watched', ~lost'
             PROVE  \E k \in LockKeys : command'.keys = {k} /\ Stage(k)'
  BY DEF WatchInv
<1>1. /\ Operation /\ todo # <<>>
      /\ UNCHANGED <<lockOn, watched, goal, command, host, configured>>
  BY DEF LockOperation, lockVars, Operation, DoAdd, DoRemove, DoSend, DoPress, DoRelease,
         DoReleaseAll, Do
<1>2. ~lost
  BY <1>1 DEF Operation, DoAdd, DoRemove, DoSend, DoPress, DoRelease, DoReleaseAll, Do,
              SendReport
<1>3. PICK k \in LockKeys : command.keys = {k} /\ Stage(k)
  BY <1>1, <1>2 DEF WatchInv
<1>4. /\ Len(todo) \in Nat \ {0} /\ Head(todo) = todo[1]
      /\ Continue => /\ Len(todo') = Len(todo) - 1
                     /\ Len(todo) = 2 => todo'[1] = todo[2]
      /\ ThenSend => /\ Len(todo') = Len(todo) /\ todo'[1] = Send
                     /\ Len(todo) = 2 => todo'[2] = todo[2]
  BY <1>1, ListAfter
<1>5. ReportOK /\ k \in AnyKey
  BY KeyAssumption DEF ReportOK, TypeOK, AnyKey
<1>6. \A o, x : Op(o, x).op = o /\ Op(o, x).key = x
  BY DEF Op
<1>7. Send.op = "send"
  BY DEF Send, Op
<1>8. Stage(k)'
  <2>1. CASE Beginning(k)
    <3>1. Head(todo) = Op("press", k)
      BY <1>4, <2>1 DEF Beginning
    <3>2. DoPress
      BY <1>1, <1>6, <3>1 DEF Operation, DoAdd, DoRemove, DoSend, DoRelease, DoReleaseAll, Do
    <3>3. /\ Add(k) /\ (IF CanAdd(k) THEN ThenSend ELSE todo' = <<>>)
          /\ UNCHANGED wire
      BY <1>6, <3>1, <3>2 DEF DoPress, Do
    <3>4. LastShown' = LastShown /\ (k \in Settled' <=> k \in Settled)
      BY <1>1, <3>3, SettledSame
    <3>5. CASE CanAdd(k)
      <4>1. k \in Held'
        BY <1>5, <3>3, <3>5, AddShows
      <4>2. Pressed(k)'
        BY <1>1, <1>4, <2>1, <3>3, <3>4, <3>5, <4>1 DEF Beginning, Pressed, Agreed
      <4> QED
        BY <4>2 DEF Stage
    <3>6. CASE ~CanAdd(k)
      <4>1. Len(todo') = 0
        BY <3>3, <3>6
      <4>2. Ended(k)'
        BY <1>1, <2>1, <3>4, <3>6, <4>1 DEF Beginning, Ended, Agreed
      <4> QED
        BY <4>2 DEF Stage
    <3> QED
      BY <3>5, <3>6
  <2>2. ASSUME Head(todo) = Send
        PROVE  /\ Continue /\ wire' = Append(wire, Held) /\ Held' = Held
               /\ (k \in Settled' <=> ~(k \in Settled <=> (k \in Held /\ k \notin LastShown)))
    <3>1. DoSend
      BY <1>1, <1>7, <2>2 DEF Operation, DoAdd, DoRemove, DoPress, DoRelease, DoReleaseAll, Do
    <3>2. SendReport /\ Continue /\ UNCHANGED Report
      BY <3>1 DEF DoSend, Do, SendReport, Report
    <3>3. wire' = Append(wire, Held)
      BY <3>2 DEF SendReport
    <3>4. Held \in SUBSET AnyKey
      BY DEF Held, TypeOK, AnyKey
    <3> QED
      BY <1>1, <3>2, <3>3, <3>4, AppendSettles, HeldOfReport
  <2>3. CASE Pressed(k)
    <3>1. Head(todo) = Send
      BY <1>4, <2>3 DEF Pressed
    <3>2. PressSent(k)'
      BY <1>1, <1>4, <2>2, <2>3, <3>1 DEF Pressed, PressSent, Agreed
    <3> QED
      BY <3>2 DEF Stage
  <2>4. CASE PressSent(k)
    <3>1. Head(todo) = Op("release", k)
      BY <1>4, <2>4 DEF PressSent
    <3>2. DoRelease
      BY <1>1, <1>6, <3>1 DEF Operation, DoAdd, DoRemove, DoSend, DoPress, DoReleaseAll, Do
    <3>3. /\ Remove(k) /\ (IF CanRemove(k) THEN ThenSend ELSE Continue)
          /\ UNCHANGED wire
      BY <1>6, <3>1, <3>2 DEF DoRelease, Do
    <3>4. LastShown' = LastShown /\ (k \in Settled' <=> k \in Settled)
      BY <1>1, <3>3, SettledSame
    <3>5. k \notin Held'
      BY <1>5, <3>3, RemoveHolds
    <3>6. Released(k)' \/ Ended(k)'
      BY <1>1, <1>4, <2>4, <3>3, <3>4, <3>5 DEF PressSent, Released, Ended, Agreed
    <3> QED
      BY <3>6 DEF Stage
  <2>5. CASE Released(k)
    <3>1. Head(todo) = Send
      BY <1>4, <2>5 DEF Released
    <3>2. Ended(k)'
      BY <1>1, <1>4, <2>2, <2>5, <3>1 DEF Released, Ended, Agreed
    <3> QED
      BY <3>2 DEF Stage
  <2>6. ~Ended(k)
    BY <1>4 DEF Ended
  <2> QED
    BY <1>3, <2>1, <2>3, <2>4, <2>5, <2>6 DEF Stage
<1> QED
  BY <1>1, <1>3, <1>8

(* A step of the host that keeps goal and settled state together. *)
LEMMA WatchHost ==
  ASSUME WatchInv, UNCHANGED <<modifiers, keycodes, todo, command, watched, lost>>,
         LastShown' = LastShown,
         \A k \in LockKeys : (k \in goal' <=> k \in Settled') <=> (k \in goal <=> k \in Settled)
  PROVE  WatchInv'
<1>1. Held' = Held
  BY DEF Held
<1>2. \A k : CanAdd(k)' <=> CanAdd(k)
  BY DEF CanAdd, Shown, Free
<1>3. \A k \in LockKeys, b \in BOOLEAN :
        (k \in goal' <=> ~(k \in Settled' <=> b)) <=> (k \in goal <=> ~(k \in Settled <=> b))
  OBVIOUS
<1>4. \A k \in LockKeys : Stage(k) => Stage(k)'
  BY <1>1, <1>2, <1>3 DEF Stage, Beginning, Pressed, PressSent, Released, Ended, Agreed
<1> QED
  BY <1>4 DEF WatchInv

LEMMA NextWatchInv == IInv /\ IInv' /\ LocksInv /\ WatchInv /\ [LocksNext]_allVars => WatchInv'
<1> SUFFICES ASSUME IInv, IInv', LocksInv, WatchInv, [LocksNext]_allVars PROVE WatchInv'
  OBVIOUS
<1>1. CASE LockCommand
  BY <1>1, WatchCommand
<1>2. CASE LockOperation
  BY <1>2, WatchOperation
<1>3. CASE HostTakesLocks
  <2>1. UNCHANGED <<modifiers, keycodes, todo, command, watched, lost, goal>>
    BY <1>3 DEF HostTakesLocks, HostTakes
  <2>2. LastShown' = LastShown
    BY <1>3, TakeShows DEF IInv
  <2>3. \A k \in LockKeys : k \in Settled' <=> k \in Settled
    BY <1>3, TakeSettles DEF IInv
  <2> QED
    BY <2>1, <2>2, <2>3, WatchHost
<1>4. ASSUME NEW j \in LockKeys, OtherKeyboard(j)
      PROVE  WatchInv'
  <2>1. /\ UNCHANGED <<modifiers, keycodes, todo, command, watched, lost, wire, host>>
        /\ lockOn' = Toggle(lockOn, {j})
        /\ goal' = IF watched THEN Toggle(goal, {j}) ELSE goal
    BY <1>4 DEF OtherKeyboard, vars
  <2>2. CASE ~watched
    BY <2>1, <2>2 DEF WatchInv
  <2>3. CASE watched
    <3>1. Shows' = Shows
      BY <2>1 DEF Shows
    <3>2. LastShown' = LastShown
      BY <3>1 DEF LastShown
    <3>3. ASSUME NEW k \in LockKeys
          PROVE  (k \in goal' <=> k \in Settled') <=> (k \in goal <=> k \in Settled)
      <4>1. Edges(k)' = Edges(k)
        BY <3>1 DEF Edges, PressedAt
      <4>2. OddEdges(k)' <=> OddEdges(k)
        BY <4>1 DEF OddEdges
      <4>3. k \in Settled' <=> ~(k \in lockOn' <=> OddEdges(k)')
        BY DEF Settled, OddEdges, Edges
      <4>4. k \in lockOn' <=> ~(k \in lockOn <=> k = j)
        BY <2>1 DEF Toggle
      <4>5. k \in goal' <=> ~(k \in goal <=> k = j)
        BY <2>1, <2>3 DEF Toggle
      <4> QED
        BY <4>2, <4>3, <4>4, <4>5, SettledMeans
    <3> QED
      BY <2>1, <3>2, <3>3, WatchHost
  <2> QED
    BY <2>2, <2>3
<1>5. CASE UNCHANGED <<modifiers, keycodes, todo, wire, host, command, lost, lockOn, watched, goal>>
  <2>1. LastShown' = LastShown /\ \A k \in LockKeys : k \in Settled' <=> k \in Settled
    BY <1>5, SettledSame
  <2> QED
    BY <1>5, <2>1, WatchHost
<1>6. CASE ConfigureLocks
  <2>1. wire' = wire
    BY <1>6 DEF ConfigureLocks, Configure, LocksInv, Unplugged
  <2> QED
    BY <1>5, <1>6, <2>1 DEF ConfigureLocks, Configure
<1>7. CASE ResetLocks \/ BusResetLocks
  BY <1>7 DEF ResetLocks, BusResetLocks, WatchInv
<1> QED
  BY <1>1, <1>2, <1>3, <1>4, <1>5, <1>6, <1>7
     DEF LocksNext, LedReport, LedReportFails, allVars, lockVars, vars

(* Set*Lock, with both its reports sent, toggles its lock exactly once, for *)
(* any lock keys, slots and banks.                                          *)
THEOREM SetToggles == LocksSpec => []SetLockToggles
<1>1. LocksInit => WatchInv
  BY DEF LocksInit, WatchInv
<1>2. WatchInv => SetLockToggles
  <2> SUFFICES ASSUME WatchInv, watched, todo = <<>>, ~lost, NEW k \in command.keys
               PROVE  k \in Settled <=> k \in goal
    BY DEF SetLockToggles
  <2>1. Len(todo) = 0
    OBVIOUS
  <2>2. k \in LockKeys /\ Stage(k)
    BY DEF WatchInv
  <2>3. Ended(k)
    BY <2>1, <2>2 DEF Stage, Beginning, Pressed, PressSent, Released
  <2> QED
    BY <2>3 DEF Ended, Agreed
<1>3. LocksSpec => []IInv
  BY LocksWatchReport, Invariance, PTL
<1>4. IInv /\ IInv' /\ LocksInv /\ WatchInv /\ [LocksNext]_allVars => WatchInv'
  BY NextWatchInv
<1> QED
  BY <1>1, <1>2, <1>3, <1>4, LocksInvariance, PTL DEF LocksSpec

=============================================================================
