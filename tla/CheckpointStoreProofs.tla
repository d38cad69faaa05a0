----------------------- MODULE CheckpointStoreProofs -----------------------
(***************************************************************************)
(* What CreateCheckpoint keeps of an archive directory, for every bound on *)
(* the clock and every max_archives.                                       *)
(*                                                                         *)
(* The argument: while the history is orderly a name is taken from a clock *)
(* that has moved on since the last start, so the target of a call is new  *)
(* and is the newest archive from its creation on (RestedPast,             *)
(* NewestIsTarget); hence truncating it, or removing it after a failure,   *)
(* loses nothing, and rotation, which keeps the newest max_archives, never *)
(* dooms it (Spared).                                                      *)
(***************************************************************************)
EXTENDS CheckpointStore, FiniteSetTheorems, WellFoundedInduction, TLAPS

OnDisk(s) == disk[s] # "none"

StampsPast == target <= clock /\ (\A s \in Stamp : OnDisk(s) => s <= clock)

RestedPast ==
  rested => target < clock /\ (\A s \in Stamp : OnDisk(s) => s < clock)

NewestIsTarget == Writing => \A s \in Stamp : OnDisk(s) => s <= target

TargetStage ==
  /\ pc = "create" => disk[target] = "none"
  /\ pc \in {"write", "close"} => disk[target] = "partial"
  /\ pc \in {"rotate", "purge", "return"} => disk[target] = "good"

DoomedAreExcess ==
  pc = "purge" =>
    /\ limit > 0
    /\ \A s \in doomed \cap Stamp :
         Cardinality({t \in Archives(disk) : t > s}) >= limit

Spared == pc = "purge" => target \notin doomed

\* A foreign archive that is there sorts before the archives.
ForeignBefore == \A f \in Foreign : OnDisk(f) => f < 1

ResultFits ==
  /\ pc = "dry" => dryRun
  /\ pc = "down" => result = "none"

OrderInv ==
  /\ StampsPast
  /\ RestedPast
  /\ NewestIsTarget
  /\ TargetStage
  /\ DoomedAreExcess
  /\ Spared
  /\ ForeignBefore
  /\ ResultFits
  /\ SuccessIsComplete
  /\ AGoodArchiveSurvives

StoreInv == TypeOK /\ (orderly => OrderInv)

-----------------------------------------------------------------------------
\* Names are integers and the clock has a reading.
LEMMA OneIsAStamp == 1 \in Stamp /\ Stamp \subseteq Int
  BY StoreAssumption DEF Stamp

LEMMA NamesAreInts == Name \subseteq Int /\ Stamp \subseteq Name
  BY StoreAssumption, OneIsAStamp DEF Name

LEMMA ForeignApart == Foreign \subseteq Name /\ Foreign \cap Stamp = {}
  BY StoreAssumption DEF Name

LEMMA StoreTypeStep == TypeOK /\ [Next]_vars => TypeOK'
<1> SUFFICES ASSUME TypeOK, [Next]_vars PROVE TypeOK'
  OBVIOUS
<1> USE StoreAssumption DEF TypeOK, Writing, confVars, histVars
<1>1. CASE Start
  BY <1>1 DEF Start, Return
<1>2. CASE DryWalk
  BY <1>2 DEF DryWalk, Return
<1>3. CASE Create
  BY <1>3 DEF Create, Return, Remove
<1>4. CASE Write
  BY <1>4 DEF Write, Return, Remove
<1>5. CASE Close
  BY <1>5 DEF Close
<1>6. CASE EnforceRotation
  BY <1>6 DEF EnforceRotation, Excess, Archives
<1>7. CASE Purge
  BY <1>7 DEF Purge, Remove
<1>8. CASE ReturnOk
  BY <1>8 DEF ReturnOk, Return
<1>9. CASE Tick
  BY <1>9 DEF Tick, callVars, Stamp
<1>10. CASE StepBack
  <2>1. clock' \in Stamp
    BY <1>10 DEF StepBack, Stamp
  <2> QED
    BY <1>10, <2>1 DEF StepBack, callVars
<1>11. CASE DropForeign
  BY <1>11 DEF DropForeign, callVars
<1>12. CASE Crash
  BY <1>12 DEF Crash
<1>13. CASE Boot
  BY <1>13 DEF Boot
<1>14. CASE UNCHANGED vars
  BY <1>14 DEF vars, callVars
<1> QED
  BY <1>1, <1>2, <1>3, <1>4, <1>5, <1>6, <1>7, <1>8, <1>9, <1>10, <1>11,
     <1>12, <1>13, <1>14 DEF Next, CreateCheckpoint

\* Every variable keeps its type, whatever the clock, the flushes and other
\* people do.
THEOREM StoreTypeCorrect == Spec => []TypeOK
<1>1. Init => TypeOK
  BY OneIsAStamp DEF Init, TypeOK, Writing, NoName
<1> QED
  BY <1>1, StoreTypeStep, PTL DEF Spec

-----------------------------------------------------------------------------
LEMMA StoreInit == Init => StoreInv
<1> SUFFICES ASSUME Init PROVE StoreInv
  OBVIOUS
<1>1. TypeOK
  BY OneIsAStamp DEF Init, TypeOK, Writing, NoName
<1>2. /\ \A s \in Stamp : disk[s] = "none"
      /\ \A s \in Foreign : disk[s] = "none"
  BY NamesAreInts, ForeignApart DEF Init
<1> QED
  BY <1>1, <1>2
  DEF Init, StoreInv, OrderInv, ForeignBefore, StampsPast, RestedPast, NewestIsTarget,
      TargetStage, DoomedAreExcess, Spared, ResultFits, SuccessIsComplete,
      AGoodArchiveSurvives, Succeeded, Writing, NoName, OnDisk

\* The newest archive has no newer one, so no rotation dooms it.
LEMMA NewestIsSpared ==
  ASSUME TypeOK, OrderInv, pc = "rotate", limit > 0
  PROVE  target \notin Excess(disk)
<1>1. ASSUME NEW t \in Archives(disk) PROVE ~(t > target)
  <2>1. target \in Int /\ target >= 1 /\ t \in Int
    BY NamesAreInts DEF TypeOK, Writing, Archives, Stamp
  <2>2. CASE t \in Stamp
    BY <2>1, <2>2
    DEF OrderInv, NewestIsTarget, Writing, OnDisk, Archives
  <2>3. CASE t \in Foreign
    BY <2>1, <2>3 DEF OrderInv, ForeignBefore, OnDisk, Archives
  <2> QED
    BY <2>2, <2>3 DEF Archives, Name
<1>2. Cardinality({t \in Archives(disk) : t > target}) = 0
  <2>1. {t \in Archives(disk) : t > target} = {}
    BY <1>1
  <2> QED
    BY <2>1, FS_EmptySet
<1> QED
  BY <1>2, StoreAssumption DEF Excess, TypeOK

\* Rotation works upwards, so what it still has to remove keeps its excess.
LEMMA RemovalKeepsNewer ==
  ASSUME TypeOK, NEW s \in doomed, NEW t \in Stamp, s <= t, Remove(s, TRUE)
  PROVE  {u \in Archives(disk') : u > t} = {u \in Archives(disk) : u > t}
<1> DEFINE Newer(d) == {u \in Archives(d) : u > t}
<1>1. s \in Name /\ s \in Int /\ t \in Int
  BY StoreAssumption DEF TypeOK, Name, Stamp
<1>2. ASSUME NEW u \in Name, u > t PROVE disk'[u] = disk[u]
  <2>1. u \in Int
    BY StoreAssumption DEF Name, Stamp
  <2>2. u # s
    BY <1>1, <1>2, <2>1
  <2> QED
    BY <2>2, <1>1 DEF Remove, TypeOK
<1> QED
  BY <1>2 DEF Archives

\* What has gone wrong stays gone wrong.
LEMMA OrderlyBefore == [Next]_vars /\ orderly' => orderly
  BY DEF Next, CreateCheckpoint, Start, DryWalk, Create, Write, Close,
         EnforceRotation, Purge, ReturnOk, Tick, StepBack, DropForeign,
         Crash, Boot, histVars, vars

LEMMA StoreStep == StoreInv /\ [Next]_vars => StoreInv'
<1> SUFFICES ASSUME TypeOK, OrderInv, orderly, orderly', [Next]_vars, TypeOK'
             PROVE  OrderInv'
  BY StoreTypeStep, OrderlyBefore DEF StoreInv
<1> USE OneIsAStamp, NamesAreInts, ForeignApart
    DEF OrderInv, TypeOK, StampsPast, RestedPast, NewestIsTarget,
        TargetStage, DoomedAreExcess, Spared, ForeignBefore, ResultFits,
        SuccessIsComplete, AGoodArchiveSurvives, Succeeded, Writing, NoName, OnDisk,
        confVars, histVars
<1>20. clock \in Int /\ NoName < clock
  BY StoreAssumption DEF Stamp
<1>1. CASE Start
  <2>1. CASE dryRun /\ target' = clock /\ pc' = "dry" /\ UNCHANGED result
    BY <1>20, <1>1, <2>1 DEF Start
  <2>3. CASE ~dryRun /\ target' = clock /\ pc' = "create" /\ UNCHANGED result
    BY <1>20, <1>1, <2>3 DEF Start
  <2>2. CASE target' = NoName /\ Return("fail")
    BY <1>20, <1>1, <2>2 DEF Start, Return
  <2> QED
    BY <1>1, <2>1, <2>2, <2>3 DEF Start
<1>2. CASE DryWalk
  BY <1>2 DEF DryWalk, Return
<1>3. CASE Create
  BY <1>3 DEF Create, Return, Remove
<1>4. CASE Write
  BY <1>4 DEF Write, Return, Remove
<1>5. CASE Close
  BY <1>5 DEF Close
<1>6. CASE EnforceRotation
  BY <1>6, NewestIsSpared DEF EnforceRotation, Excess
<1>7. CASE Purge
  <2>1. CASE doomed = {} /\ UNCHANGED <<disk, doomed>> /\ pc' = "return"
    BY <1>7, <2>1 DEF Purge
  <2>2. ASSUME NEW s \in doomed, NEW removed \in BOOLEAN,
               \A t \in doomed : s <= t, Remove(s, removed),
               doomed' = doomed \ {s}, UNCHANGED pc
        PROVE  OrderInv'
    <3>1. s \in Name /\ s # target
      BY <1>7 DEF Purge
    <3>2. disk'[target] = "good"
      BY <1>7, <2>2, <3>1 DEF Purge, Remove
    <3>3. \A t \in Name : disk'[t] # "none" => disk'[t] = disk[t]
      BY <2>2, <3>1 DEF Remove
    <3>4. DoomedAreExcess'
      <4>1. ASSUME NEW t \in doomed' \cap Stamp
            PROVE  Cardinality({u \in Archives(disk') : u > t})
                     >= limit
        <5>1. CASE removed
          BY <1>7, <2>2, <4>1, <5>1, RemovalKeepsNewer DEF Purge
        <5>2. CASE ~removed
          BY <1>7, <2>2, <4>1, <5>2 DEF Purge, Remove
        <5> QED
          BY <5>1, <5>2
      <4> QED
        BY <1>7, <2>2, <4>1 DEF Purge
    <3> QED
      BY <1>7, <2>2, <3>1, <3>2, <3>3, <3>4 DEF Purge
  <2> QED
    BY <1>7, <2>1, <2>2 DEF Purge
<1>8. CASE ReturnOk
  BY <1>8 DEF ReturnOk, Return
<1>9. CASE Tick
  BY <1>9 DEF Tick, callVars
<1>10. CASE StepBack
  BY <1>10 DEF StepBack
<1>11. CASE DropForeign
  <2>1. \A s \in Stamp : disk'[s] = disk[s]
    BY <1>11 DEF DropForeign
  <2>2. ASSUME NEW t \in Stamp
        PROVE  {u \in Archives(disk') : u > t} = {u \in Archives(disk) : u > t}
    <3>1. ForeignBefore /\ ForeignBefore'
      BY <1>11 DEF DropForeign
    <3>2. t \in Int /\ t >= 1
      BY StoreAssumption DEF Stamp
    <3>3. \A u \in Name : u > t => u \in Int /\ (u \in Stamp \/ u \in Foreign)
      BY DEF Name
    <3>4. \A u \in Foreign : OnDisk(u) \/ OnDisk(u)' => ~(u > t)
      BY <3>1, <3>2
    <3>5. \A u \in Name : u > t => (disk'[u] # "none" <=> disk[u] # "none")
      BY <2>1, <3>3, <3>4
    <3> QED
      BY <3>5 DEF Archives
  <2>3. DoomedAreExcess'
    BY <1>11, <2>2 DEF DropForeign, callVars
  <2> QED
    BY <1>11, <2>1, <2>3 DEF DropForeign, callVars
<1>12. CASE Crash
  BY <1>20, <1>12 DEF Crash
<1>13. CASE Boot
  BY <1>13 DEF Boot
<1>14. CASE UNCHANGED vars
  BY <1>14 DEF vars, callVars, Archives
<1> QED
  BY <1>1, <1>2, <1>3, <1>4, <1>5, <1>6, <1>7, <1>8, <1>9, <1>10, <1>11,
     <1>12, <1>13, <1>14 DEF Next, CreateCheckpoint

-----------------------------------------------------------------------------
LEMMA StoreInvariant == Spec => []StoreInv
<1>1. StoreInv /\ [Next]_vars => StoreInv'
  BY StoreStep
<1> QED
  BY <1>1, StoreInit, PTL DEF Spec

\* CreateCheckpoint answers success only for an archive that is complete and
\* still there after its own rotation.
THEOREM SuccessMeansComplete == Spec => []SuccessIsComplete
<1>1. StoreInv => SuccessIsComplete
  BY DEF StoreInv, OrderInv, SuccessIsComplete
<1> QED
  BY <1>1, StoreInvariant, PTL

\* Once one complete archive was written there is always one, whichever
\* system call of a later attempt fails and wherever the process dies.
THEOREM GoodArchiveSurvives ==
  Spec => []AGoodArchiveSurvives
<1>1. StoreInv => AGoodArchiveSurvives
  BY DEF StoreInv, OrderInv, AGoodArchiveSurvives
<1> QED
  BY <1>1, StoreInvariant, PTL

\* Only rotation takes a complete archive away.
LEMMA OnlyPurgeLosesGood ==
  ASSUME StoreInv, orderly, [Next]_vars,
         NEW s \in Stamp, disk[s] = "good", disk'[s] # "good"
  PROVE  pc = "purge" /\ s \in doomed /\ Remove(s, TRUE)
<1> USE NamesAreInts, ForeignApart DEF StoreInv, OrderInv, TypeOK, TargetStage
<1>1. CASE Create
  BY <1>1 DEF Create, Remove
<1>2. CASE Write
  BY <1>2 DEF Write, Remove
<1>3. CASE Close
  BY <1>3 DEF Close
<1>4. CASE Purge
  BY <1>4 DEF Purge, Remove
<1>5. CASE DropForeign
  BY <1>5 DEF DropForeign
<1>6. CASE UNCHANGED disk
  BY <1>6
<1> QED
  BY <1>1, <1>2, <1>3, <1>4, <1>5, <1>6
  DEF Next, CreateCheckpoint, Start, DryWalk, EnforceRotation, ReturnOk,
      Tick, StepBack, Crash, Boot, vars

\* Rotation never takes a complete archive while fewer than max_archives
\* newer ones would be left.
THEOREM OnlyExcessIsDeleted == Spec => OnlyExcessDeleted
<1> DEFINE A == \A s \in Stamp :
                  orderly /\ disk[s] = "good" /\ disk'[s] # "good" =>
                    Cardinality({t \in Archives(disk') : t > s})
                      >= limit
<1>1. StoreInv /\ [Next]_vars => A
  <2> SUFFICES ASSUME StoreInv, [Next]_vars, NEW s \in Stamp, orderly,
                      disk[s] = "good", disk'[s] # "good"
               PROVE  Cardinality({t \in Archives(disk') : t > s})
                        >= limit
    OBVIOUS
  <2>1. pc = "purge" /\ s \in doomed /\ Remove(s, TRUE)
    BY OnlyPurgeLosesGood
  <2>2. s <= s
    BY OneIsAStamp
  <2>3. {t \in Archives(disk') : t > s} = {t \in Archives(disk) : t > s}
    BY <2>1, <2>2, RemovalKeepsNewer DEF StoreInv
  <2> QED
    BY <2>1, <2>3 DEF StoreInv, OrderInv, DoomedAreExcess
<1>2. StoreInv /\ [Next]_vars => [A]_vars
  BY <1>1
<1> QED
  BY <1>2, StoreInvariant, PTL DEF Spec, OnlyExcessDeleted, A

\* With max_archives unset no complete archive is ever lost.
THEOREM UnsetLosesNothing == Spec => UnsetKeepsAll
<1> DEFINE A == orderly /\ limit <= 0 =>
                  \A s \in Stamp : disk[s] = "good" => disk'[s] = "good"
<1>1. StoreInv /\ [Next]_vars => A
  <2>1. StoreInv /\ orderly /\ limit <= 0 => pc # "purge"
    BY StoreAssumption DEF StoreInv, OrderInv, TypeOK, DoomedAreExcess
  <2> QED
    BY <2>1, OnlyPurgeLosesGood
<1>2. StoreInv /\ [Next]_vars => [A]_vars
  BY <1>1
<1> QED
  BY <1>2, StoreInvariant, PTL DEF Spec, UnsetKeepsAll, A

-----------------------------------------------------------------------------
(***************************************************************************)
(* Rotation's bound, which needs no orderly history.  What is kept has     *)
(* fewer than max_archives names after it; its oldest name has all the     *)
(* others after it, so they are at most max_archives.                      *)
(***************************************************************************)
Stamped == {s \in Archives(disk) : s \in Stamp}

BoundInv ==
  /\ pc = "dry" => dryRun
  /\ pc = "down" => result = "none"
  /\ clean /\ limit > 0 =>
       /\ pc = "purge" => Cardinality(Stamped \ doomed) <= limit
       /\ pc = "return" \/ Succeeded => Cardinality(Stamped) <= limit

\* A set of numbers that is not empty has a least one.
LEMMA LeastNumber ==
  ASSUME NEW K \in SUBSET Nat, K # {}
  PROVE  \E m \in K : \A k \in K : m <= k
<1> DEFINE Less == OpToRel(<, Nat)
<1>1. IsWellFoundedOn(Less, Nat)
  BY NatLessThanWellFounded
<1>2. \A i, j \in Nat : <<i, j>> \in Less <=> i < j
  BY DEF OpToRel
<1> HIDE DEF Less
<1>3. PICK m \in K : \A k \in K : ~(<<k, m>> \in Less)
  BY <1>1, WFMin
<1>4. ASSUME NEW k \in K PROVE m <= k
  <2>1. m \in Nat /\ k \in Nat
    OBVIOUS
  <2>2. ~(k < m)
    BY <1>2, <1>3, <2>1
  <2> QED
    BY <2>1, <2>2
<1> QED
  BY <1>4

\* Any set of archives is finite.
LEMMA NamesFinite ==
  ASSUME NEW S \in SUBSET Name
  PROVE  IsFiniteSet(S) /\ Cardinality(S) \in Nat
<1>1. IsFiniteSet(Stamp)
  BY StoreAssumption, FS_Interval DEF Stamp
<1>2. IsFiniteSet(Name)
  BY <1>1, StoreAssumption, FS_Union DEF Name
<1> QED
  BY <1>2, FS_Subset, FS_CardinalityType

\* What the sorted listing leaves after archives[:len-max] is at most max.
LEMMA KeptBound ==
  ASSUME TypeOK, limit > 0
  PROVE  Cardinality(Stamped \ Excess(disk)) <= limit
<1> DEFINE K == Stamped \ Excess(disk)
<1>1. limit \in Int
  BY StoreAssumption DEF TypeOK
<1>2. K \subseteq Nat /\ K \subseteq Name /\ K \subseteq Archives(disk)
  <2>1. Stamp \subseteq Nat
    BY StoreAssumption DEF Stamp
  <2>2. K \subseteq Stamp /\ K \subseteq Archives(disk)
    BY DEF Stamped
  <2> QED
    BY <2>1, <2>2 DEF Archives
<1>3. CASE K = {}
  BY <1>1, <1>3, FS_EmptySet
<1>4. CASE K # {}
  <2>1. PICK m \in K : \A k \in K : m <= k
    BY <1>2, <1>4, LeastNumber
  <2> DEFINE Later == {t \in Archives(disk) : t > m}
  <2>2. IsFiniteSet(K) /\ Cardinality(K) \in Nat
    BY <1>2, NamesFinite
  <2>3. IsFiniteSet(Later) /\ Cardinality(Later) \in Nat
    BY NamesFinite DEF Archives
  <2>4. K \ {m} \subseteq Later
    BY <1>2, <2>1
  <2>5. Cardinality(K \ {m}) = Cardinality(K) - 1
    BY <2>2, FS_RemoveElement
  <2>6. Cardinality(K \ {m}) <= Cardinality(Later)
    BY <2>3, <2>4, FS_Subset
  <2>7. ~(Cardinality(Later) >= limit)
    BY <1>2 DEF Excess
  <2> QED
    BY <1>1, <2>2, <2>3, <2>5, <2>6, <2>7
<1> QED
  BY <1>3, <1>4

\* Every step keeps the bound: only a call of CreateCheckpoint touches the
\* archives that count, and it is bound again before it returns.
LEMMA BoundStep ==
  ASSUME TypeOK, BoundInv, [Next]_vars
  PROVE  BoundInv'
<1> USE DEF BoundInv, Succeeded, confVars, histVars
<1>1. CASE Start
  BY <1>1 DEF Start, Return
<1>2. CASE DryWalk
  BY <1>2 DEF DryWalk, Return
<1>3. CASE Create
  BY <1>3 DEF Create, Return
<1>4. CASE Write
  BY <1>4 DEF Write, Return
<1>5. CASE Close
  BY <1>5 DEF Close
<1>6. CASE EnforceRotation
  <2>1. limit \in Int
    BY StoreAssumption DEF TypeOK
  <2>2. CASE limit <= 0 /\ pc' = "return"
    BY <1>6, <2>1, <2>2 DEF EnforceRotation
  <2>3. CASE pc' = "return" /\ clean' = FALSE
    BY <1>6, <2>3 DEF EnforceRotation
  <2>4. CASE limit > 0 /\ doomed' = Excess(disk) /\ pc' = "purge"
    <3>1. Stamped' = Stamped /\ limit' = limit
      BY <1>6 DEF EnforceRotation, Stamped
    <3> QED
      BY <2>4, <3>1, KeptBound
  <2> QED
    BY <1>6, <2>2, <2>3, <2>4 DEF EnforceRotation
<1>7. CASE Purge
  <2>1. CASE doomed = {} /\ pc' = "return" /\ UNCHANGED <<disk, doomed, clean>>
    <3>1. Stamped' = Stamped /\ Stamped \ doomed = Stamped
      BY <2>1 DEF Stamped
    <3> QED
      BY <1>7, <2>1, <3>1 DEF Purge
  <2>2. ASSUME NEW s \in doomed, NEW removed \in BOOLEAN, Remove(s, removed),
               doomed' = doomed \ {s}, clean' = (clean /\ removed), UNCHANGED pc
        PROVE  BoundInv'
    <3>1. CASE removed
      <4>1. disk' = [disk EXCEPT ![s] = "none"] /\ s \in Name
        BY <2>2, <3>1 DEF Remove, TypeOK
      <4>2. Archives(disk') = Archives(disk) \ {s}
        BY <4>1 DEF Archives, TypeOK
      <4>3. Stamped' = Stamped \ {s}
        BY <4>2 DEF Stamped
      <4>4. (Stamped \ doomed)' = Stamped \ doomed
        BY <2>2, <4>3
      <4> QED
        BY <1>7, <2>2, <4>4 DEF Purge
    <3>2. CASE ~removed
      BY <1>7, <2>2, <3>2 DEF Purge
    <3> QED
      BY <3>1, <3>2
  <2> QED
    BY <1>7, <2>1, <2>2 DEF Purge
<1>8. CASE ReturnOk
  <2>1. Stamped' = Stamped
    BY <1>8 DEF ReturnOk, Stamped
  <2> QED
    BY <1>8, <2>1 DEF ReturnOk, Return
<1>9. CASE Crash
  BY <1>9 DEF Crash
<1>10. CASE Boot
  BY <1>10 DEF Boot
<1>11. ASSUME UNCHANGED <<confVars, callVars>>, Stamped' = Stamped PROVE BoundInv'
  BY <1>11 DEF callVars
<1>12. CASE DropForeign
  <2>1. \A s \in Stamp : disk'[s] = disk[s]
    BY <1>12, ForeignApart, NamesAreInts DEF DropForeign, TypeOK
  <2>2. Stamped' = Stamped
    BY <2>1 DEF Stamped, Archives
  <2> QED
    BY <1>11, <1>12, <2>2 DEF DropForeign
<1>13. CASE Tick \/ StepBack \/ UNCHANGED vars
  <2>1. Stamped' = Stamped
    BY <1>13 DEF Tick, StepBack, vars, Stamped
  <2> QED
    BY <1>11, <1>13, <2>1 DEF Tick, StepBack, vars
<1> QED
  BY <1>1, <1>2, <1>3, <1>4, <1>5, <1>6, <1>7, <1>8, <1>9, <1>10, <1>12, <1>13
  DEF Next, CreateCheckpoint

\* After a rotation that met no failing call at most max_archives archives are
\* left, for every max_archives, whatever was there before and whatever the
\* clock did.
THEOREM RotationIsBound == Spec => []RotationBounds
<1>1. Init => BoundInv
  BY DEF Init, BoundInv, Succeeded
<1>2. BoundInv => RotationBounds
  BY DEF BoundInv, RotationBounds, Stamped
<1> QED
  BY <1>1, <1>2, BoundStep, StoreTypeCorrect, PTL DEF Spec
=============================================================================
