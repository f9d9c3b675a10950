----------------------------- MODULE Rules_proofs -----------------------------
(***************************************************************************)
(* What the rules promise for every value of their constants: of a price,  *)
(* of the database file, of a day of study and of the questions that are   *)
(* answered in one step.                                                   *)
(*                                                                         *)
(* Two facts carry the inductions: a set of numbers that is not empty has  *)
(* a least one (LeastNumber), and a fold from the left over n places has   *)
(* the values its recursion describes (FoldsExist).  A formula about the   *)
(* first i places then holds of all, or the least i it fails for follows   *)
(* one it holds for.                                                       *)
(***************************************************************************)
EXTENDS Rules, FiniteSetTheorems, SequenceTheorems, WellFoundedInduction, TLAPS

-----------------------------------------------------------------------------
(***************************************************************************)
(* Pricing.  A hold bounds what its call is charged, for every price, size, *)
(* count and unit.  It comes down to rounding up being monotone: the        *)
(* estimate and the cost are the same sum of two rounded products, and each *)
(* part of the cost is at most its part of the estimate.                    *)
(***************************************************************************)

\* Division by a positive number gives the quotient its name describes.
LEMMA DivBounds ==
    ASSUME NEW n \in Nat, NEW d \in Nat \ {0}
    PROVE  /\ n \div d \in Nat
           /\ d * (n \div d) <= n
           /\ n < d * (n \div d) + d
BY Z3

\* A product grows with either factor.
LEMMA ProductGrows ==
    ASSUME NEW m \in Nat, NEW n \in Nat, NEW p \in Nat, m <= n
    PROVE  m * p \in Nat /\ n * p \in Nat /\ m * p <= n * p
<1>1. PICK k \in Nat : n = m + k
    <2>1. n - m \in Nat /\ n = m + (n - m)
        OBVIOUS
    <2> QED
        BY <2>1
<1>2. n * p = m * p + k * p
    BY <1>1
<1>3. k * p \in Nat /\ m * p \in Nat
    BY SMT
<1> QED
    BY <1>2, <1>3

\* So does a rounded quotient, and it is at least 1 once there is anything to round.
LEMMA CeilGrows ==
    ASSUME NEW m \in Nat, NEW n \in Nat, NEW d \in Nat \ {0}, m <= n
    PROVE  /\ Ceil(m, d) \in Nat /\ Ceil(n, d) \in Nat
           /\ Ceil(m, d) <= Ceil(n, d)
           /\ n > 0 => Ceil(n, d) > 0
<1> DEFINE q == (m + d - 1) \div d
           r == (n + d - 1) \div d
<1>1. m + d - 1 \in Nat /\ n + d - 1 \in Nat
    OBVIOUS
<1>2. /\ q \in Nat /\ d * q <= m + d - 1
      /\ r \in Nat /\ n + d - 1 < d * r + d
    BY <1>1, DivBounds
<1>3. d * q < d * r + d
    BY <1>2
<1>4. q <= r
    <2> SUFFICES ASSUME q > r PROVE FALSE
        BY <1>2
    <2> HIDE DEF q, r
    <2>1. r + 1 <= q /\ r + 1 \in Nat
        BY <1>2
    <2>2. (r + 1) * d <= q * d
        BY <2>1, <1>2, ProductGrows
    <2>3. (r + 1) * d = r * d + d
        BY <1>2
    <2>4. q * d = d * q /\ r * d = d * r
        BY <1>2
    <2>5. d * q \in Nat /\ d * r \in Nat
        BY <1>2
    <2> QED
        BY <2>2, <2>3, <2>4, <2>5, <1>3
<1>5. n > 0 => r > 0
    <2> SUFFICES ASSUME n > 0, r = 0 PROVE FALSE
        BY <1>2
    <2> HIDE DEF r
    <2>1. d * r = 0
        BY <1>2
    <2> QED
        BY <2>1, <1>2
<1> QED
    BY <1>2, <1>4, <1>5 DEF Ceil

\* The figure for a call grows with its tokens.
LEMMA MinorGrows ==
    ASSUME NEW r \in Request, NEW i \in Nat, NEW j \in Nat, NEW o \in Nat, NEW p \in Nat,
           i <= j, o <= p
    PROVE  /\ Minor(r, i, o) \in Nat /\ Minor(r, j, p) \in Nat
           /\ Minor(r, i, o) <= Minor(r, j, p)
           /\ p > 0 /\ r.outputPrice > 0 => Minor(r, j, p) > 0
           /\ j > 0 /\ r.inputPrice > 0 => Minor(r, j, p) > 0
<1>1. r.inputPrice \in Nat /\ r.outputPrice \in Nat /\ Million \in Nat \ {0}
    BY PricingAssumption DEF Request
<1>2. /\ i * r.inputPrice \in Nat /\ j * r.inputPrice \in Nat
      /\ i * r.inputPrice <= j * r.inputPrice
    BY <1>1, ProductGrows
<1>3. /\ o * r.outputPrice \in Nat /\ p * r.outputPrice \in Nat
      /\ o * r.outputPrice <= p * r.outputPrice
    BY <1>1, ProductGrows
<1>4. /\ Ceil(i * r.inputPrice, Million) \in Nat
      /\ Ceil(j * r.inputPrice, Million) \in Nat
      /\ Ceil(i * r.inputPrice, Million) <= Ceil(j * r.inputPrice, Million)
      /\ j * r.inputPrice > 0 => Ceil(j * r.inputPrice, Million) > 0
    BY <1>1, <1>2, CeilGrows
<1>5. /\ Ceil(o * r.outputPrice, Million) \in Nat
      /\ Ceil(p * r.outputPrice, Million) \in Nat
      /\ Ceil(o * r.outputPrice, Million) <= Ceil(p * r.outputPrice, Million)
      /\ p * r.outputPrice > 0 => Ceil(p * r.outputPrice, Million) > 0
    BY <1>1, <1>3, CeilGrows
<1>6. /\ p > 0 /\ r.outputPrice > 0 => p * r.outputPrice > 0
      /\ j > 0 /\ r.inputPrice > 0 => j * r.inputPrice > 0
    <2>1. ASSUME NEW x \in Nat, NEW y \in Nat, x > 0, y > 0 PROVE x * y > 0
        <3>1. 1 <= x /\ 1 * y <= x * y /\ x * y \in Nat
            BY <2>1, ProductGrows
        <3> QED
            BY <2>1, <3>1
    <2> QED
        BY <2>1, <1>1
<1> QED
    BY <1>4, <1>5, <1>6 DEF Minor

\* The estimate is for so many tokens, all of them naturals.
LEMMA BoundsAreNat ==
    ASSUME NEW r \in Request
    PROVE  BoundedInput(r) \in Nat /\ AtLeastOne(r.maxOutput) \in Nat \ {0}
<1>1. r.chars \in Nat /\ r.counted \in Nat \cup {NoCount} /\ r.maxOutput \in Nat
    BY DEF Request
<1>2. Ceil(r.chars, CharsPerToken) \in Nat
    BY <1>1, CeilGrows, PricingAssumption
<1> QED
    BY <1>1, <1>2 DEF BoundedInput, AtLeastOne

\* What the code computes is well defined and as large as it must be.
Inv == /\ TypeOK
       /\ held # NotYet => held = estimateAttemptMinor(request)
       /\ charged # NotYet => held # NotYet /\ charged = ChargeFor(request, answer, held)

LEMMA EstimateIsPositive ==
    ASSUME NEW r \in Request
    PROVE  /\ estimateAttemptMinor(r) \in Nat
           /\ r.outputPrice > 0 => estimateAttemptMinor(r) > 0
BY BoundsAreNat, MinorGrows DEF estimateAttemptMinor

LEMMA ChargeIsNat ==
    ASSUME NEW r \in Request, NEW u \in [input : Nat, output : Nat], NEW h \in Nat
    PROVE  ChargeFor(r, u, h) \in Nat
<1>1. costForTokens(r, u) \in Nat
    BY MinorGrows DEF costForTokens
<1> QED
    BY <1>1 DEF ChargeFor

LEMMA SpecInv == Spec => []Inv
<1>1. Init => Inv
    <2> SUFFICES ASSUME Init PROVE Inv
        OBVIOUS
    <2>1. request \in Request
        BY PricingAssumption DEF Init, Request
    <2> QED
        BY <2>1 DEF Init, Inv, TypeOK
<1>2. Inv /\ [Next]_vars => Inv'
    <2> SUFFICES ASSUME Inv, [Next]_vars PROVE Inv'
        OBVIOUS
    <2>1. request \in Request
        BY DEF Inv, TypeOK
    <2>2. CASE Hold
        <3>1. estimateAttemptMinor(request) \in Nat
            BY <2>1, EstimateIsPositive
        <3> QED
            BY <2>2, <3>1 DEF Hold, Inv, TypeOK, NotYet
    <2>3. CASE Charge
        <3>1. held \in Nat /\ UNCHANGED <<request, held>>
            BY <2>3 DEF Charge, Inv, TypeOK
        <3>2. answer' \in [input : Nat, output : Nat]
            BY <2>3, PricingAssumption DEF Charge
        <3>3. charged' = ChargeFor(request, answer', held) /\ charged' \in Nat
            BY <2>1, <2>3, <3>1, <3>2, ChargeIsNat DEF Charge
        <3>4. charged' = ChargeFor(request', answer', held')
            BY <3>1, <3>3
        <3> QED
            BY <2>3, <3>1, <3>2, <3>3, <3>4 DEF Charge, Inv, TypeOK
    <2>4. CASE UNCHANGED vars
        BY <2>4 DEF vars, Inv, TypeOK
    <2> QED
        BY <2>2, <2>3, <2>4 DEF Next
<1> QED
    BY <1>1, <1>2, PTL DEF Spec

\* A call keeps to its types: prices, sizes and amounts are numbers.
THEOREM SpecTypeOK == Spec => []TypeOK
<1>1. Inv => TypeOK
    BY DEF Inv
<1> QED
    BY <1>1, SpecInv, PTL

\* A call that stays within what it was priced for is never charged more than
\* the hold that was checked against the caps.
THEOREM SpecHoldBoundsCharge == Spec => []HoldBoundsCharge
<1>1. Inv => HoldBoundsCharge
    <2> SUFFICES ASSUME Inv, charged # NotYet, WithinBounds PROVE charged <= held
        BY DEF HoldBoundsCharge
    <2>1. /\ request \in Request /\ answer \in [input : Nat, output : Nat]
          /\ held \in Nat /\ held = estimateAttemptMinor(request)
          /\ charged = ChargeFor(request, answer, held)
        BY DEF Inv, TypeOK
    <2>2. costForTokens(request, answer) <= estimateAttemptMinor(request)
        BY <2>1, BoundsAreNat, MinorGrows
        DEF WithinBounds, costForTokens, estimateAttemptMinor
    <2> QED
        BY <2>1, <2>2 DEF ChargeFor
<1> QED
    BY <1>1, SpecInv, PTL

\* No call of a priced model is held at nothing or charged nothing.
THEOREM SpecNoPaidCallIsFree == Spec => []NoPaidCallIsFree
<1>1. Inv => NoPaidCallIsFree
    <2> SUFFICES ASSUME Inv PROVE NoPaidCallIsFree
        OBVIOUS
    <2>1. request \in Request /\ answer \in [input : Nat, output : Nat]
        BY DEF Inv, TypeOK
    <2>2. held # NotYet /\ request.outputPrice > 0 => held > 0
        BY <2>1, EstimateIsPositive DEF Inv
    <2>3. ASSUME charged # NotYet, request.inputPrice > 0, request.outputPrice > 0
          PROVE  charged > 0
        <3>1. held # NotYet /\ charged = ChargeFor(request, answer, held)
            BY <2>3 DEF Inv
        <3>2. CASE answer.input > 0 \/ answer.output > 0
            <4>1. costForTokens(request, answer) > 0
                BY <2>1, <2>3, <3>2, MinorGrows DEF costForTokens
            <4> QED
                BY <3>1, <3>2, <4>1 DEF ChargeFor
        <3>3. CASE ~(answer.input > 0 \/ answer.output > 0)
            BY <2>2, <2>3, <3>1, <3>3 DEF ChargeFor
        <3> QED
            BY <3>2, <3>3
    <2> QED
        BY <2>2, <2>3 DEF NoPaidCallIsFree
<1> QED
    BY <1>1, SpecInv, PTL

-----------------------------------------------------------------------------
(***************************************************************************)
(* Storage.  That migrations apply once and that a finished restore leaves *)
(* the backup, for any number of processes, migrations, writes and deaths. *)
(***************************************************************************)

StorageTypeOK ==
    /\ migrated \subseteq Versions
    /\ ran \in [Versions -> Nat]
    /\ server \in [Servers -> [at : {"down", "applying", "up"}, read : SUBSET Versions,
                               next : 1 .. Migrations + 1]]
    /\ tool \in [at : {"idle", "checked", "copied", "cleared", "restored", "mismatch"},
                 source : Nat \cup {None}]
    /\ main \in Nat
    /\ log \in [over : Nat, gives : Nat] \cup {None}
    /\ saved \in Nat \cup {None}

\* A process that is applying has read no migration that is not applied, and
\* those it has come past are applied, whoever applied them.
StartsFollowTheRows ==
    /\ \A m \in Versions : ran[m] = IF m \in migrated THEN 1 ELSE 0
    /\ \A m \in migrated : 1 .. m \subseteq migrated
    /\ \A s \in Servers :
          /\ server[s].at = "applying" => /\ server[s].read \subseteq migrated
                                          /\ 1 .. server[s].next - 1 \subseteq migrated
          /\ server[s].at = "up" => migrated = Versions

\* From its check to its end a restore has the file to itself, and each of its
\* steps leaves what the next one relies on.
RestoreHasTheFile ==
    /\ tool.at \in {"checked", "copied", "cleared", "mismatch"} =>
          AllDown /\ tool.source = saved /\ saved # None
    /\ tool.at \in {"copied", "cleared"} => main = saved
    /\ tool.at = "cleared" => log = None

StorageInv == StorageTypeOK /\ StartsFollowTheRows /\ RestoreHasTheFile

\* A process that opens a file finds contents, as long as the parts are.
LEMMA FoundType == ASSUME StorageTypeOK PROVE Found \in Nat
  BY StorageAssumption DEF Found, Mixed, StorageTypeOK

\* An installation starts with the first migrations applied, and no tool.
LEMMA StorageInvInit == StorageInit => StorageInv
<1> SUFFICES ASSUME StorageInit PROVE StorageInv
  OBVIOUS
<1>1. PICK n \in 0 .. Migrations : migrated = 1 .. n
  BY DEF StorageInit
<1>2. migrated \subseteq Versions
  BY <1>1, StorageAssumption DEF Versions
<1>3. StorageTypeOK
  BY <1>2, StorageAssumption DEF StorageInit, StorageTypeOK, Down
<1>4. StartsFollowTheRows
  BY <1>1, StorageAssumption DEF StorageInit, StartsFollowTheRows, Down
<1>5. RestoreHasTheFile
  BY DEF StorageInit, RestoreHasTheFile
<1> QED
  BY <1>3, <1>4, <1>5 DEF StorageInv

\* Every step keeps the parts what they are.
LEMMA StorageTypeStep ==
    ASSUME StorageTypeOK, RestoreHasTheFile, [StorageNext]_storageVars
    PROVE  StorageTypeOK'
<1>0. Found \in Nat
  BY FoundType
<1> USE StorageAssumption DEF StorageTypeOK, Versions, fileVars, migrationVars
<1>1. CASE UNCHANGED storageVars
  BY <1>1 DEF storageVars
<1>2. ASSUME NEW s \in Servers, ReadMigrations(s) PROVE StorageTypeOK'
  BY <1>2 DEF ReadMigrations
<1>3. ASSUME NEW s \in Servers, ApplyMigration(s) PROVE StorageTypeOK'
  <2>1. server[s].next \in Nat /\ server[s].next \in 1 .. Migrations
    BY <1>3 DEF ApplyMigration
  <2>2. server' = [server EXCEPT ![s].next = server[s].next + 1] \/ server' = [server EXCEPT ![s] = Down]
    BY <1>3 DEF ApplyMigration
  <2>3. server[s].next + 1 \in 1 .. Migrations + 1 /\ 1 \in 1 .. Migrations + 1
    BY <2>1
  <2>4. server' \in [Servers -> [at : {"down", "applying", "up"}, read : SUBSET Versions,
                                 next : 1 .. Migrations + 1]]
    <3>1. CASE server' = [server EXCEPT ![s].next = server[s].next + 1]
      BY <2>3, <3>1
    <3>2. CASE server' = [server EXCEPT ![s] = Down]
      <4>1. Down \in [at : {"down", "applying", "up"}, read : SUBSET Versions,
                      next : 1 .. Migrations + 1]
        BY <2>3 DEF Down
      <4> QED
        BY <4>1, <3>2
    <3> QED
      BY <2>2, <3>1, <3>2
  <2>5. migrated' \subseteq Versions /\ ran' \in [Versions -> Nat]
    BY <1>3, <2>1 DEF ApplyMigration
  <2> QED
    BY <1>3, <2>4, <2>5 DEF ApplyMigration
<1>4. ASSUME NEW s \in Servers, FinishStart(s) PROVE StorageTypeOK'
  BY <1>4 DEF FinishStart
<1>5. ASSUME NEW s \in Servers, Stop(s) PROVE StorageTypeOK'
  BY <1>5 DEF Stop, Down
<1>6. ASSUME NEW s \in Servers, Commit(s) PROVE StorageTypeOK'
  <2>1. log' \in [over : Nat, gives : Nat]
    BY <1>6, <1>0 DEF Commit
  <2> QED
    BY <1>6, <2>1 DEF Commit
<1>7. CASE CreateBackup
  BY <1>7, <1>0 DEF CreateBackup
<1>8. CASE BackupCutShort
  BY <1>8 DEF BackupCutShort
<1>9. CASE BeginRestore
  BY <1>9 DEF BeginRestore
<1>10. CASE CopyFile
  BY <1>10 DEF CopyFile, RestoreHasTheFile
<1>11. CASE RemoveLog
  BY <1>11 DEF RemoveLog
<1>12. CASE VerifyRestore
  BY <1>12 DEF VerifyRestore
<1>13. CASE RestoreCutShort
  BY <1>13 DEF RestoreCutShort
<1> QED
  BY <1>1, <1>2, <1>3, <1>4, <1>5, <1>6, <1>7, <1>8, <1>9, <1>10, <1>11, <1>12, <1>13
     DEF StorageNext

\* A migration is run where it was not applied, and what a process has come
\* past stays applied.
LEMMA StartsStep ==
    ASSUME StorageTypeOK, StartsFollowTheRows, [StorageNext]_storageVars
    PROVE  StartsFollowTheRows'
<1> USE StorageAssumption DEF StorageTypeOK, StartsFollowTheRows, Versions, migrationVars
<1>1. CASE UNCHANGED migrationVars
  BY <1>1
<1>2. ASSUME NEW s \in Servers, ReadMigrations(s) PROVE StartsFollowTheRows'
  BY <1>2 DEF ReadMigrations
<1>3. ASSUME NEW s \in Servers, ApplyMigration(s) PROVE StartsFollowTheRows'
  <2> DEFINE m == server[s].next
  <2>1. m \in Versions /\ server[s].at = "applying"
    BY <1>3 DEF ApplyMigration
  <2>2. CASE m \in server[s].read
    <3>1. m \in migrated /\ 1 .. m \subseteq migrated
      BY <2>1, <2>2
    <3>2. server' = [server EXCEPT ![s].next = m + 1] /\ UNCHANGED <<migrated, ran>>
      BY <1>3, <2>1, <2>2 DEF ApplyMigration
    <3> QED
      BY <2>1, <3>1, <3>2
  <2>3. CASE m \notin server[s].read \cup migrated
    <3>1. /\ migrated' = migrated \cup {m}
          /\ ran' = [ran EXCEPT ![m] = @ + 1]
          /\ server' = [server EXCEPT ![s].next = m + 1]
      BY <1>3, <2>3 DEF ApplyMigration
    <3>2. 1 .. m \subseteq migrated'
      BY <2>1, <3>1
    <3>3. \A v \in Versions : ran'[v] = IF v \in migrated' THEN 1 ELSE 0
      BY <2>1, <2>3, <3>1
    <3>4. \A v \in migrated' : 1 .. v \subseteq migrated'
      BY <3>1, <3>2
    <3>5. ASSUME NEW t \in Servers
          PROVE  /\ server'[t].at = "applying" => /\ server'[t].read \subseteq migrated'
                                                  /\ 1 .. server'[t].next - 1 \subseteq migrated'
                 /\ server'[t].at = "up" => migrated' = Versions
      BY <2>1, <3>1, <3>2
    <3> QED
      BY <3>3, <3>4, <3>5
  <2>4. CASE m \in migrated \ server[s].read
    <3>1. server' = [server EXCEPT ![s] = Down] /\ UNCHANGED <<migrated, ran>>
      BY <1>3, <2>4 DEF ApplyMigration
    <3> QED
      BY <3>1 DEF Down
  <2> QED
    BY <2>2, <2>3, <2>4
<1>4. ASSUME NEW s \in Servers, FinishStart(s) PROVE StartsFollowTheRows'
  <2>0. server[s].next \in 1 .. Migrations + 1
    OBVIOUS
  <2>1. /\ server[s].next > Migrations /\ server[s].at = "applying"
        /\ server[s].next = Migrations + 1
    BY <1>4, <2>0, SMT DEF FinishStart
  <2>2. 1 .. Migrations \subseteq migrated
    BY <2>1
  <2>3. migrated = Versions
    BY <2>2
  <2> QED
    BY <1>4, <2>3 DEF FinishStart
<1>5. ASSUME NEW s \in Servers, Stop(s) PROVE StartsFollowTheRows'
  BY <1>5 DEF Stop, Down
<1>6. CASE StorageNext /\ ~UNCHANGED migrationVars
  BY <1>2, <1>3, <1>4, <1>5, <1>6
     DEF StorageNext, Commit, CreateBackup, BackupCutShort, BeginRestore, CopyFile, RemoveLog,
         VerifyRestore, RestoreCutShort
<1> QED
  BY <1>1, <1>6 DEF storageVars

\* While a restore is under way no process opens the file and no backup is made.
LEMMA RestoreStep ==
    ASSUME StorageTypeOK, RestoreHasTheFile, [StorageNext]_storageVars
    PROVE  RestoreHasTheFile'
<1> USE DEF RestoreHasTheFile, AllDown, fileVars
<1>1. CASE UNCHANGED storageVars
  BY <1>1 DEF storageVars, migrationVars
<1>2. ASSUME NEW s \in Servers,
             ReadMigrations(s) \/ ApplyMigration(s) \/ FinishStart(s) \/ Stop(s) \/ Commit(s)
      PROVE  RestoreHasTheFile'
  <2>1. tool.at \notin {"checked", "copied", "cleared", "mismatch"}
    BY <1>2 DEF ReadMigrations, ApplyMigration, FinishStart, Stop, Commit
  <2>2. UNCHANGED tool
    BY <1>2 DEF ReadMigrations, ApplyMigration, FinishStart, Stop, Commit
  <2> QED
    BY <2>1, <2>2
<1>3. CASE CreateBackup \/ BackupCutShort
  BY <1>3 DEF CreateBackup, BackupCutShort
<1>4. CASE BeginRestore
  BY <1>4 DEF BeginRestore, migrationVars
<1>5. CASE CopyFile
  BY <1>5 DEF CopyFile, migrationVars, StorageTypeOK
<1>6. CASE RemoveLog
  BY <1>6 DEF RemoveLog, migrationVars, StorageTypeOK
<1>7. CASE VerifyRestore
  BY <1>7 DEF VerifyRestore, migrationVars, StorageTypeOK
<1>8. CASE RestoreCutShort
  BY <1>8 DEF RestoreCutShort
<1> QED
  BY <1>1, <1>2, <1>3, <1>4, <1>5, <1>6, <1>7, <1>8 DEF StorageNext

\* The strengthening on which both properties of the file rest.
THEOREM SpecStorageInv == StorageSpec => []StorageInv
<1>1. StorageInv /\ [StorageNext]_storageVars => StorageInv'
  BY StorageTypeStep, StartsStep, RestoreStep DEF StorageInv
<1> QED
  BY <1>1, StorageInvInit, PTL DEF StorageSpec

\* However many processes start together, die and start again, a migration is
\* committed once and in its order, and a process serves only on all of them.
THEOREM SpecMigrationsApplyOnce == StorageSpec => []MigrationsApplyOnce
<1>1. StorageInv => MigrationsApplyOnce
  BY DEF StorageInv, StartsFollowTheRows, MigrationsApplyOnce
<1> QED
  BY <1>1, SpecStorageInv, PTL

\* A restore that comes to its end reports success, and what a process then
\* finds is what the backup held.
THEOREM SpecRestoreLeavesTheBackup == StorageSpec => RestoreLeavesTheBackup
<1>1. ASSUME StorageInv, [StorageNext]_storageVars,
             tool.at = "cleared", tool'.at \notin {"cleared", "idle"}
      PROVE  tool'.at = "restored" /\ Found' = saved
  <2>1. AllDown /\ tool.source = saved /\ main = saved /\ log = None
    BY <1>1 DEF StorageInv, RestoreHasTheFile
  <2>2. VerifyRestore
    BY <1>1, <2>1 DEF StorageNext, storageVars, fileVars, AllDown, ReadMigrations, ApplyMigration,
       FinishStart, Stop, Commit, CreateBackup, BackupCutShort, BeginRestore, CopyFile, RemoveLog,
       RestoreCutShort
  <2>3. Found = saved
    BY <2>1 DEF Found
  <2>4. main' = saved /\ log' = None
    BY <2>1, <2>2 DEF VerifyRestore
  <2>5. Found' = saved
    BY <2>4 DEF Found
  <2>6. tool'.at = "restored"
    BY <2>1, <2>2, <2>3, <1>1 DEF VerifyRestore, StorageInv, StorageTypeOK
  <2> QED
    BY <2>5, <2>6
<1>2. StorageInv /\ [StorageNext]_storageVars
         => [tool.at = "cleared" /\ tool'.at \notin {"cleared", "idle"}
               => tool'.at = "restored" /\ Found' = saved]_storageVars
  BY <1>1
<1> QED
  BY <1>2, SpecStorageInv, PTL DEF StorageSpec, RestoreLeavesTheBackup

-----------------------------------------------------------------------------
(***************************************************************************)
(* Numbers, folds and orders.                                              *)
(***************************************************************************)

\* A set of numbers that is not empty has a least one.
LEMMA LeastNumber ==
    ASSUME NEW S \in SUBSET Nat, S # {}
    PROVE  \E m \in S : \A n \in S : m <= n
<1>1. IsWellFoundedOn(OpToRel(<, Nat), Nat)
    BY NatLessThanWellFounded
<1>2. PICK m \in S : \A n \in S : <<n, m>> \notin OpToRel(<, Nat)
    BY <1>1, WFMin
<1>3. \A n \in S : ~(n < m)
    BY <1>2 DEF OpToRel
<1> QED
    BY <1>3

\* The greatest of the first numbers, in a set of them.
LEMMA GreatestNumber ==
    ASSUME NEW n \in Nat, NEW S \in SUBSET (1 .. n), S # {}
    PROVE  Max(S) \in S /\ \A i \in S : i <= Max(S)
<1> DEFINE Above == {n - i : i \in S}
<1>1. Above \in SUBSET Nat /\ Above # {}
  <2>1. \A i \in S : n - i \in Nat
      OBVIOUS
  <2> QED
      BY <2>1
<1>2. PICK m \in Above : \A i \in Above : m <= i
  <2> HIDE DEF Above
  <2> QED
      BY <1>1, LeastNumber
<1>3. \E x \in S : \A i \in S : i <= x
    BY <1>2
<1> QED
    BY <1>3 DEF Max

\* The last place of the first i, and the places before it.
LEMMA GreatestOfAll ==
    ASSUME NEW i \in Nat, i # 0
    PROVE  Max(1 .. i) = i /\ (1 .. i) \ {i} = 1 .. (i - 1)
<1>1. 1 .. i \in SUBSET (1 .. i) /\ i \in 1 .. i
    OBVIOUS
<1>2. Max(1 .. i) \in 1 .. i /\ \A j \in 1 .. i : j <= Max(1 .. i)
    BY <1>1, GreatestNumber
<1> QED
    BY <1>1, <1>2

\* One step of a fold from the left, at the last place of s.
FoldStep(base, step, iter, s) ==
    IF s = {} THEN base ELSE step[<<Max(s), iter[s \ {Max(s)}]>>]

Steps(n, V) == [(1 .. n) \X V -> V]
IsFold(n, V, base, step, iter) ==
    /\ iter \in [SUBSET (1 .. n) -> V]
    /\ \A s \in SUBSET (1 .. n) : iter[s] = FoldStep(base, step, iter, s)

\* The recursion of a fold over n places has a solution.
LEMMA FoldsExist ==
    ASSUME NEW n \in Nat, NEW V, NEW base \in V, NEW step \in Steps(n, V)
    PROVE  \E iter : IsFold(n, V, base, step, iter)
<1> USE DEF Steps
<1> DEFINE Solves(iter, m) == /\ iter \in [SUBSET (1 .. m) -> V]
                              /\ \A s \in SUBSET (1 .. m) :
                                    iter[s] = FoldStep(base, step, iter, s)
           Unsolved == {m \in Nat : m <= n /\ ~ \E iter : Solves(iter, m)}
<1>1. \E iter : Solves(iter, 0)
  <2> DEFINE iter == [s \in SUBSET (1 .. 0) |-> base]
  <2>1. \A s \in SUBSET (1 .. 0) : s = {}
      OBVIOUS
  <2>2. Solves(iter, 0)
      BY <2>1 DEF FoldStep
  <2> QED
      BY <2>2
<1>2. ASSUME NEW m \in Nat, m + 1 <= n, NEW iter, Solves(iter, m)
      PROVE  \E next : Solves(next, m + 1)
  <2> DEFINE next == [s \in SUBSET (1 .. m + 1) |-> FoldStep(base, step, iter, s)]
  <2>1. ASSUME NEW s \in SUBSET (1 .. m + 1), s # {}
        PROVE  /\ Max(s) \in 1 .. n
               /\ s \ {Max(s)} \in SUBSET (1 .. m)
               /\ s \ {Max(s)} \in SUBSET (1 .. m + 1)
    <3>1. m + 1 \in Nat
        OBVIOUS
    <3>2. Max(s) \in s /\ \A i \in s : i <= Max(s)
        BY <2>1, <3>1, GreatestNumber
    <3>3. \A i \in s : i \in Nat /\ 1 <= i /\ i <= m + 1
        OBVIOUS
    <3>4. \A i \in s \ {Max(s)} : i \in 1 .. m
      <4>1. \A i \in s \ {Max(s)} : i <= Max(s) /\ i # Max(s) /\ Max(s) \in s
          BY <3>2
      <4>2. Max(s) \in Nat /\ Max(s) <= m + 1
          BY <3>2, <3>3
      <4> HIDE DEF next
      <4> QED
          BY <3>3, <4>1, <4>2
    <3>5. Max(s) \in 1 .. n
      <4>1. m + 1 <= n /\ m \in Nat /\ n \in Nat
          BY <1>2
      <4>2. Max(s) \in Nat /\ 1 <= Max(s) /\ Max(s) <= m + 1
          BY <3>2, <3>3
      <4> QED
          BY ONLY <4>1, <4>2
    <3> QED
        BY <3>4, <3>5
  <2>2. \A s \in SUBSET (1 .. m + 1) : next[s] \in V
    <3> SUFFICES ASSUME NEW s \in SUBSET (1 .. m + 1) PROVE FoldStep(base, step, iter, s) \in V
        OBVIOUS
    <3>1. CASE s = {}
        BY <3>1 DEF FoldStep
    <3>2. CASE s # {}
        <4>1. Max(s) \in 1 .. n /\ s \ {Max(s)} \in SUBSET (1 .. m)
            BY <2>1, <3>2
        <4>2. iter[s \ {Max(s)}] \in V
            BY <1>2, <4>1
        <4>3. step[<<Max(s), iter[s \ {Max(s)}]>>] \in V
            BY <4>1, <4>2
        <4> QED
            BY <3>2, <4>3 DEF FoldStep
    <3> QED
        BY <3>1, <3>2
  <2>3. \A s \in SUBSET (1 .. m) : s \in SUBSET (1 .. m + 1) /\ next[s] = iter[s]
    <3>1. \A s \in SUBSET (1 .. m) : s \in SUBSET (1 .. m + 1)
        OBVIOUS
    <3> QED
        BY <1>2, <3>1
  <2>4. \A s \in SUBSET (1 .. m + 1) : FoldStep(base, step, next, s) = FoldStep(base, step, iter, s)
    <3> HIDE DEF next
    <3> QED
        BY <2>1, <2>3 DEF FoldStep
  <2>5. next \in [SUBSET (1 .. m + 1) -> V]
      BY <2>2
  <2>6. Solves(next, m + 1)
      BY <2>4, <2>5
  <2> QED
      BY <2>6
<1>3. Unsolved = {}
  <2> SUFFICES ASSUME Unsolved # {} PROVE FALSE
      OBVIOUS
  <2>1. PICK m \in Unsolved : \A i \in Unsolved : m <= i
      BY LeastNumber
  <2>2. m \in Nat /\ m # 0 /\ m <= n
      BY <1>1
  <2>3. m - 1 \in Nat /\ m - 1 <= n /\ m - 1 \notin Unsolved
    <3> HIDE DEF Unsolved
    <3> QED
        BY <2>1, <2>2
  <2>4. PICK iter : Solves(iter, m - 1)
      BY <2>3
  <2>5. m - 1 + 1 = m
      BY <2>2
  <2>6. \E next : Solves(next, m - 1 + 1)
    <3> HIDE DEF Solves
    <3> QED
        BY <1>2, <2>2, <2>3, <2>4, <2>5
  <2>7. \E next : Solves(next, m)
    <3> HIDE DEF Solves
    <3> QED
        BY <2>5, <2>6
  <2>8. ~ \E next : Solves(next, m)
      OBVIOUS
  <2> QED
      BY <2>7, <2>8
<1>4. \E iter : Solves(iter, n)
  <2> HIDE DEF Solves
  <2> QED
      BY <1>3
<1> QED
    BY <1>4 DEF IsFold

IsTotalOrder(S, R) ==
    /\ \A a \in S : <<a, a>> \notin R
    /\ \A a, b, c \in S : <<a, b>> \in R /\ <<b, c>> \in R => <<a, c>> \in R
    /\ \A a, b \in S : a # b => <<a, b>> \in R \/ <<b, a>> \in R

\* What comes before a in S, and a's place.
Earlier(S, R, a) == {b \in S : <<b, a>> \in R}
Place(S, R) == [a \in S |-> Cardinality(Earlier(S, R, a)) + 1]

\* What comes later in an order has more before it.
LEMMA PlaceGrows ==
    ASSUME NEW S, IsFiniteSet(S), NEW R, IsTotalOrder(S, R), NEW a \in S, NEW b \in S,
           <<a, b>> \in R
    PROVE  Place(S, R)[a] < Place(S, R)[b]
<1> DEFINE A == Earlier(S, R, a)
           B == Earlier(S, R, b)
<1>1. A \subseteq B /\ a \in B /\ a \notin A
    BY DEF Earlier, IsTotalOrder
<1>2. IsFiniteSet(A) /\ IsFiniteSet(B)
    BY FS_Subset DEF Earlier
<1>3. Cardinality(A) \in Nat /\ Cardinality(B) \in Nat
    BY <1>2, FS_CardinalityType
<1>4. Cardinality(A) < Cardinality(B)
    <2> HIDE DEF A, B
    <2>1. Cardinality(A) <= Cardinality(B) /\ (Cardinality(B) = Cardinality(A) => B = A)
        BY <1>1, <1>2, FS_Subset
    <2> QED
        BY <1>1, <1>3, <2>1
<1> QED
    BY <1>3, <1>4 DEF Place

\* The places of a finite set are the first numbers, each taken.
LEMMA PlacesFill ==
    ASSUME NEW S, IsFiniteSet(S), NEW R, IsTotalOrder(S, R)
    PROVE  /\ Cardinality(S) \in Nat
           /\ Place(S, R) \in [S -> 1 .. Cardinality(S)]
           /\ \A i \in 1 .. Cardinality(S) : \E a \in S : Place(S, R)[a] = i
<1> DEFINE n == Cardinality(S)
           P == Place(S, R)
<1>1. n \in Nat
    BY FS_CardinalityType
<1>2. ASSUME NEW a \in S PROVE Cardinality(Earlier(S, R, a)) + 1 \in 1 .. n
    <2>1. Earlier(S, R, a) \subseteq S \ {a}
        BY DEF Earlier, IsTotalOrder
    <2>2. IsFiniteSet(S \ {a}) /\ Cardinality(S \ {a}) = n - 1
        BY FS_RemoveElement
    <2>3. /\ IsFiniteSet(Earlier(S, R, a))
          /\ Cardinality(Earlier(S, R, a)) <= n - 1
        BY <2>1, <2>2, FS_Subset
    <2>4. Cardinality(Earlier(S, R, a)) \in Nat
        BY <2>3, FS_CardinalityType
    <2> QED
        BY <1>1, <2>3, <2>4
<1>3. P \in [S -> 1 .. n]
    BY <1>2 DEF Place
<1>4. \A a, b \in S : a # b => P[a] # P[b]
    <2> SUFFICES ASSUME NEW a \in S, NEW b \in S, a # b PROVE P[a] # P[b]
        OBVIOUS
    <2>1. P[a] < P[b] \/ P[b] < P[a]
        BY PlaceGrows DEF IsTotalOrder
    <2>2. P[a] \in Nat /\ P[b] \in Nat
        BY <1>1, <1>3
    <2> HIDE DEF P
    <2> QED
        BY <2>1, <2>2
<1>5. P \in Injection(S, 1 .. n)
    <2> HIDE DEF P
    <2> QED
        BY <1>3, <1>4 DEF Injection, IsInjective
<1>6. IsFiniteSet(1 .. n) /\ Cardinality(1 .. n) = n
    BY <1>1, FS_Interval
<1>7. P \in Surjection(S, 1 .. n)
    <2> HIDE DEF P
    <2> QED
        BY <1>5, <1>6, FS_Injection
<1> HIDE DEF P
<1>8. \A i \in 1 .. n : \E a \in S : P[a] = i
    BY <1>7 DEF Surjection
<1> QED
    BY <1>1, <1>3, <1>8 DEF P

\* A finite set has a sequence in any order that is total on it.
LEMMA OrderExists ==
    ASSUME NEW S, IsFiniteSet(S), NEW R, IsTotalOrder(S, R)
    PROVE  \E seq \in [1 .. Cardinality(S) -> S] :
               \A i, j \in 1 .. Cardinality(S) : i < j => <<seq[i], seq[j]>> \in R
<1> DEFINE n == Cardinality(S)
           P == Place(S, R)
           seq == [i \in 1 .. n |-> CHOOSE a \in S : P[a] = i]
<1>1. n \in Nat /\ P \in [S -> 1 .. n] /\ \A i \in 1 .. n : \E a \in S : P[a] = i
    BY PlacesFill
<1>2. \A i \in 1 .. n : seq[i] \in S /\ P[seq[i]] = i
    <2> HIDE DEF P
    <2> QED
        BY <1>1
<1>3. seq \in [1 .. n -> S]
    BY <1>2
<1>4. ASSUME NEW i \in 1 .. n, NEW j \in 1 .. n, i < j PROVE <<seq[i], seq[j]>> \in R
    <2>1. seq[i] \in S /\ seq[j] \in S /\ P[seq[i]] = i /\ P[seq[j]] = j
        BY <1>2
    <2> HIDE DEF seq
    <2>2. seq[i] # seq[j]
        BY <1>1, <1>4, <2>1
    <2>3. <<seq[j], seq[i]>> \in R => j < i
        BY <2>1, PlaceGrows
    <2> QED
        BY <1>1, <1>4, <2>1, <2>2, <2>3 DEF IsTotalOrder
<1> HIDE DEF seq
<1> QED
    BY <1>3, <1>4

\* Every member of S has a place in such a sequence.
LEMMA OrderLists ==
    ASSUME NEW S, IsFiniteSet(S), NEW R, IsTotalOrder(S, R),
           NEW seq \in [1 .. Cardinality(S) -> S],
           \A i, j \in 1 .. Cardinality(S) : i < j => <<seq[i], seq[j]>> \in R
    PROVE  \A a \in S : \E i \in 1 .. Cardinality(S) : seq[i] = a
<1> DEFINE n == Cardinality(S)
<1>1. n \in Nat /\ IsFiniteSet(1 .. n) /\ Cardinality(1 .. n) = n
    BY FS_CardinalityType, FS_Interval
<1>2. \A i, j \in 1 .. n : i # j => seq[i] # seq[j]
    <2> SUFFICES ASSUME NEW i \in 1 .. n, NEW j \in 1 .. n, i # j PROVE seq[i] # seq[j]
        OBVIOUS
    <2>1. i < j \/ j < i
        BY <1>1
    <2> QED
        BY <2>1 DEF IsTotalOrder
<1>3. seq \in Injection(1 .. n, S)
    BY <1>2 DEF Injection, IsInjective
<1>4. seq \in Surjection(1 .. n, S)
    BY <1>1, <1>3, FS_Injection
<1> QED
    BY <1>4 DEF Surjection

-----------------------------------------------------------------------------
(***************************************************************************)
(* Questions.  What was asked stays, and what is said is its answer.       *)
(***************************************************************************)

Asked == /\ subject = "question" => question \in Questions
         /\ result # Unanswered => /\ subject = "question"
                                   /\ result = <<AnswerTo(question.about, question.asked)>>

\* Nothing is said before it is asked,
LEMMA AskedInit == RulesInit => Asked
BY DEF RulesInit, Asked

\* and an answer is to what was asked.
LEMMA AskedNext == Asked /\ [RulesNext]_<<rulesVars, vars, studyVars, storageVars>> => Asked'
<1> SUFFICES ASSUME Asked, [RulesNext]_<<rulesVars, vars, studyVars, storageVars>> PROVE Asked'
    OBVIOUS
<1>1. CASE Answer
    BY <1>1 DEF Answer, Asked, Unanswered
<1>2. CASE UNCHANGED rulesVars
    BY <1>2 DEF rulesVars, Asked
<1> QED
    BY <1>1, <1>2 DEF RulesNext

LEMMA SpecAsked == RulesSpec => []Asked
BY AskedInit, AskedNext, PTL DEF RulesSpec

\* What is said of each subject.
LEMMA SaidOf ==
    ASSUME Asked, NEW about, Answered(about)
    PROVE  /\ question \in Questions /\ question.about = about
           /\ Said = AnswerTo(about, question.asked)
BY DEF Asked, Answered, Said, Unanswered

-----------------------------------------------------------------------------
(***************************************************************************)
(* Calls.  What an exchange with a provider costs.                         *)
(***************************************************************************)

\* What an exchange is, and what is said of it.
LEMMA CallFacts ==
    ASSUME Asked, Answered("call")
    PROVE  question.asked \in Exchanges /\ Said = Attempted(question.asked)
<1>1. question \in Questions /\ question.about = "call" /\ Said = AnswerTo("call", question.asked)
    BY SaidOf
<1>2. question.asked \in Exchanges
    BY <1>1 DEF Questions
<1> QED
    BY <1>1, <1>2 DEF AnswerTo

\* An error carries what it was made with.
LEMMA ErrorSays ==
    ASSUME NEW code, NEW billing, NEW usage
    PROVE  /\ ProviderError(code, billing, usage).code = code
           /\ ProviderError(code, billing, usage).billing = billing
BY DEF ProviderError

\* Only an error whose code says so is retried.
LEMMA NotRetried ==
    ASSUME NEW code, NEW billing, NEW usage, code \notin Retryable
    PROVE  ProviderError(code, billing, usage).retryable = FALSE
<1>1. (code \in Retryable) = FALSE
    OBVIOUS
<1> QED
    BY ONLY <1>1 DEF ProviderError

\* What is sent fails with what its status and its connection say of the bill.
LEMMA SendSays ==
    ASSUME NEW x \in Exchanges, Send(x).failed
    PROVE  /\ Send(x).billing \in {"none", "charged", "unknown"}
           /\ Send(x).billing = "none" => ~x.worked
           /\ Send(x).billing = "charged" =>
                 /\ x.worked /\ Send(x).code \in {"refused", "malformed_output"}
                 /\ Send(x).retryable = FALSE
           /\ x.connection = "kept" /\ x.status = "ok" /\ x.body = "envelope" /\ x.usage = "figures"
              => Send(x).billing = "charged"
<1>1. CASE x.connection \in {"refused", "reset", "silent"}
    <2>1. Send(x) = FetchFails(x)
        BY <1>1 DEF Send
    <2>2. Send(x).billing = "unknown"
        BY <2>1, ErrorSays DEF FetchFails
    <2> QED
        BY ONLY <1>1, <2>2
<1>2. CASE x.connection = "cut"
    <2>1. Send(x) = ProviderError("unknown", "unknown", "none")
        BY <1>2 DEF Send
    <2>2. Send(x).billing = "unknown"
        BY <2>1, ErrorSays
    <2> QED
        BY ONLY <1>2, <2>2
<1>3. CASE x.connection = "kept" /\ x.status # "ok"
    <2>1. Send(x) = mapHttpFailure(x.status)
        BY <1>3 DEF Send
    <2>2. x.status \in {"unauthorized", "limited", "error"} 
        BY <1>3 DEF Exchanges
    <2>3. x.status \in {"unauthorized", "limited"} => ~x.worked
        BY <1>3 DEF Exchanges
    <2>4. /\ x.status \in {"unauthorized", "limited"} => Send(x).billing = "none"
          /\ x.status = "error" => Send(x).billing = "unknown"
        BY <2>1, ErrorSays DEF mapHttpFailure
    <2> QED
        BY <1>3, <2>2, <2>3, <2>4
<1>4. CASE x.connection = "kept" /\ x.status = "ok"
    <2>1. x.worked
        BY <1>4 DEF Exchanges
    <2>2. CASE x.body = "prose" \/ x.usage = "infinite"
        <3>1. Send(x) = ProviderError("malformed_output", "unknown", "none")
            BY <1>4, <2>2 DEF Send
        <3>2. Send(x).billing = "unknown"
            BY <3>1, ErrorSays
        <3> QED
            BY <2>2, <3>2
    <2>3. CASE x.body # "prose" /\ x.usage # "infinite"
        <3>1. Send(x) = readChoiceText(x, readUsage(x))
            BY <1>4, <2>3 DEF Send
        <3>2. x.content # "text"
            BY <3>1 DEF readChoiceText
        <3>3. \E code \in {"refused", "malformed_output"} : Send(x) = Unreadable(code, readUsage(x))
            BY <3>1, <3>2 DEF readChoiceText
        <3>4. PICK code \in {"refused", "malformed_output"} : Send(x) = Unreadable(code, readUsage(x))
            BY <3>3
        <3>5. /\ Send(x).code = code
              /\ Send(x).billing = IF readUsage(x) = "figures" THEN "charged" ELSE "unknown"
            BY <3>4, ErrorSays DEF Unreadable
        <3>6. code \notin Retryable
            BY DEF Retryable
        <3>7. Send(x).retryable = FALSE
            BY <3>4, <3>6, NotRetried DEF Unreadable
        <3>8. /\ Send(x).billing = "charged" => Send(x).code \in {"refused", "malformed_output"}
              /\ Send(x).billing \in {"charged", "unknown"}
              /\ x.usage = "figures" => Send(x).billing = "charged"
            BY <3>5 DEF readUsage
        <3> QED
            BY <2>1, <3>7, <3>8
    <2> QED
        BY <2>2, <2>3
<1> QED
    BY <1>1, <1>2, <1>3, <1>4 DEF Exchanges

\* What is sent and answered was kept, and it is worked for.
LEMMA SendAnswers ==
    ASSUME NEW x \in Exchanges, ~Send(x).failed
    PROVE  /\ x.worked
           /\ x.usage = "figures" => Send(x).usage = "figures"
<1>1. x.connection = "kept" /\ x.status = "ok"
    BY DEF Exchanges, Send, FetchFails, ProviderError, mapHttpFailure
<1>2. x.worked
    BY <1>1 DEF Exchanges
<1>3. Send(x) = readChoiceText(x, readUsage(x))
    BY <1>1 DEF Send, ProviderError
<1>4. x.content = "text"
    BY <1>3 DEF readChoiceText, Unreadable, ProviderError
<1> QED
    BY <1>2, <1>3, <1>4 DEF readChoiceText, readUsage

\* A hold is released only for a call the provider did not work on, a charge
\* is the provider's own figure whenever its envelope states one, and a call
\* that was charged is not repeated, for every exchange (transport.ts:159-205).
THEOREM SpecOnlyUnusedCallsAreFree == RulesSpec => []OnlyUnusedCallsAreFree
<1>1. Asked => OnlyUnusedCallsAreFree
    <2> SUFFICES ASSUME Asked, Answered("call") PROVE OnlyUnusedCallsAreFree
        BY DEF OnlyUnusedCallsAreFree
    <2> DEFINE x == question.asked
    <2>1. x \in Exchanges /\ Said = Attempted(x)
        BY CallFacts
    <2> HIDE DEF x
    <2>2. /\ x.worked => Attempted(x).outcome # "released"
          /\ /\ x.connection = "kept" /\ x.status = "ok" /\ x.body = "envelope" /\ x.usage = "figures"
             => Attempted(x).outcome = "charged" /\ Attempted(x).figure = "reported"
          /\ Attempted(x).outcome = "charged" => x.worked /\ ~Attempted(x).retryable
        <3>1. CASE Send(x).failed
            <4>1. Attempted(x) = SettleFailed(Send(x))
                BY <3>1 DEF Attempted
            <4> DEFINE failure == Send(x)
            <4>2. /\ failure.billing \in {"none", "charged", "unknown"}
                  /\ failure.billing = "none" => ~x.worked
                  /\ failure.billing = "charged" => x.worked /\ failure.retryable = FALSE
                  /\ x.connection = "kept" /\ x.status = "ok" /\ x.body = "envelope" /\ x.usage = "figures"
                     => failure.billing = "charged"
                BY <2>1, <3>1, SendSays
            <4> HIDE DEF failure
            <4>3. /\ SettleFailed(failure).outcome = OutcomeForBilling(failure.billing)
                  /\ SettleFailed(failure).retryable = failure.retryable
                  /\ OutcomeForBilling(failure.billing) = "charged" => SettleFailed(failure).figure = "reported"
                BY DEF SettleFailed
            <4>4. /\ OutcomeForBilling(failure.billing) = "released" => failure.billing = "none"
                  /\ OutcomeForBilling(failure.billing) = "charged" <=> failure.billing = "charged"
                BY <4>2 DEF OutcomeForBilling
            <4> QED
                BY <4>1, <4>2, <4>3, <4>4 DEF failure
        <3>2. CASE ~Send(x).failed
            <4>1. Attempted(x) = SettleAnswered(Send(x), x.usable)
                BY <3>2 DEF Attempted
            <4>2. x.worked /\ (x.usage = "figures" => Send(x).usage = "figures")
                BY <2>1, <3>2, SendAnswers
            <4> QED
                BY <4>1, <4>2 DEF SettleAnswered
        <3> QED
            BY <3>1, <3>2
    <2> QED
        BY <2>1, <2>2 DEF OnlyUnusedCallsAreFree, x
<1> QED
    BY <1>1, SpecAsked, PTL

-----------------------------------------------------------------------------
(***************************************************************************)
(* Cards.  A claim and the sentences it cites.                             *)
(***************************************************************************)

\* What a candidate is, and what is said of it.
LEMMA CardFacts ==
    ASSUME Asked, Answered("card")
    PROVE  /\ question.asked \in Candidates
           /\ question.asked.card \in Cards /\ question.asked.page \in Seq(Sentences)
           /\ question.asked.card.cites \subseteq DOMAIN question.asked.page
           /\ Said.judged = ReachesTheJudge(question.asked.card, question.asked.page)
           /\ Said.published = VerifyCard(question.asked.card, question.asked.page,
                                          question.asked.judge)
<1>1. question \in Questions /\ question.about = "card" /\ Said = AnswerTo("card", question.asked)
    BY SaidOf
<1>2. question.asked \in Candidates
    BY <1>1 DEF Questions
<1>3. Said = [judged    |-> ReachesTheJudge(question.asked.card, question.asked.page),
              published |-> VerifyCard(question.asked.card, question.asked.page,
                                       question.asked.judge)]
    BY <1>1 DEF AnswerTo
<1>4. /\ Said.judged = ReachesTheJudge(question.asked.card, question.asked.page)
      /\ Said.published = VerifyCard(question.asked.card, question.asked.page,
                                     question.asked.judge)
    BY <1>3, Zenon
<1> QED
    BY <1>2, <1>4, CandidatesAssumption

\* What is cited stands on the page.
LEMMA CitedStands ==
    ASSUME NEW card \in Cards, NEW page \in Seq(Sentences), card.cites \subseteq DOMAIN page
    PROVE  /\ Cited(card, page) \subseteq ToSet(page)
           /\ Cited(card, page) \subseteq Sentences
BY DEF Cited, ToSet

\* A card that says what its sentences say meets no rule against it.
LEMMA RestatementReachesTheJudge ==
    ASSUME NEW card \in Cards, NEW page \in Seq(Sentences), card.cites \subseteq DOMAIN page,
           \A s, t \in Cited(card, page) : s.negated = t.negated,
           ~card.absolute,
           NEW s \in Cited(card, page), s.words = card.words,
           s.figures = card.prompt.figures, s.figures = ClaimFigures(card),
           s.negated = ClaimNegated(card),
           s.negated = (IF card.format = "qa" THEN card.answer.negated ELSE card.prompt.negated)
    PROVE  ReachesTheJudge(card, page)
<1> DEFINE cited == Cited(card, page)
<1>1. s \in ToSet(page) /\ s \in Sentences /\ cited \subseteq Sentences
    BY CitedStands
<1>2. card.cites # {}
    BY DEF Cited
<1>3. ClaimFigures(card) \subseteq FiguresIn(ToSet(page))
    BY <1>1 DEF FiguresIn
<1>4. s.negated \in BOOLEAN
    BY <1>1 DEF Sentences
<1>5. ~((\A t \in cited : t.negated) /\ ~ClaimNegated(card))
    OBVIOUS
<1>6. ~((\A t \in cited : ~t.negated) /\ ClaimNegated(card))
    OBVIOUS
<1>7. ValidateClaimSupport(card, page) = "inconclusive"
    BY <1>2, <1>3, <1>5, <1>6 DEF ValidateClaimSupport
<1>8. ValidateCardStructure(card, cited)
    <2>1. CASE card.format = "qa"
        <3>1. card.answer.figures \subseteq FiguresIn(cited)
            BY DEF FiguresIn, ClaimFigures
        <3>2. card.answer.negated = s.negated
            BY <2>1
        <3>3. card.answer.negated <=> \E t \in cited : t.negated
            <4> HIDE DEF cited
            <4> QED
                BY <3>2 DEF cited
        <3> QED
            BY <2>1, <3>1, <3>3 DEF ValidateCardStructure
    <2>2. CASE card.format = "cloze"
        BY <2>2 DEF ValidateCardStructure
    <2> QED
        BY <2>1, <2>2 DEF Cards
<1> QED
    BY <1>7, <1>8 DEF ReachesTheJudge

\* One that says the opposite of all it cites is contradicted.
LEMMA OppositeIsNotPublished ==
    ASSUME NEW card \in Cards, NEW page \in Seq(Sentences), card.cites \subseteq DOMAIN page,
           NEW judge, \A s, t \in Cited(card, page) : s.negated = t.negated,
           NEW s \in Cited(card, page), s.words = card.words, s.negated # ClaimNegated(card)
    PROVE  ~VerifyCard(card, page, judge)
<1> DEFINE cited == Cited(card, page)
<1>1. s.negated \in BOOLEAN
    BY CitedStands DEF Sentences
<1>2. \/ (\A t \in cited : t.negated) /\ ~ClaimNegated(card)
      \/ (\A t \in cited : ~t.negated) /\ ClaimNegated(card)
    <2>1. CASE s.negated
        <3>1. ~ClaimNegated(card)
            BY <1>1, <2>1
        <3>2. \A t \in cited : t.negated
            BY <2>1
        <3> QED
            BY <3>1, <3>2
    <2>2. CASE ~s.negated
        <3>1. ClaimNegated(card)
            BY <1>1, <2>2 DEF ClaimNegated
        <3>2. \A t \in cited : ~t.negated
            BY <2>2
        <3> QED
            BY <3>1, <3>2
    <2> QED
        BY <2>1, <2>2
<1>3. ValidateClaimSupport(card, page) = "contradicted"
    BY <1>2 DEF ValidateClaimSupport
<1> QED
    BY <1>3 DEF VerifyCard, CombineSupportFindings

\* What a card says is compared with the sentences it cites and no others,
\* for pages of any length and cards of any figures (validation/index.ts:505-545).
THEOREM SpecPolarityIsJudgedByTheCitation == RulesSpec => []PolarityIsJudgedByTheCitation
<1>1. Asked => PolarityIsJudgedByTheCitation
    <2> SUFFICES ASSUME Asked, Answered("card") PROVE PolarityIsJudgedByTheCitation
        BY DEF PolarityIsJudgedByTheCitation
    <2> DEFINE card == question.asked.card
               page == question.asked.page
               cited == Cited(card, page)
               restated == {s \in cited : s.words = card.words}
               uniform == \A s, t \in cited : s.negated = t.negated
    <2>1. /\ card \in Cards /\ page \in Seq(Sentences) /\ card.cites \subseteq DOMAIN page
          /\ Said.judged = ReachesTheJudge(card, page)
          /\ Said.published = VerifyCard(card, page, question.asked.judge)
        BY CardFacts
    <2>2. ASSUME NEW s \in restated, s.figures = card.prompt.figures, s.figures = ClaimFigures(card),
                 s.negated = ClaimNegated(card),
                 s.negated = (IF card.format = "qa" THEN card.answer.negated
                              ELSE card.prompt.negated),
                 uniform, ~card.absolute
          PROVE  Said.judged
        <3> HIDE DEF card, page
        <3>1. ReachesTheJudge(card, page)
            BY <2>1, <2>2, RestatementReachesTheJudge
        <3> QED
            BY <2>1, <3>1
    <2>3. ASSUME uniform, NEW s \in restated, s.negated # ClaimNegated(card)
          PROVE  ~Said.published
        <3> HIDE DEF card, page
        <3>1. ~VerifyCard(card, page, question.asked.judge)
            BY <2>1, <2>3, OppositeIsNotPublished
        <3> QED
            BY <2>1, <3>1
    <2> QED
        BY <2>2, <2>3 DEF PolarityIsJudgedByTheCitation
<1> QED
    BY <1>1, SpecAsked, PTL

-----------------------------------------------------------------------------
(***************************************************************************)
(* Figures.  The exception for the only figure of a page.                  *)
(***************************************************************************)

\* What a page of figures is, and what is said of it.
LEMMA FigureFacts ==
    ASSUME Asked, Answered("figures")
    PROVE  /\ IsFiniteSet(DOMAIN question.asked.figures)
           /\ IsFiniteSet(DOMAIN question.asked.citations)
           /\ Said = FiguresByEvidence(question.asked.figures, question.asked.citations)
<1>1. question \in Questions /\ question.about = "figures" /\ Said = AnswerTo("figures", question.asked)
    BY SaidOf
<1>2. question.asked \in FigurePages
    BY <1>1 DEF Questions
<1>3. IsFiniteSet(DOMAIN question.asked.figures \cup DOMAIN question.asked.citations)
    BY <1>2, FigurePagesAssumption
<1> QED
    BY <1>1, <1>3, FS_Subset DEF AnswerTo

\* Two rows of one page are one row, where only one is counted.
LEMMA OnlyOne ==
    ASSUME NEW rows, IsFiniteSet(DOMAIN rows), NEW page,
           Cardinality({i \in DOMAIN rows : rows[i].page = page}) = 1
    PROVE  \A i, j \in DOMAIN rows : rows[i].page = page /\ rows[j].page = page => i = j
<1> DEFINE S == {i \in DOMAIN rows : rows[i].page = page}
<1>1. IsFiniteSet(S)
    BY FS_Subset
<1>2. \E x : S = {x}
    <2> HIDE DEF S
    <2> QED
        BY <1>1, FS_Singleton DEF S
<1> QED
    BY <1>2

\* A figure that shares no word with a citation goes to it only as the one
\* figure of a page with one citation, for any pages (figures.ts:223-250).
THEOREM SpecLoneFigureHasOneCard == RulesSpec => []LoneFigureHasOneCard
<1>1. Asked => LoneFigureHasOneCard
    <2> SUFFICES ASSUME Asked, Answered("figures") PROVE LoneFigureHasOneCard
        BY DEF LoneFigureHasOneCard
    <2> DEFINE figures == question.asked.figures
               citations == question.asked.citations
               on(rows, page) == Cardinality({i \in DOMAIN rows : rows[i].page = page})
    <2>1. /\ IsFiniteSet(DOMAIN figures) /\ IsFiniteSet(DOMAIN citations)
          /\ Said = FiguresByEvidence(figures, citations)
        BY FigureFacts
    <2> HIDE DEF figures, citations
    <2>2. ASSUME NEW c \in DOMAIN citations, NEW f \in Said[c]
          PROVE  /\ f \in DOMAIN figures
                 /\ FigureSupportsEvidence(figures[f], citations[c],
                        on(figures, citations[c].page), on(citations, citations[c].page))
                 /\ figures[f].page = citations[c].page
        BY <2>1, <2>2 DEF FiguresByEvidence, FigureSupportsEvidence
    <2>3. ASSUME NEW c \in DOMAIN citations, NEW f \in Said[c],
                 figures[f].terms \cap citations[c].terms = {}, ~figures[f].scan
          PROVE  on(figures, citations[c].page) = 1 /\ on(citations, citations[c].page) = 1
        <3> DEFINE shared == Cardinality(figures[f].terms \cap citations[c].terms)
        <3>1. shared = 0
            BY <2>3, FS_EmptySet
        <3>2. ~(shared >= BusyPageTerms) /\ ~(shared >= LoneFigureTerms)
            BY <3>1, ExtractionAssumption
        <3> QED
            BY <2>2, <2>3, <3>2 DEF FigureSupportsEvidence
    <2>4. ASSUME NEW c \in DOMAIN citations, NEW f \in Said[c],
                 figures[f].terms \cap citations[c].terms = {}, ~figures[f].scan
          PROVE  /\ \A d \in DOMAIN citations \ {c} : f \notin Said[d]
                 /\ \A g \in DOMAIN figures \ {f} : g \notin Said[c]
        <3>1. on(figures, citations[c].page) = 1 /\ on(citations, citations[c].page) = 1
            BY <2>3, <2>4
        <3>2. \A d, e \in DOMAIN citations :
                 citations[d].page = citations[c].page /\ citations[e].page = citations[c].page => d = e
            BY <2>1, <3>1, OnlyOne
        <3>3. \A g, h \in DOMAIN figures :
                 figures[g].page = citations[c].page /\ figures[h].page = citations[c].page => g = h
            BY <2>1, <3>1, OnlyOne
        <3> HIDE DEF on
        <3>4. \A d \in DOMAIN citations : f \in Said[d] => citations[d].page = figures[f].page
            BY <2>2
        <3> QED
            BY <2>2, <2>4, <3>2, <3>3, <3>4
    <2> QED
        BY <2>2, <2>4 DEF LoneFigureHasOneCard, figures, citations
<1> QED
    BY <1>1, SpecAsked, PTL

-----------------------------------------------------------------------------
(***************************************************************************)
(* Duplicates.  The cards kept of a deck.                                  *)
(***************************************************************************)

\* The cards kept of the first i.
KeptBy(cards, kept, i) ==
    /\ kept \subseteq 1 .. i
    /\ \A j \in (1 .. i) \ kept : \E k \in kept : k < j /\ DetectDuplicate(cards[k], cards[j])
    /\ \A k, j \in kept : k < j => ~DetectDuplicate(cards[k], cards[j])

\* What dropping does at place j.
KeepOrDrop(cards, kept, j) ==
    IF \E i \in kept : DetectDuplicate(cards[i], cards[j]) THEN kept ELSE kept \cup {j}

\* A card that is kept or dropped leaves the cards up to it settled.
LEMMA KeptByOneMore ==
    ASSUME NEW cards, NEW i \in Nat, i # 0, NEW kept, KeptBy(cards, kept, i - 1)
    PROVE  KeptBy(cards, KeepOrDrop(cards, kept, i), i)
<1>1. kept \subseteq 1 .. (i - 1) /\ 1 .. i = (1 .. (i - 1)) \cup {i}
    BY DEF KeptBy
<1>2. \A k \in kept : k < i /\ k \in Nat
    BY <1>1
<1>3. CASE \E k \in kept : DetectDuplicate(cards[k], cards[i])
    BY <1>1, <1>2, <1>3 DEF KeptBy, KeepOrDrop
<1>4. CASE ~ \E k \in kept : DetectDuplicate(cards[k], cards[i])
    BY <1>1, <1>2, <1>4 DEF KeptBy, KeepOrDrop
<1> QED
    BY <1>3, <1>4

\* So dropping settles the whole deck.
LEMMA DropKeepsOneOfEach ==
    ASSUME NEW cards, NEW n \in Nat, DOMAIN cards = 1 .. n
    PROVE  KeptBy(cards, DropDuplicateCards(cards), n)
<1> DEFINE D == 1 .. n
           seq == [j \in DOMAIN cards |-> j]
           Body(iter, s) == IF s = {} THEN {}
                            ELSE KeepOrDrop(cards, iter[s \ {Max(s)}], Max(s))
           Fold(iter, s) == IF s = {} THEN {}
                            ELSE IF \E i \in iter[s \ {Max(s)}] :
                                       DetectDuplicate(cards[i], cards[seq[Max(s)]])
                                 THEN iter[s \ {Max(s)}]
                                 ELSE iter[s \ {Max(s)}] \cup {seq[Max(s)]}
           Iter == CHOOSE iter : iter = [s \in SUBSET DOMAIN seq |-> Fold(iter, s)]
<1>1. DropDuplicateCards(cards) = Iter[D]
  <2>1. DropDuplicateCards(cards) = Iter[DOMAIN seq]
      BY DEF DropDuplicateCards, FoldLeft, MapThenFoldSet
  <2> HIDE DEF Iter
  <2> QED
      BY <2>1
<1>2. Iter = [s \in SUBSET D |-> Body(Iter, s)]
  <2> DEFINE V == SUBSET D
             step == [p \in D \X V |-> KeepOrDrop(cards, p[2], p[1])]
  <2>1. step \in Steps(n, V) /\ {} \in V
      BY DEF Steps, KeepOrDrop
  <2>2. PICK iter : IsFold(n, V, {}, step, iter)
    <3> HIDE DEF step, V
    <3> QED
        BY <2>1, FoldsExist
  <2>0. iter \in [SUBSET D -> V] /\ \A s \in SUBSET D : iter[s] = FoldStep({}, step, iter, s)
      BY <2>2 DEF IsFold
  <2>3. \A s \in SUBSET D : iter[s] = Body(iter, s)
    <3> SUFFICES ASSUME NEW s \in SUBSET D PROVE iter[s] = Body(iter, s)
        OBVIOUS
    <3>1. CASE s = {}
        BY <2>0, <3>1 DEF FoldStep
    <3>2. CASE s # {}
        <4>1. Max(s) \in D /\ s \ {Max(s)} \in SUBSET D
            BY <3>2, GreatestNumber
        <4>2. iter[s \ {Max(s)}] \in V
            BY <2>0, <4>1
        <4>3. step[<<Max(s), iter[s \ {Max(s)}]>>] = Body(iter, s)
            BY <3>2, <4>1, <4>2
        <4> QED
            BY <2>0, <3>2, <4>3 DEF FoldStep
    <3> QED
        BY <3>1, <3>2
  <2>4. DOMAIN seq = D /\ \A it : \A s \in SUBSET D : Fold(it, s) = Body(it, s)
    <3>1. \A s \in SUBSET D : s # {} => Max(s) \in D
        BY GreatestNumber
    <3>2. \A s \in SUBSET D : s # {} => seq[Max(s)] = Max(s)
        BY <3>1
    <3> HIDE DEF seq
    <3> QED
        BY <3>2 DEF KeepOrDrop, seq
  <2> HIDE DEF Body, Fold, seq
  <2>5. iter = [s \in SUBSET D |-> Body(iter, s)]
      BY <2>0, <2>3
  <2>6. iter = [s \in SUBSET DOMAIN seq |-> Fold(iter, s)]
      BY <2>4, <2>5
  <2>7. Iter = [s \in SUBSET DOMAIN seq |-> Fold(Iter, s)]
      BY <2>6
  <2> HIDE DEF Iter
  <2> QED
      BY <2>4, <2>7
<1> HIDE DEF Iter
<1>3. Iter[1 .. 0] = {}
    BY <1>2
<1>4. ASSUME NEW i \in D
      PROVE  Iter[1 .. i] = KeepOrDrop(cards, Iter[1 .. (i - 1)], i)
  <2>1. /\ i \in Nat /\ i # 0 /\ 1 .. i \in SUBSET D /\ 1 .. i # {}
        /\ Max(1 .. i) = i /\ (1 .. i) \ {i} = 1 .. (i - 1)
      BY GreatestOfAll
  <2>2. Iter[1 .. i] = Body(Iter, 1 .. i)
    <3> HIDE DEF Body
    <3> QED
        BY <1>2, <2>1
  <2> QED
      BY <2>1, <2>2
<1> DEFINE Wrong == {i \in Nat : i <= n /\ ~KeptBy(cards, Iter[1 .. i], i)}
<1>5. Wrong = {}
  <2> SUFFICES ASSUME Wrong # {} PROVE FALSE
      OBVIOUS
  <2>1. PICK i \in Wrong : \A j \in Wrong : i <= j
      BY LeastNumber
  <2>2. i # 0
    <3>1. KeptBy(cards, Iter[1 .. 0], 0)
        BY <1>3 DEF KeptBy
    <3> QED
        BY <3>1
  <2>3. i \in Nat /\ i - 1 \in Nat /\ i \in D /\ i - 1 <= n
      BY <2>2
  <2>4. i - 1 \notin Wrong
    <3> HIDE DEF Wrong
    <3> QED
        BY <2>1, <2>3
  <2>5. KeptBy(cards, Iter[1 .. (i - 1)], i - 1)
      BY <2>3, <2>4
  <2>6. KeptBy(cards, Iter[1 .. i], i)
      BY <1>4, <2>2, <2>3, <2>5, KeptByOneMore
  <2> QED
      BY <2>6
<1> QED
    BY <1>1, <1>5

\* What a deck is, and what is said of it.
LEMMA DeckFacts ==
    ASSUME Asked, Answered("deck")
    PROVE  /\ question.asked \in Seq([words : Wordings, prompt : Sides])
           /\ Said = DropDuplicateCards(question.asked)
<1>1. question \in Questions /\ question.about = "deck" /\ Said = AnswerTo("deck", question.asked)
    BY SaidOf
<1>2. question.asked \in Decks
    BY <1>1 DEF Questions
<1> QED
    BY <1>1, <1>2, DecksAssumption DEF AnswerTo

\* Reading like each other goes both ways.
LEMMA DuplicatesAreMutual ==
    ASSUME NEW a, NEW b, DetectDuplicate(a, b)
    PROVE  DetectDuplicate(b, a)
<1>1. <<b.words, a.words>> \in Alike
  <2>1. <<a.words, b.words>> \in Alike
      BY DEF DetectDuplicate
  <2>2. \A pair \in Alike : <<pair[2], pair[1]>> \in Alike
      BY CardRulesAssumption
  <2> QED
      BY <2>1, <2>2
<1> QED
    BY <1>1 DEF DetectDuplicate, MeaningfulDifference

\* Every card dropped is stated by one kept before it, and no kept card by
\* another, for any deck and any likeness that is not transitive
\* (cards.ts:126-163).
THEOREM SpecNoStatementIsLost == RulesSpec => []NoStatementIsLost
<1>1. Asked => NoStatementIsLost
  <2> SUFFICES ASSUME Asked, Answered("deck") PROVE NoStatementIsLost
      BY DEF NoStatementIsLost
  <2> DEFINE cards == question.asked
             same(i, j) == <<cards[i].words, cards[j].words>> \in Alike
                           /\ cards[i].prompt = cards[j].prompt
             n == Len(cards)
  <2>1. /\ cards \in Seq([words : Wordings, prompt : Sides])
        /\ Said = DropDuplicateCards(cards)
      BY DeckFacts
  <2>2. n \in Nat /\ DOMAIN cards = 1 .. n
      BY <2>1
  <2>3. \A i, j : same(i, j) <=> DetectDuplicate(cards[i], cards[j])
      BY DEF DetectDuplicate, MeaningfulDifference
  <2> HIDE DEF cards, n
  <2>4. KeptBy(cards, Said, n)
      BY <2>1, <2>2, DropKeepsOneOfEach
  <2>5. \A j \in DOMAIN cards \ Said : \E i \in Said : i < j /\ same(i, j)
      BY <2>2, <2>3, <2>4 DEF KeptBy
  <2>6. \A i, j \in Said : i # j => ~same(i, j)
    <3> SUFFICES ASSUME NEW i \in Said, NEW j \in Said, i # j, same(i, j) PROVE FALSE
        OBVIOUS
    <3>1. i \in 1 .. n /\ j \in 1 .. n
        BY <2>4 DEF KeptBy
    <3>2. DetectDuplicate(cards[i], cards[j]) /\ DetectDuplicate(cards[j], cards[i])
        BY <2>3, DuplicatesAreMutual
    <3>3. i < j \/ j < i
        BY <2>2, <3>1
    <3> QED
        BY <2>4, <3>2, <3>3 DEF KeptBy
  <2> QED
      BY <2>5, <2>6 DEF NoStatementIsLost, cards
<1> QED
    BY <1>1, SpecAsked, PTL

-----------------------------------------------------------------------------
(***************************************************************************)
(* A day of study.  The limits hold because a review of the normal queue   *)
(* counts, and a card it counted for is not fresh again until that review  *)
(* is undone and the deck opened again: so the reviews of a limit are no   *)
(* more than the day has counted, and the queue is cut to what the count   *)
(* leaves.                                                                 *)
(***************************************************************************)

Schedules == [due : Int, fresh : BOOLEAN]
DayReviews == [card : StudyCards, state : {"suspended", "new", "due", "later"},
               mode : {"normal", "cram"}, counts : BOOLEAN, before : Schedules]

StudyTypeOK == /\ schedule \in [StudyCards -> Schedules]
               /\ suspended \subseteq StudyCards
               /\ unstudied \subseteq StudyCards
               /\ today \in Seq(DayReviews)

\* A review of the normal queue counts, and a new card was fresh.
ReviewsSayWhatTheyWere ==
    \A i \in DOMAIN today : /\ today[i].mode = "normal" => today[i].counts
                            /\ today[i].state = "new" => today[i].before.fresh

\* A card a review counted for is not fresh after it, until that review is undone
\* and the deck is opened again.
CountedStayIntroduced ==
    /\ \A i \in DOMAIN today : today[i].counts => ~schedule[today[i].card].fresh
    /\ \A i, j \in DOMAIN today :
          i < j /\ today[i].counts /\ today[i].card = today[j].card => ~today[j].before.fresh

\* A card that is fresh, or was when it was reviewed, had no review before the day.
FreshAreUnstudied ==
    /\ \A card \in StudyCards : schedule[card].fresh => card \in unstudied
    /\ \A i \in DOMAIN today : today[i].before.fresh => today[i].card \in unstudied

Normal(state) == {i \in DOMAIN today : today[i].mode = "normal" /\ today[i].state = state}

WithinLimits == /\ Cardinality(Normal("due")) <= ReviewLimit
                /\ Cardinality(Normal("new")) <= NewLimit

StudyInv == /\ StudyTypeOK /\ ReviewsSayWhatTheyWere
            /\ CountedStayIntroduced /\ FreshAreUnstudied /\ WithinLimits

\* The order of due cards and that of new ones, as sets of pairs.
Overdue == {p \in StudyCards \X StudyCards : MoreOverdue(p[1], p[2])}
Older   == {p \in StudyCards \X StudyCards : OlderCard(p[1], p[2])}
ById    == {p \in StudyCards \X StudyCards : p[1] < p[2]}

\* The orders of the queue are total on any cards of the deck,
LEMMA OrdersAreTotal ==
    ASSUME StudyTypeOK, NEW S \in SUBSET StudyCards
    PROVE  IsTotalOrder(S, Overdue) /\ IsTotalOrder(S, Older) /\ IsTotalOrder(S, ById)
<1>1. \A a \in StudyCards : a \in Nat /\ CreatedAt[a] \in Nat /\ schedule[a].due \in Int
    BY StudyQueueAssumption DEF StudyTypeOK, Schedules
<1>2. \A a, b \in S : /\ <<a, b>> \in Overdue <=> MoreOverdue(a, b)
                      /\ <<a, b>> \in Older <=> OlderCard(a, b)
                      /\ <<a, b>> \in ById <=> a < b
    BY DEF Overdue, Older, ById
<1>3. IsTotalOrder(S, Overdue)
    BY <1>1, <1>2 DEF IsTotalOrder, MoreOverdue, OlderCard
<1>4. IsTotalOrder(S, Older)
    BY <1>1, <1>2 DEF IsTotalOrder, OlderCard
<1>5. IsTotalOrder(S, ById)
    BY <1>1, <1>2 DEF IsTotalOrder
<1> QED
    BY <1>3, <1>4, <1>5

\* A queue in one of the orders lists its set.
Lists(seq, S, R) ==
    /\ seq \in [1 .. Cardinality(S) -> S]
    /\ \A i, j \in 1 .. Cardinality(S) : i < j => <<seq[i], seq[j]>> \in R
    /\ \A a \in S : \E i \in 1 .. Cardinality(S) : seq[i] = a

\* so the queue lists those cards in them.
LEMMA InOrderLists ==
    ASSUME StudyTypeOK, NEW S \in SUBSET StudyCards
    PROVE  /\ IsFiniteSet(S) /\ Cardinality(S) \in Nat
           /\ Lists(InOrder(S, MoreOverdue), S, Overdue)
           /\ Lists(InOrder(S, OlderCard), S, Older)
<1>1. IsFiniteSet(S) /\ Cardinality(S) \in Nat
    BY StudyQueueAssumption, FS_Subset, FS_CardinalityType
<1>2. IsTotalOrder(S, Overdue) /\ IsTotalOrder(S, Older)
    BY OrdersAreTotal
<1>3. Lists(InOrder(S, MoreOverdue), S, Overdue)
    <2> DEFINE seq == InOrder(S, MoreOverdue)
    <2>1. \E q \in [1 .. Cardinality(S) -> S] :
              \A i, j \in 1 .. Cardinality(S) : i < j => <<q[i], q[j]>> \in Overdue
        BY <1>1, <1>2, OrderExists
    <2>2. \E q \in [1 .. Cardinality(S) -> S] :
              \A i, j \in 1 .. Cardinality(S) : i < j => MoreOverdue(q[i], q[j])
        BY <2>1 DEF Overdue
    <2>3. /\ seq \in [1 .. Cardinality(S) -> S]
          /\ \A i, j \in 1 .. Cardinality(S) : i < j => MoreOverdue(seq[i], seq[j])
        BY <2>2 DEF InOrder
    <2>4. \A i, j \in 1 .. Cardinality(S) : i < j => <<seq[i], seq[j]>> \in Overdue
        BY <2>3 DEF Overdue
    <2> HIDE DEF seq
    <2>5. \A a \in S : \E i \in 1 .. Cardinality(S) : seq[i] = a
        BY <1>1, <1>2, <2>3, <2>4, OrderLists
    <2> QED
        BY <2>3, <2>4, <2>5 DEF Lists, seq
<1>4. Lists(InOrder(S, OlderCard), S, Older)
    <2> DEFINE seq == InOrder(S, OlderCard)
    <2>1. \E q \in [1 .. Cardinality(S) -> S] :
              \A i, j \in 1 .. Cardinality(S) : i < j => <<q[i], q[j]>> \in Older
        BY <1>1, <1>2, OrderExists
    <2>2. \E q \in [1 .. Cardinality(S) -> S] :
              \A i, j \in 1 .. Cardinality(S) : i < j => OlderCard(q[i], q[j])
        BY <2>1 DEF Older
    <2>3. /\ seq \in [1 .. Cardinality(S) -> S]
          /\ \A i, j \in 1 .. Cardinality(S) : i < j => OlderCard(seq[i], seq[j])
        BY <2>2 DEF InOrder
    <2>4. \A i, j \in 1 .. Cardinality(S) : i < j => <<seq[i], seq[j]>> \in Older
        BY <2>3 DEF Older
    <2> HIDE DEF seq
    <2>5. \A a \in S : \E i \in 1 .. Cardinality(S) : seq[i] = a
        BY <1>1, <1>2, <2>3, <2>4, OrderLists
    <2> QED
        BY <2>3, <2>4, <2>5 DEF Lists, seq
<1> QED
    BY <1>1, <1>3, <1>4

\* The smaller of two numbers.
LEMMA MinOfTwo ==
    ASSUME NEW a \in Nat, NEW b \in Nat
    PROVE  /\ Min({a, b}) \in Nat /\ Min({a, b}) <= a /\ Min({a, b}) <= b
           /\ Min({a, b}) = a \/ Min({a, b}) = b
<1>1. \E x \in {a, b} : \A y \in {a, b} : x <= y
    <2>1. CASE a <= b
        BY <2>1
    <2>2. CASE b <= a
        BY <2>2
    <2> QED
        BY <2>1, <2>2
<1>2. Min({a, b}) \in {a, b} /\ \A y \in {a, b} : Min({a, b}) <= y
    BY <1>1 DEF Min
<1> QED
    BY <1>2

DueQueue == InOrder(InState("due"), MoreOverdue)
NewQueue == InOrder(InState("new"), OlderCard)
DueShown == Min({Room(ReviewLimit, ReviewEventsToday), Cardinality(InState("due"))})
NewShown == Min({Room(NewLimit, NewCardsIntroducedToday), Cardinality(InState("new"))})

\* What the day has counted are numbers.
LEMMA DayCounts ==
    ASSUME StudyTypeOK
    PROVE  /\ ReviewEventsToday \in Nat /\ NewCardsIntroducedToday \in Nat
           /\ \A S \in SUBSET DOMAIN today : IsFiniteSet(S)
<1>1. DOMAIN today = 1 .. Len(today) /\ Len(today) \in Nat
    BY DEF StudyTypeOK
<1>2. IsFiniteSet(DOMAIN today)
    BY <1>1, FS_Interval
<1>3. \A S \in SUBSET DOMAIN today : IsFiniteSet(S)
    BY <1>2, FS_Subset
<1>4. ReviewEventsToday \in Nat
    BY <1>3, FS_CardinalityType DEF ReviewEventsToday
<1> DEFINE cards == StudiedToday \cap unstudied
<1>5. cards \in SUBSET StudyCards /\ NewCardsIntroducedToday = Cardinality(cards)
    BY DEF NewCardsIntroducedToday, StudyTypeOK
<1> HIDE DEF cards
<1>6. NewCardsIntroducedToday \in Nat
    <2>1. IsFiniteSet(StudyCards)
        BY StudyQueueAssumption
    <2>2. IsFiniteSet(cards)
        BY <1>5, <2>1, FS_Subset
    <2> QED
        BY <1>5, <2>2, FS_CardinalityType
<1> QED
    BY <1>3, <1>4, <1>6

\* What the queue of a session is made of.
LEMMA QueueFacts ==
    ASSUME StudyTypeOK
    PROVE  /\ Lists(DueQueue, InState("due"), Overdue)
           /\ Lists(NewQueue, InState("new"), Older)
           /\ DueShown \in 0 .. Cardinality(InState("due"))
           /\ NewShown \in 0 .. Cardinality(InState("new"))
           /\ Cardinality(InState("due")) \in Nat /\ Cardinality(InState("new")) \in Nat
           /\ DueShown > 0 => ReviewEventsToday < ReviewLimit
           /\ NewShown > 0 => NewCardsIntroducedToday < NewLimit
           /\ ToSet(SelectStudyQueue("normal"))
                = {DueQueue[i] : i \in 1 .. DueShown} \cup {NewQueue[i] : i \in 1 .. NewShown}
           /\ Eligible = DueShown + NewShown
<1> DEFINE D == InState("due")
           N == InState("new")
           r == Room(ReviewLimit, ReviewEventsToday)
           m == Room(NewLimit, NewCardsIntroducedToday)
<1>1. D \in SUBSET StudyCards /\ N \in SUBSET StudyCards
    BY DEF InState
<1>2. /\ Cardinality(D) \in Nat /\ Cardinality(N) \in Nat
      /\ Lists(DueQueue, D, Overdue) /\ Lists(NewQueue, N, Older)
    <2> HIDE DEF D, N
    <2> QED
        BY <1>1, InOrderLists DEF DueQueue, NewQueue, D, N
<1>3. /\ r \in Nat /\ (r > 0 => ReviewEventsToday < ReviewLimit)
      /\ m \in Nat /\ (m > 0 => NewCardsIntroducedToday < NewLimit)
    BY DayCounts, StudyQueueAssumption DEF Room
<1>4. /\ DueShown \in 0 .. Cardinality(D) /\ DueShown <= r
      /\ NewShown \in 0 .. Cardinality(N) /\ NewShown <= m
    <2> HIDE DEF D, N, r, m
    <2>1. /\ Min({r, Cardinality(D)}) \in Nat /\ Min({r, Cardinality(D)}) <= r
          /\ Min({r, Cardinality(D)}) <= Cardinality(D)
        BY <1>2, <1>3, MinOfTwo
    <2>2. /\ Min({m, Cardinality(N)}) \in Nat /\ Min({m, Cardinality(N)}) <= m
          /\ Min({m, Cardinality(N)}) <= Cardinality(N)
        BY <1>2, <1>3, MinOfTwo
    <2> QED
        BY <1>2, <1>3, <2>1, <2>2 DEF DueShown, NewShown, D, N, r, m
<1>5. /\ DueQueue \in Seq(D) /\ Len(DueQueue) = Cardinality(D)
      /\ NewQueue \in Seq(N) /\ Len(NewQueue) = Cardinality(N)
    <2> HIDE DEF D, N
    <2>1. DueQueue \in [1 .. Cardinality(D) -> D] /\ NewQueue \in [1 .. Cardinality(N) -> N]
        BY <1>2 DEF Lists
    <2> QED
        BY <1>2, <2>1
<1> DEFINE a == First(r, DueQueue)
           b == First(m, NewQueue)
<1>6. SelectStudyQueue("normal") = a \o b
    BY DEF SelectStudyQueue, DueQueue, NewQueue
<1>7. a = SubSeq(DueQueue, 1, DueShown) /\ b = SubSeq(NewQueue, 1, NewShown)
    BY <1>5 DEF First, DueShown, NewShown
<1> HIDE DEF D, N, r, m
<1>8. /\ a \in Seq(D) /\ Len(a) = DueShown /\ \A i \in 1 .. DueShown : a[i] = DueQueue[i]
      /\ b \in Seq(N) /\ Len(b) = NewShown /\ \A i \in 1 .. NewShown : b[i] = NewQueue[i]
    <2> HIDE DEF a, b
    <2>1. /\ DueShown \in 0 .. Len(DueQueue) /\ Len(DueQueue) \in Nat
          /\ NewShown \in 0 .. Len(NewQueue) /\ Len(NewQueue) \in Nat
        BY <1>2, <1>4, <1>5
    <2>2. /\ a \in Seq(D) /\ Len(a) = DueShown /\ \A i \in 1 .. DueShown : a[i] = DueQueue[i]
        <3>1. \A i \in 1 .. DueShown : DueQueue[i] \in D
            BY <1>5, <2>1
        <3> QED
            BY <1>5, <1>7, <2>1, <3>1
    <2>3. /\ b \in Seq(N) /\ Len(b) = NewShown /\ \A i \in 1 .. NewShown : b[i] = NewQueue[i]
        <3>1. \A i \in 1 .. NewShown : NewQueue[i] \in N
            BY <1>5, <2>1
        <3> QED
            BY <1>5, <1>7, <2>1, <3>1
    <2> QED
        BY <2>2, <2>3
<1>9. Eligible = DueShown + NewShown
    <2> HIDE DEF a, b
    <2> QED
        BY <1>6, <1>8 DEF Eligible
<1>10. ToSet(a \o b) = {DueQueue[i] : i \in 1 .. DueShown} \cup {NewQueue[i] : i \in 1 .. NewShown}
    <2> HIDE DEF a, b
    <2>1. DueShown \in Nat /\ NewShown \in Nat
        BY <1>2, <1>4
    <2>2. DOMAIN (a \o b) = 1 .. DueShown + NewShown
        BY <1>8, <2>1
    <2>3. \A i \in 1 .. DueShown : (a \o b)[i] = DueQueue[i]
        BY <1>8, <2>1
    <2>4. \A i \in 1 .. NewShown : (a \o b)[DueShown + i] = NewQueue[i]
        BY <1>8, <2>1
    <2>5. ASSUME NEW x \in ToSet(a \o b)
          PROVE  x \in {DueQueue[i] : i \in 1 .. DueShown} \cup {NewQueue[i] : i \in 1 .. NewShown}
        <3>1. PICK i \in 1 .. DueShown + NewShown : x = (a \o b)[i]
            BY <2>2 DEF ToSet
        <3>2. CASE i <= DueShown
            <4>1. i \in 1 .. DueShown
                BY <2>1, <3>1, <3>2
            <4>2. x = DueQueue[i]
                BY <2>3, <3>1, <4>1
            <4> QED
                BY <4>1, <4>2
        <3>3. CASE i > DueShown
            <4>1. i - DueShown \in 1 .. NewShown /\ i = DueShown + (i - DueShown)
                BY <2>1, <3>1, <3>3
            <4>2. x = NewQueue[i - DueShown]
                BY <2>4, <3>1, <4>1
            <4> QED
                BY <4>1, <4>2
        <3>4. i <= DueShown \/ i > DueShown
            BY <2>1, <3>1
        <3> QED
            BY <3>2, <3>3, <3>4
    <2>6. ASSUME NEW i \in 1 .. DueShown PROVE DueQueue[i] \in ToSet(a \o b)
        <3>1. i \in DOMAIN (a \o b)
            BY <2>1, <2>2
        <3> QED
            BY <2>3, <3>1 DEF ToSet
    <2>7. ASSUME NEW i \in 1 .. NewShown PROVE NewQueue[i] \in ToSet(a \o b)
        <3>1. DueShown + i \in DOMAIN (a \o b)
            BY <2>1, <2>2
        <3> QED
            BY <2>4, <3>1 DEF ToSet
    <2> QED
        BY <2>5, <2>6, <2>7
<1>11. /\ DueShown > 0 => ReviewEventsToday < ReviewLimit
       /\ NewShown > 0 => NewCardsIntroducedToday < NewLimit
    BY <1>2, <1>3, <1>4
<1> HIDE DEF a, b
<1> QED
    BY <1>2, <1>4, <1>6, <1>9, <1>10, <1>11 DEF D, N

\* A card shown for being due, or new, was let in by its limit.
LEMMA ShownWithinLimits ==
    ASSUME StudyTypeOK, NEW card \in ToSet(SelectStudyQueue("normal"))
    PROVE  /\ card \in InState("due") \cup InState("new")
           /\ CardStudyState(card) = "due" => ReviewEventsToday < ReviewLimit
           /\ CardStudyState(card) = "new" => NewCardsIntroducedToday < NewLimit
<1>1. \/ \E i \in 1 .. DueShown : card = DueQueue[i]
      \/ \E i \in 1 .. NewShown : card = NewQueue[i]
    BY QueueFacts
<1>2. CASE \E i \in 1 .. DueShown : card = DueQueue[i]
    <2>1. PICK i \in 1 .. DueShown : card = DueQueue[i]
        BY <1>2
    <2>2. DueShown \in Nat /\ i \in 1 .. Cardinality(InState("due"))
        BY QueueFacts
    <2>3. card \in InState("due")
        BY <2>1, <2>2, QueueFacts DEF Lists
    <2>4. ReviewEventsToday < ReviewLimit
        BY <2>2, QueueFacts
    <2> QED
        BY <2>3, <2>4 DEF InState
<1>3. CASE \E i \in 1 .. NewShown : card = NewQueue[i]
    <2>1. PICK i \in 1 .. NewShown : card = NewQueue[i]
        BY <1>3
    <2>2. NewShown \in Nat /\ i \in 1 .. Cardinality(InState("new"))
        BY QueueFacts
    <2>3. card \in InState("new")
        BY <2>1, <2>2, QueueFacts DEF Lists
    <2>4. NewCardsIntroducedToday < NewLimit
        BY <2>2, QueueFacts
    <2> QED
        BY <2>3, <2>4 DEF InState
<1> QED
    BY <1>1, <1>2, <1>3

\* A review of the day is of a card of the deck.
LEMMA TodayCards ==
    ASSUME StudyTypeOK, NEW i \in DOMAIN today
    PROVE  /\ today[i] \in DayReviews
           /\ today[i].card \in StudyCards /\ today[i].before \in Schedules
<1>1. today[i] \in DayReviews
    BY DEF StudyTypeOK
<1> QED
    BY <1>1 DEF DayReviews

\* A day starts with no reviews.
LEMMA StudyInvInit == StudyInit => StudyInv
<1> SUFFICES ASSUME StudyInit PROVE StudyInv
    OBVIOUS
<1>1. StudyTypeOK
    <2> DEFINE Known == [due : (Now - 1) .. (Now + 1), fresh : {FALSE}]
    <2>1. NewCard \in Schedules
        BY StudyQueueAssumption DEF NewCard, Schedules
    <2>2. \A k \in Known : k \in Schedules
        <3> DEFINE Days == (Now - 1) .. (Now + 1)
        <3>1. Days \subseteq Int
            BY StudyQueueAssumption
        <3> HIDE DEF Days
        <3>2. \A k \in [due : Days, fresh : {FALSE}] : k \in [due : Int, fresh : BOOLEAN]
            BY <3>1
        <3> QED
            BY <3>2 DEF Schedules, Days
    <2>3. schedule \in [StudyCards -> {NewCard} \cup Known]
        BY DEF StudyInit
    <2> HIDE DEF Known
    <2>4. schedule \in [StudyCards -> Schedules]
        BY <2>1, <2>2, <2>3
    <2>5. today \in Seq(DayReviews)
        BY DEF StudyInit
    <2> QED
        BY <2>4, <2>5 DEF StudyInit, StudyTypeOK
<1>2. DOMAIN today = {}
    BY DEF StudyInit
<1>3. ReviewsSayWhatTheyWere /\ CountedStayIntroduced /\ FreshAreUnstudied
    BY <1>2 DEF ReviewsSayWhatTheyWere, CountedStayIntroduced, FreshAreUnstudied, StudyInit
<1>4. Normal("due") = {} /\ Normal("new") = {}
    BY <1>2 DEF Normal
<1>5. WithinLimits
    BY <1>4, FS_EmptySet, StudyQueueAssumption DEF WithinLimits
<1> QED
    BY <1>1, <1>3, <1>5 DEF StudyInv

\* What a rating adds.
Rated(card, mode, counts) == [card |-> card, state |-> CardStudyState(card), mode |-> mode,
                              counts |-> counts, before |-> schedule[card]]

\* A rating adds one review and moves at most its own card.
LEMMA RateFacts ==
    ASSUME StudyInv, NEW card \in StudyCards, NEW mode \in {"normal", "cram"},
           NEW counts \in BOOLEAN, Rate(card, mode, counts)
    PROVE  /\ Rated(card, mode, counts) \in DayReviews
           /\ Len(today) \in Nat /\ DOMAIN today = 1 .. Len(today)
           /\ today' \in Seq(DayReviews) /\ Len(today') = Len(today) + 1
           /\ DOMAIN today' = 1 .. Len(today) + 1
           /\ \A i \in DOMAIN today : today'[i] = today[i]
           /\ today'[Len(today) + 1] = Rated(card, mode, counts)
           /\ schedule[card] \in Schedules
           /\ schedule' \in [StudyCards -> Schedules]
           /\ \A c \in StudyCards \ {card} : schedule'[c] = schedule[c]
           /\ counts => ~schedule'[card].fresh
           /\ ~counts => schedule'[card] = schedule[card]
           /\ suspended' = suspended /\ unstudied' = unstudied
<1> StudyTypeOK
    BY DEF StudyInv
<1>1. schedule[card] \in Schedules
    BY DEF StudyTypeOK
<1>2. CardStudyState(card) \in {"suspended", "new", "due", "later"}
    BY DEF CardStudyState
<1>3. Rated(card, mode, counts) \in DayReviews
    BY <1>1, <1>2 DEF Rated, DayReviews
<1>4. today' = Append(today, Rated(card, mode, counts))
    BY DEF Rate, Rated
<1>5. today \in Seq(DayReviews) /\ Len(today) \in Nat
    BY DEF StudyTypeOK
<1>6. /\ today' \in Seq(DayReviews) /\ Len(today') = Len(today) + 1
      /\ DOMAIN today = 1 .. Len(today)
      /\ \A i \in DOMAIN today : today'[i] = today[i]
      /\ today'[Len(today) + 1] = Rated(card, mode, counts)
    <2> DEFINE new == Rated(card, mode, counts)
    <2> HIDE DEF new
    <2>1. new \in DayReviews /\ today' = Append(today, new)
        BY <1>3, <1>4 DEF new
    <2>2. /\ today' \in Seq(DayReviews) /\ Len(today') = Len(today) + 1
          /\ DOMAIN today = 1 .. Len(today)
          /\ \A i \in DOMAIN today : today'[i] = today[i]
          /\ today'[Len(today) + 1] = new
        BY <1>5, <2>1
    <2> QED
        BY <2>2 DEF new
<1>7. DOMAIN today' = 1 .. Len(today) + 1
    BY <1>6
<1>8. [due |-> Now + 1, fresh |-> FALSE] \in Schedules
    BY StudyQueueAssumption DEF Schedules
<1>9. CASE counts
    <2>1. schedule' = [schedule EXCEPT ![card] = [due |-> Now + 1, fresh |-> FALSE]]
        BY <1>9 DEF Rate
    <2>2. schedule' \in [StudyCards -> Schedules]
        BY <1>8, <2>1 DEF StudyTypeOK
    <2>3. \A c \in StudyCards \ {card} : schedule'[c] = schedule[c]
        BY <2>1 DEF StudyTypeOK
    <2>4. schedule'[card] = [due |-> Now + 1, fresh |-> FALSE]
        BY <2>1 DEF StudyTypeOK
    <2>5. ~schedule'[card].fresh
        BY <2>4
    <2> QED
        BY <1>1, <1>3, <1>5, <1>6, <1>7, <1>9, <2>2, <2>3, <2>5 DEF Rate
<1>10. CASE ~counts
    <2>1. schedule' = schedule
        BY <1>10 DEF Rate
    <2> QED
        BY <1>1, <1>3, <1>5, <1>6, <1>7, <1>10, <2>1 DEF Rate, StudyTypeOK
<1> QED
    BY <1>9, <1>10

\* It says what it was, and the card it counted for is no longer fresh.
LEMMA RateKeeps ==
    ASSUME StudyInv, NEW card \in StudyCards, NEW mode \in {"normal", "cram"},
           NEW counts \in BOOLEAN, Rate(card, mode, counts)
    PROVE  /\ StudyTypeOK' /\ ReviewsSayWhatTheyWere'
           /\ CountedStayIntroduced' /\ FreshAreUnstudied'
<1> DEFINE n == Len(today) + 1
           new == Rated(card, mode, counts)
<1>1. /\ new \in DayReviews /\ n \in Nat /\ DOMAIN today = 1 .. (n - 1) /\ DOMAIN today' = 1 .. n
      /\ \A i \in DOMAIN today : today'[i] = today[i]
      /\ today'[n] = new
    BY RateFacts
<1>2. /\ schedule[card] \in Schedules
      /\ \A c \in StudyCards \ {card} : schedule'[c] = schedule[c]
      /\ counts => ~schedule'[card].fresh
      /\ ~counts => schedule'[card] = schedule[card]
    BY RateFacts
<1>3. StudyTypeOK'
    BY RateFacts DEF StudyTypeOK, StudyInv
<1>4. /\ new.card = card /\ new.mode = mode /\ new.state = CardStudyState(card)
      /\ new.before = schedule[card]
    BY DEF Rated
<1>5. new.counts = counts
    BY DEF Rated
<1>6. \A i \in DOMAIN today' : i \in DOMAIN today \/ i = n
    BY <1>1
<1>7. \A i \in DOMAIN today : i < n /\ i \in DOMAIN today'
    BY <1>1
<1> HIDE DEF n, new
<1>8. ReviewsSayWhatTheyWere'
    <2>1. new.mode = "normal" => new.counts
        BY <1>4, <1>5 DEF Rate
    <2>2. new.state = "new" => new.before.fresh
        BY <1>4 DEF CardStudyState
    <2> QED
        BY <1>1, <1>6, <2>1, <2>2 DEF ReviewsSayWhatTheyWere, StudyInv
<1>9. \A i \in DOMAIN today : today[i].card \in StudyCards
    BY TodayCards DEF StudyInv
<1>10. \A i \in DOMAIN today : today[i].counts => ~schedule[today[i].card].fresh
    BY DEF StudyInv, CountedStayIntroduced
<1>11. \A i \in DOMAIN today' : today'[i].counts => ~schedule'[today'[i].card].fresh
    <2>1. ASSUME NEW i \in DOMAIN today, today[i].counts
          PROVE  ~schedule'[today[i].card].fresh
        <3>1. CASE today[i].card # card
            BY <1>2, <1>9, <1>10, <2>1, <3>1
        <3>2. CASE today[i].card = card
            BY <1>2, <1>10, <2>1, <3>2
        <3> QED
            BY <3>1, <3>2
    <2>2. new.counts => ~schedule'[new.card].fresh
        BY <1>2, <1>4, <1>5
    <2> QED
        BY <1>1, <1>6, <2>1, <2>2
<1>12. \A i, j \in DOMAIN today' :
          i < j /\ today'[i].counts /\ today'[i].card = today'[j].card => ~today'[j].before.fresh
    <2> SUFFICES ASSUME NEW i \in DOMAIN today', NEW j \in DOMAIN today', i < j,
                        today'[i].counts, today'[i].card = today'[j].card
                 PROVE  ~today'[j].before.fresh
        OBVIOUS
    <2>1. i \in DOMAIN today
        BY <1>1
    <2>2. today'[i] = today[i]
        BY <1>1, <2>1
    <2>3. CASE j \in DOMAIN today
        <3>1. today'[j] = today[j]
            BY <1>1, <2>3
        <3> QED
            BY <2>1, <2>2, <2>3, <3>1 DEF StudyInv, CountedStayIntroduced
    <2>4. CASE j = n
        <3>1. today'[j] = new
            BY <1>1, <2>4
        <3>2. today[i].counts /\ today[i].card = card
            BY <2>2, <3>1, <1>4
        <3>3. ~schedule[card].fresh
            BY <1>10, <2>1, <3>2
        <3> QED
            BY <1>4, <3>1, <3>3
    <2> QED
        BY <1>6, <2>3, <2>4
<1>13. CountedStayIntroduced'
    BY <1>11, <1>12 DEF CountedStayIntroduced
<1>14. FreshAreUnstudied'
    <2>1. /\ unstudied' = unstudied
          /\ \A c \in StudyCards : schedule[c].fresh => c \in unstudied
          /\ \A i \in DOMAIN today : today[i].before.fresh => today[i].card \in unstudied
        BY RateFacts DEF StudyInv, FreshAreUnstudied
    <2>2. ASSUME NEW c \in StudyCards, schedule'[c].fresh PROVE c \in unstudied
        <3>1. CASE c # card
            BY <1>2, <2>1, <2>2, <3>1
        <3>2. CASE c = card
            BY <1>2, <2>1, <2>2, <3>2
        <3> QED
            BY <3>1, <3>2
    <2>3. new.before.fresh => new.card \in unstudied
        BY <1>4, <2>1
    <2>4. \A i \in DOMAIN today' : today'[i].before.fresh => today'[i].card \in unstudied
        BY <1>1, <1>6, <2>1, <2>3
    <2> QED
        BY <2>1, <2>2, <2>4 DEF FreshAreUnstudied
<1> QED
    BY <1>3, <1>8, <1>13, <1>14

\* The new cards the normal queue introduced are as many as its reviews of them.
LEMMA NormalReviewsCount ==
    ASSUME StudyInv
    PROVE  /\ Cardinality(Normal("due")) <= ReviewEventsToday
           /\ Cardinality(Normal("new")) <= NewCardsIntroducedToday
           /\ \A s : IsFiniteSet(Normal(s)) /\ Cardinality(Normal(s)) \in Nat
<1> StudyTypeOK
    BY DEF StudyInv
<1>1. \A s : IsFiniteSet(Normal(s)) /\ Cardinality(Normal(s)) \in Nat
    <2>1. \A s : Normal(s) \in SUBSET DOMAIN today
        BY DEF Normal
    <2> QED
        BY <2>1, DayCounts, FS_CardinalityType
<1> DEFINE counted == {i \in DOMAIN today : today[i].counts}
           introduced == StudiedToday \cap unstudied
<1>2. Cardinality(Normal("due")) <= ReviewEventsToday
    <2>1. Normal("due") \subseteq counted
        BY DEF Normal, StudyInv, ReviewsSayWhatTheyWere
    <2>2. IsFiniteSet(counted)
        BY DayCounts
    <2>3. ReviewEventsToday = Cardinality(counted)
        BY DEF ReviewEventsToday
    <2> HIDE DEF counted
    <2> QED
        BY <2>1, <2>2, <2>3, FS_Subset
<1>3. Cardinality(Normal("new")) <= NewCardsIntroducedToday
    <2> DEFINE f == [i \in Normal("new") |-> today[i].card]
    <2>1. \A i \in Normal("new") : /\ i \in DOMAIN today /\ today[i].counts
                                   /\ today[i].before.fresh
        BY DEF Normal, StudyInv, ReviewsSayWhatTheyWere
    <2>2. \A i \in Normal("new") : today[i].card \in introduced
        BY <2>1 DEF StudiedToday, StudyInv, FreshAreUnstudied
    <2>3. f \in [Normal("new") -> introduced]
        BY <2>2
    <2>4. \A i, j \in Normal("new") : f[i] = f[j] => i = j
        <3> SUFFICES ASSUME NEW i \in Normal("new"), NEW j \in Normal("new"),
                            today[i].card = today[j].card, i < j
                     PROVE  FALSE
            <4>1. \A i \in Normal("new") : i \in Nat
                BY <2>1 DEF StudyTypeOK
            <4> QED
                BY <4>1
        <3>1. ~today[j].before.fresh
            BY <2>1 DEF StudyInv, CountedStayIntroduced
        <3> QED
            BY <2>1, <3>1
    <2>5. f \in Injection(Normal("new"), introduced)
        <3> HIDE DEF f, introduced
        <3> QED
            BY <2>3, <2>4 DEF Injection, IsInjective
    <2>6. introduced \subseteq StudyCards
        BY DEF StudyTypeOK
    <2>7. NewCardsIntroducedToday = Cardinality(introduced)
        BY DEF NewCardsIntroducedToday
    <2> HIDE DEF introduced, f
    <2>8. IsFiniteSet(introduced)
        BY <2>6, StudyQueueAssumption, FS_Subset
    <2> QED
        BY <2>5, <2>7, <2>8, FS_Injection
<1> QED
    BY <1>1, <1>2, <1>3

\* A due or new card of the normal queue was let in by its limit.
LEMMA RateWithinLimits ==
    ASSUME StudyInv, NEW card \in StudyCards, NEW mode \in {"normal", "cram"},
           NEW counts \in BOOLEAN, Rate(card, mode, counts)
    PROVE  WithinLimits'
<1> DEFINE n == Len(today) + 1
           new == Rated(card, mode, counts)
<1>1. /\ DOMAIN today = 1 .. (n - 1) /\ DOMAIN today' = 1 .. n /\ n \in Nat
      /\ \A i \in DOMAIN today : today'[i] = today[i]
      /\ today'[n] = new
    BY RateFacts
<1>2. new.mode = mode /\ new.state = CardStudyState(card)
    BY DEF Rated
<1> HIDE DEF n, new
<1>3. \A s : Normal(s)' \subseteq Normal(s) \cup {n}
    BY <1>1 DEF Normal
<1>4. \A s : n \in Normal(s)' => mode = "normal" /\ CardStudyState(card) = s
    BY <1>1, <1>2 DEF Normal
<1>5. /\ \A s : IsFiniteSet(Normal(s)) /\ Cardinality(Normal(s)) \in Nat
      /\ Cardinality(Normal("due")) <= ReviewEventsToday
      /\ Cardinality(Normal("new")) <= NewCardsIntroducedToday
    BY NormalReviewsCount
<1>6. /\ mode = "normal" /\ CardStudyState(card) = "due" => ReviewEventsToday < ReviewLimit
      /\ mode = "normal" /\ CardStudyState(card) = "new" => NewCardsIntroducedToday < NewLimit
    BY ShownWithinLimits DEF Rate, StudyInv
<1>7. ReviewEventsToday \in Nat /\ NewCardsIntroducedToday \in Nat
      /\ ReviewLimit \in Nat /\ NewLimit \in Nat
    BY DayCounts, StudyQueueAssumption DEF StudyInv
<1>8. \A s : /\ Cardinality(Normal(s)') \in Nat
             /\ Cardinality(Normal(s)') <= Cardinality(Normal(s)) + 1
             /\ n \notin Normal(s)' => Cardinality(Normal(s)') <= Cardinality(Normal(s))
    <2> SUFFICES ASSUME NEW s
                 PROVE  /\ Cardinality(Normal(s)') \in Nat
                        /\ Cardinality(Normal(s)') <= Cardinality(Normal(s)) + 1
                        /\ n \notin Normal(s)' => Cardinality(Normal(s)') <= Cardinality(Normal(s))
        OBVIOUS
    <2> DEFINE A == Normal(s)
               B == Normal(s)'
    <2>1. IsFiniteSet(A) /\ Cardinality(A) \in Nat /\ B \subseteq A \cup {n}
        BY <1>3, <1>5
    <2> HIDE DEF A, B
    <2>2. /\ IsFiniteSet(A \cup {n})
          /\ Cardinality(A \cup {n}) <= Cardinality(A) + 1 /\ Cardinality(A \cup {n}) \in Nat
        BY <2>1, FS_AddElement, FS_CardinalityType
    <2>3. IsFiniteSet(B) /\ Cardinality(B) <= Cardinality(A \cup {n})
        BY <2>1, <2>2, FS_Subset
    <2>4. Cardinality(B) \in Nat
        BY <2>3, FS_CardinalityType
    <2>5. n \notin B => Cardinality(B) <= Cardinality(A)
        BY <2>1, FS_Subset
    <2>6. Cardinality(B) <= Cardinality(A) + 1
        BY <2>1, <2>2, <2>3, <2>4
    <2> QED
        BY <2>4, <2>5, <2>6 DEF A, B
<1>9. Cardinality(Normal("due")') <= ReviewLimit
    <2>1. CASE n \in Normal("due")'
        <3>1. ReviewEventsToday < ReviewLimit
            BY <1>4, <1>6, <2>1
        <3> QED
            BY <1>5, <1>7, <1>8, <3>1
    <2>2. CASE n \notin Normal("due")'
        BY <1>5, <1>7, <1>8, <2>2 DEF StudyInv, WithinLimits
    <2> QED
        BY <2>1, <2>2
<1>10. Cardinality(Normal("new")') <= NewLimit
    <2>1. CASE n \in Normal("new")'
        <3>1. NewCardsIntroducedToday < NewLimit
            BY <1>4, <1>6, <2>1
        <3> QED
            BY <1>5, <1>7, <1>8, <3>1
    <2>2. CASE n \notin Normal("new")'
        BY <1>5, <1>7, <1>8, <2>2 DEF StudyInv, WithinLimits
    <2> QED
        BY <2>1, <2>2
<1> QED
    BY <1>9, <1>10 DEF WithinLimits

\* A review is taken back: those after it move up, and only its card's schedule changes,
\* which is fresh only where it was.
LEMMA UndoFacts ==
    ASSUME StudyInv, NEW card \in StudyCards, UndoReview(card)
    PROVE  \E k \in DOMAIN today :
              /\ today[k].card = card
              /\ \A j \in DOMAIN today : today[j].card = card => j <= k
              /\ today' \in Seq(DayReviews)
              /\ Len(today) \in Nat /\ DOMAIN today = 1 .. Len(today)
              /\ DOMAIN today' = 1 .. Len(today) - 1
              /\ \A i \in DOMAIN today' :
                    \E j \in DOMAIN today \ {k} :
                       j = (IF i < k THEN i ELSE i + 1) /\ today'[i] = today[j]
              /\ schedule' \in [StudyCards -> Schedules]
              /\ \A c \in StudyCards \ {card} : schedule'[c] = schedule[c]
              /\ schedule'[card].fresh => schedule[card].fresh
              /\ suspended' = suspended /\ unstudied' = unstudied
<1> StudyTypeOK
    BY DEF StudyInv
<1>1. PICK k \in DOMAIN today :
          /\ today[k].card = card
          /\ \A j \in DOMAIN today : today[j].card = card => j <= k
          /\ today' = RemoveAt(today, k)
          /\ schedule' = IF today[k].counts
                         THEN [schedule EXCEPT ![card] =
                                 IF today[k].before.fresh THEN Undated ELSE today[k].before]
                         ELSE schedule
          /\ UNCHANGED <<suspended, unstudied>>
    BY DEF UndoReview
<1> DEFINE n == Len(today)
<1>2. n \in Nat /\ DOMAIN today = 1 .. n /\ k \in 1 .. n /\ today \in Seq(DayReviews)
    BY DEF StudyTypeOK
<1> DEFINE before == SubSeq(today, 1, k - 1)
           after  == SubSeq(today, k + 1, n)
<1>3. \A i \in 1 .. n : today[i] \in DayReviews
    BY <1>2, TodayCards
<1>4. /\ before \in Seq(DayReviews) /\ Len(before) = k - 1
      /\ \A i \in 1 .. k - 1 : before[i] = today[i]
    BY <1>2, <1>3
<1>5. /\ after \in Seq(DayReviews) /\ Len(after) = n - k
      /\ \A i \in 1 .. n - k : after[i] = today[k + i]
    <2> HIDE DEF n
    <2>1. k + 1 \in Int /\ n \in Int /\ \A i \in k + 1 .. n : today[i] \in DayReviews
        BY <1>2, <1>3
    <2>2. /\ after \in Seq(DayReviews)
          /\ Len(after) = IF k + 1 <= n THEN n - (k + 1) + 1 ELSE 0
          /\ \A i \in 1 .. n - (k + 1) + 1 : after[i] = today[k + 1 + i - 1]
        BY <2>1, SubSeqProperties
    <2> HIDE DEF after
    <2>3. (IF k + 1 <= n THEN n - (k + 1) + 1 ELSE 0) = n - k /\ n - (k + 1) + 1 = n - k
        BY <1>2
    <2>4. ASSUME NEW i \in 1 .. n - k PROVE after[i] = today[k + i]
        <3>1. k + 1 + i - 1 = k + i
            BY <1>2
        <3>2. after[i] = today[k + 1 + i - 1]
            BY <2>2, <2>3
        <3> QED
            BY <3>1, <3>2
    <2> QED
        BY <2>2, <2>3, <2>4
<1>6. today' = before \o after
    BY <1>1 DEF RemoveAt
<1> HIDE DEF before, after, n
<1>7. /\ today' \in Seq(DayReviews) /\ Len(today') = n - 1 /\ DOMAIN today' = 1 .. n - 1
      /\ \A i \in 1 .. k - 1 : today'[i] = before[i]
      /\ \A i \in k .. n - 1 : today'[i] = after[i - (k - 1)]
    <2>1. /\ k - 1 \in Nat /\ n - k \in Nat /\ k - 1 + (n - k) = n - 1
          /\ today' \in Seq(DayReviews) /\ Len(today') = Len(before) + Len(after)
        BY <1>2, <1>4, <1>5, <1>6
    <2>2. Len(today') = n - 1
        BY <1>4, <1>5, <2>1
    <2>3. DOMAIN today' = 1 .. n - 1
        BY <2>1, <2>2
    <2>4. \A i \in 1 .. Len(before) + Len(after) :
             today'[i] = IF i <= Len(before) THEN before[i] ELSE after[i - Len(before)]
        BY <1>4, <1>5, <1>6
    <2>5. \A i \in 1 .. n - 1 : today'[i] = IF i <= k - 1 THEN before[i] ELSE after[i - (k - 1)]
        BY <1>4, <1>5, <2>1, <2>4
    <2>6. ASSUME NEW i \in 1 .. k - 1 PROVE today'[i] = before[i]
        BY <1>2, <2>5
    <2>7. ASSUME NEW i \in k .. n - 1 PROVE today'[i] = after[i - (k - 1)]
        BY <1>2, <2>5
    <2> QED
        BY <2>1, <2>2, <2>3, <2>6, <2>7
<1>8. ASSUME NEW i \in DOMAIN today'
      PROVE  \E j \in DOMAIN today \ {k} :
                j = (IF i < k THEN i ELSE i + 1) /\ today'[i] = today[j]
    <2>1. CASE i < k
        <3>1. i \in 1 .. k - 1 /\ i \in DOMAIN today \ {k}
            BY <1>2, <1>7, <2>1
        <3> QED
            BY <1>4, <1>7, <2>1, <3>1
    <2>2. CASE ~(i < k)
        <3>1. /\ i \in k .. n - 1 /\ i + 1 \in DOMAIN today \ {k}
              /\ i - (k - 1) \in 1 .. n - k /\ k + (i - (k - 1)) = i + 1
            BY <1>2, <1>7, <2>2
        <3> QED
            BY <1>5, <1>7, <2>2, <3>1
    <2> QED
        BY <2>1, <2>2
<1> DEFINE back == IF today[k].before.fresh THEN Undated ELSE today[k].before
<1>9. back \in Schedules /\ ~back.fresh
    <2>1. today[k].before \in Schedules
        BY TodayCards
    <2>2. Undated \in Schedules /\ ~Undated.fresh
        BY DEF Undated, Schedules
    <2>3. ~today[k].before.fresh => today[k].before.fresh = FALSE
        BY <2>1 DEF Schedules
    <2> QED
        BY <2>1, <2>2, <2>3
<1>10. schedule' = IF today[k].counts THEN [schedule EXCEPT ![card] = back] ELSE schedule
    BY <1>1
<1> HIDE DEF back
<1>11. /\ schedule' \in [StudyCards -> Schedules]
       /\ schedule'[card] \in {back, schedule[card]}
       /\ \A c \in StudyCards \ {card} : schedule'[c] = schedule[c]
    BY <1>9, <1>10 DEF StudyTypeOK
<1> QED
    BY <1>1, <1>2, <1>7, <1>8, <1>9, <1>11 DEF n

\* What the other reviews say is still so.
LEMMA UndoKeeps ==
    ASSUME StudyInv, NEW card \in StudyCards, UndoReview(card)
    PROVE  StudyInv'
<1> StudyTypeOK
    BY DEF StudyInv
<1>1. PICK k \in DOMAIN today :
          /\ today[k].card = card
          /\ \A j \in DOMAIN today : today[j].card = card => j <= k
          /\ today' \in Seq(DayReviews)
          /\ Len(today) \in Nat /\ DOMAIN today = 1 .. Len(today)
          /\ DOMAIN today' = 1 .. Len(today) - 1
          /\ \A i \in DOMAIN today' :
                \E j \in DOMAIN today \ {k} :
                   j = (IF i < k THEN i ELSE i + 1) /\ today'[i] = today[j]
          /\ schedule' \in [StudyCards -> Schedules]
          /\ \A c \in StudyCards \ {card} : schedule'[c] = schedule[c]
          /\ schedule'[card].fresh => schedule[card].fresh
          /\ suspended' = suspended /\ unstudied' = unstudied
    BY UndoFacts
<1> DEFINE at(i) == IF i < k THEN i ELSE i + 1
<1>2. \A i \in DOMAIN today' : at(i) \in DOMAIN today \ {k} /\ today'[i] = today[at(i)]
    BY <1>1
<1>3. \A i, j \in DOMAIN today' : i \in Nat /\ j \in Nat /\ (i < j => at(i) < at(j))
    BY <1>1
<1> HIDE DEF at
<1>4. StudyTypeOK'
    BY <1>1 DEF StudyTypeOK
<1>5. ReviewsSayWhatTheyWere'
    BY <1>2 DEF ReviewsSayWhatTheyWere, StudyInv
<1>6. ASSUME NEW j \in DOMAIN today \ {k}, today[j].counts
      PROVE  ~schedule'[today[j].card].fresh
    <2>1. today[j].card \in StudyCards /\ ~schedule[today[j].card].fresh
        BY <1>6, TodayCards DEF StudyInv, CountedStayIntroduced
    <2> QED
        BY <1>1, <2>1
<1>7. CountedStayIntroduced'
    <2>1. \A i \in DOMAIN today' : today'[i].counts => ~schedule'[today'[i].card].fresh
        BY <1>2, <1>6
    <2>2. ASSUME NEW i \in DOMAIN today', NEW j \in DOMAIN today', i < j,
                 today'[i].counts, today'[i].card = today'[j].card
          PROVE  ~today'[j].before.fresh
        <3>1. /\ at(i) \in DOMAIN today /\ at(j) \in DOMAIN today /\ at(i) < at(j)
              /\ today'[i] = today[at(i)] /\ today'[j] = today[at(j)]
            BY <1>2, <1>3, <2>2
        <3> QED
            BY <2>2, <3>1 DEF StudyInv, CountedStayIntroduced
    <2> QED
        BY <2>1, <2>2 DEF CountedStayIntroduced
<1>8. FreshAreUnstudied'
    <2>1. /\ \A c \in StudyCards : schedule[c].fresh => c \in unstudied
          /\ \A i \in DOMAIN today : today[i].before.fresh => today[i].card \in unstudied
        BY DEF StudyInv, FreshAreUnstudied
    <2>2. ASSUME NEW c \in StudyCards, schedule'[c].fresh PROVE c \in unstudied
        <3>1. CASE c # card
            BY <1>1, <2>1, <2>2, <3>1
        <3>2. CASE c = card
            BY <1>1, <2>1, <2>2, <3>2
        <3> QED
            BY <3>1, <3>2
    <2>3. \A i \in DOMAIN today' : today'[i].before.fresh => today'[i].card \in unstudied
        BY <1>2, <2>1
    <2> QED
        BY <1>1, <2>2, <2>3 DEF FreshAreUnstudied
<1>9. ASSUME NEW s
      PROVE  /\ Cardinality(Normal(s)') \in Nat
             /\ Cardinality(Normal(s)') <= Cardinality(Normal(s))
    <2> DEFINE A == Normal(s)
               B == Normal(s)'
               f == [i \in B |-> at(i)]
    <2>1. IsFiniteSet(A) /\ Cardinality(A) \in Nat
        BY NormalReviewsCount
    <2>2. \A i \in B : i \in DOMAIN today' /\ at(i) \in A
        BY <1>2 DEF Normal
    <2>3. \A i, j \in B : at(i) = at(j) => i = j
        <3> SUFFICES ASSUME NEW i \in B, NEW j \in B, at(i) = at(j), i # j PROVE FALSE
            OBVIOUS
        <3>1. i \in Nat /\ j \in Nat /\ at(i) \in Nat /\ at(j) \in Nat
            BY <1>1, <1>2, <1>3, <2>2
        <3>2. i < j \/ j < i
            BY <3>1
        <3> HIDE DEF B
        <3> QED
            BY <1>3, <2>2, <3>1, <3>2
    <2> HIDE DEF A, B
    <2>4. f \in Injection(B, A)
        BY <2>2, <2>3 DEF Injection, IsInjective
    <2> HIDE DEF f
    <2>5. IsFiniteSet(B) /\ Cardinality(B) <= Cardinality(A)
        BY <2>1, <2>4, FS_Injection
    <2>6. Cardinality(B) \in Nat
        BY <2>5, FS_CardinalityType
    <2> QED
        BY <2>5, <2>6 DEF A, B
<1>10. WithinLimits'
    <2>1. /\ Cardinality(Normal("due")) <= ReviewLimit /\ ReviewLimit \in Nat
          /\ Cardinality(Normal("new")) <= NewLimit /\ NewLimit \in Nat
          /\ \A s : Cardinality(Normal(s)) \in Nat
        BY StudyQueueAssumption, NormalReviewsCount DEF StudyInv, WithinLimits
    <2>2. Cardinality(Normal("due")') <= ReviewLimit /\ Cardinality(Normal("new")') <= NewLimit
        BY <1>9, <2>1
    <2> QED
        BY <2>2 DEF WithinLimits
<1> QED
    BY <1>4, <1>5, <1>7, <1>8, <1>10 DEF StudyInv

\* A deck opened again shows as new no card a review of today counted for.
LEMMA ReopenKeeps ==
    ASSUME StudyInv, Reopen
    PROVE  StudyInv'
<1> StudyTypeOK
    BY DEF StudyInv
<1>1. /\ today' = today /\ suspended' = suspended /\ unstudied' = unstudied
      /\ schedule' = [c \in StudyCards |->
                         IF c \in unstudied \ StudiedToday THEN NewCard ELSE schedule[c]]
    BY DEF Reopen
<1>2. NewCard \in Schedules
    BY StudyQueueAssumption DEF NewCard, Schedules
<1>3. StudyTypeOK'
    BY <1>1, <1>2 DEF StudyTypeOK
<1>4. \A i \in DOMAIN today : today[i].counts => ~schedule'[today[i].card].fresh
    <2> SUFFICES ASSUME NEW i \in DOMAIN today, today[i].counts
                 PROVE  ~schedule'[today[i].card].fresh
        OBVIOUS
    <2>1. today[i].card \in StudyCards /\ today[i].card \in StudiedToday
        BY TodayCards DEF StudiedToday
    <2>2. ~schedule[today[i].card].fresh
        BY DEF StudyInv, CountedStayIntroduced
    <2> QED
        BY <1>1, <2>1, <2>2
<1>5. \A c \in StudyCards : schedule'[c].fresh => c \in unstudied
    BY <1>1 DEF StudyInv, FreshAreUnstudied
<1>6. CountedStayIntroduced' /\ FreshAreUnstudied'
    BY <1>1, <1>4, <1>5 DEF StudyInv, CountedStayIntroduced, FreshAreUnstudied
<1>7. ReviewsSayWhatTheyWere' /\ WithinLimits'
    BY <1>1 DEF StudyInv, ReviewsSayWhatTheyWere, WithinLimits, Normal
<1> QED
    BY <1>3, <1>6, <1>7 DEF StudyInv

\* Every step of the day keeps the invariant.
LEMMA StudyInvNext == StudyInv /\ [StudyNext]_studyVars => StudyInv'
<1> SUFFICES ASSUME StudyInv, [StudyNext]_studyVars PROVE StudyInv'
    OBVIOUS
<1>1. ASSUME NEW card \in StudyCards, NEW mode \in {"normal", "cram"}, NEW counts \in BOOLEAN,
             Rate(card, mode, counts)
      PROVE  StudyInv'
    BY <1>1, RateKeeps, RateWithinLimits DEF StudyInv
<1>2. ASSUME NEW card \in StudyCards, ToggleSuspend(card)
      PROVE  StudyInv'
    <2>1. /\ suspended' \subseteq StudyCards /\ schedule' = schedule /\ today' = today
          /\ unstudied' = unstudied
        BY <1>2 DEF ToggleSuspend, StudyInv, StudyTypeOK
    <2> QED
        BY <2>1 DEF StudyInv, StudyTypeOK, ReviewsSayWhatTheyWere, CountedStayIntroduced,
                    FreshAreUnstudied, WithinLimits, Normal
<1>3. CASE UNCHANGED studyVars
    BY <1>3 DEF studyVars, StudyInv, StudyTypeOK, ReviewsSayWhatTheyWere,
                CountedStayIntroduced, FreshAreUnstudied, WithinLimits, Normal
<1> QED
    BY <1>1, <1>2, <1>3, UndoKeeps, ReopenKeeps DEF StudyNext

\* The normal queue keeps back only what is less overdue than what it shows.
LEMMA MostOverdueFirst ==
    ASSUME StudyTypeOK,
           NEW card \in ToSet(SelectStudyQueue("normal")),
           NEW back \in InState("due") \ ToSet(SelectStudyQueue("normal")),
           ~schedule[card].fresh
    PROVE  schedule[card].due <= schedule[back].due
<1> DEFINE D == InState("due")
<1>1. /\ Lists(DueQueue, D, Overdue)
      /\ DueShown \in 0 .. Cardinality(D) /\ Cardinality(D) \in Nat
      /\ ToSet(SelectStudyQueue("normal"))
           = {DueQueue[i] : i \in 1 .. DueShown} \cup {NewQueue[i] : i \in 1 .. NewShown}
    BY QueueFacts
<1>2. card \in {DueQueue[i] : i \in 1 .. DueShown}
    <2>1. ASSUME NEW i \in 1 .. NewShown, card = NewQueue[i] PROVE FALSE
        <3>1. NewShown \in Nat /\ i \in 1 .. Cardinality(InState("new"))
            BY QueueFacts
        <3>2. card \in InState("new")
            BY <2>1, <3>1, QueueFacts DEF Lists
        <3> QED
            BY <3>2 DEF InState, CardStudyState
    <2> QED
        BY <1>1, <2>1
<1>3. PICK i \in 1 .. DueShown : card = DueQueue[i]
    BY <1>2
<1>4. PICK j \in 1 .. Cardinality(D) : back = DueQueue[j]
    BY <1>1 DEF Lists
<1>5. j \notin 1 .. DueShown
    BY <1>1, <1>4
<1>6. i < j /\ i \in 1 .. Cardinality(D)
    BY <1>1, <1>5
<1>7. <<card, back>> \in Overdue
    BY <1>1, <1>3, <1>4, <1>6 DEF Lists
<1>8. card \in StudyCards /\ back \in StudyCards /\ MoreOverdue(card, back)
    BY <1>7 DEF Overdue
<1>9. schedule[card].due \in Int /\ schedule[back].due \in Int
    BY <1>8 DEF StudyTypeOK, Schedules
<1> QED
    BY <1>8, <1>9 DEF MoreOverdue

\* Sets that share nothing are counted one after the other.
LEMMA DisjointUnion ==
    ASSUME NEW S, NEW T, IsFiniteSet(S), IsFiniteSet(T), S \cap T = {}
    PROVE  IsFiniteSet(S \cup T) /\ Cardinality(S \cup T) = Cardinality(S) + Cardinality(T)
<1>1. /\ IsFiniteSet(S \cup T)
      /\ Cardinality(S \cup T) = Cardinality(S) + Cardinality(T) - Cardinality(S \cap T)
    BY FS_Union
<1>2. Cardinality(S \cap T) = 0
    BY FS_EmptySet
<1>3. Cardinality(S) \in Nat /\ Cardinality(T) \in Nat
    BY FS_CardinalityType
<1> QED
    BY <1>1, <1>2, <1>3

\* Every card is shown, deferred, later or suspended, and one of these only.
LEMMA EveryCardIsCounted ==
    ASSUME StudyTypeOK
    PROVE  Eligible + DeferredReview + DeferredNew
              + Cardinality(InState("later")) + Cardinality(suspended)
           = Cardinality(StudyCards)
<1> DEFINE D == InState("due")
           N == InState("new")
           L == InState("later")
<1>1. /\ D \cup N \cup L \cup suspended = StudyCards
      /\ D \cap N = {} /\ (D \cup N) \cap L = {} /\ (D \cup N \cup L) \cap suspended = {}
    BY DEF InState, CardStudyState, StudyTypeOK
<1>2. IsFiniteSet(D) /\ IsFiniteSet(N) /\ IsFiniteSet(L) /\ IsFiniteSet(suspended)
    <2>1. D \subseteq StudyCards /\ N \subseteq StudyCards /\ L \subseteq StudyCards
          /\ suspended \subseteq StudyCards
        BY DEF InState, StudyTypeOK
    <2> HIDE DEF D, N, L
    <2> QED
        BY <2>1, StudyQueueAssumption, FS_Subset
<1>3. /\ DueShown \in Nat /\ NewShown \in Nat /\ Eligible = DueShown + NewShown
      /\ DeferredReview = Cardinality(D) - DueShown
      /\ DeferredNew = Cardinality(N) - NewShown
    BY QueueFacts DEF DeferredReview, DeferredNew, DueShown, NewShown
<1> HIDE DEF D, N, L
<1>4. IsFiniteSet(D \cup N) /\ Cardinality(D \cup N) = Cardinality(D) + Cardinality(N)
    BY <1>1, <1>2, DisjointUnion
<1>5. /\ IsFiniteSet(D \cup N \cup L)
      /\ Cardinality(D \cup N \cup L) = Cardinality(D \cup N) + Cardinality(L)
    BY <1>1, <1>2, <1>4, DisjointUnion
<1>6. Cardinality(StudyCards) = Cardinality(D \cup N \cup L) + Cardinality(suspended)
    BY <1>1, <1>2, <1>5, DisjointUnion
<1>7. /\ Cardinality(D) \in Nat /\ Cardinality(N) \in Nat
      /\ Cardinality(L) \in Nat /\ Cardinality(suspended) \in Nat
    BY <1>2, FS_CardinalityType
<1>8. Eligible + DeferredReview + DeferredNew + Cardinality(L) + Cardinality(suspended)
        = Cardinality(StudyCards)
    BY <1>3, <1>4, <1>5, <1>6, <1>7
<1> QED
    BY <1>8 DEF L

\* The day's queue keeps to the limits of the reviews it offers as due and as new,
\* whatever was reviewed, crammed, undone or suspended and however often the deck was
\* opened, and counts every card of the deck once (study.ts:112-205).
THEOREM SpecDayKeepsToItsLimits == StudySpec => []DayKeepsToItsLimits
<1>1. StudyInv => DayKeepsToItsLimits
    <2> SUFFICES ASSUME StudyInv PROVE DayKeepsToItsLimits
        OBVIOUS
    <2> StudyTypeOK /\ WithinLimits
        BY DEF StudyInv
    <2>1. ToSet(SelectStudyQueue("normal")) \cap suspended = {}
        BY ShownWithinLimits DEF InState, CardStudyState
    <2>2. WithinLimits
        OBVIOUS
    <2> QED
        BY <2>1, <2>2, MostOverdueFirst, EveryCardIsCounted
        DEF DayKeepsToItsLimits, WithinLimits, Normal
<1> QED
    BY <1>1, StudyInvInit, StudyInvNext, PTL DEF StudySpec

-----------------------------------------------------------------------------
(***************************************************************************)
(* Reading.  What a file is read as, stored as and reported as.            *)
(***************************************************************************)

\* A reading gives each page a kind and stores no picture for a blank one.
IsReading(reading, n) ==
    /\ n \in Nat
    /\ reading.kinds \in [1 .. n -> {"text", "blank", "image-only"}]
    /\ \A row \in reading.media :
          row[1] # 0 => row[1] \in 1 .. n /\ reading.kinds[row[1]] # "blank"

\* A page of a PDF with a picture stored has something painted on it.
LEMMA PdfReads ==
    ASSUME NEW file, NEW n \in Nat, DOMAIN file.pages = 1 .. n
    PROVE  IsReading(PdfReading(file), n)
<1> DEFINE painted(p) == PaintedImages(file, p)
           kind(p)    == IF file.pages[p].text THEN "text"
                         ELSE IF painted(p) # {} THEN "image-only" ELSE "blank"
           stored(p)  == IF file.pages[p].text
                         THEN PageFigures(painted(p), file.kept)
                         ELSE DominantImage(painted(p), file.kept)
           reading    == PdfReading(file)
<1>1. /\ reading.kinds = [p \in 1 .. n |-> kind(p)]
      /\ reading.media = UNION {{p} \X stored(p) : p \in 1 .. n}
    BY DEF PdfReading
<1>2. reading.kinds \in [1 .. n -> {"text", "blank", "image-only"}]
  <2>1. \A p \in 1 .. n : kind(p) \in {"text", "blank", "image-only"}
      OBVIOUS
  <2> HIDE DEF kind, reading
  <2> QED
      BY <1>1, <2>1
<1>3. ASSUME NEW row \in reading.media
      PROVE  row[1] \in 1 .. n /\ reading.kinds[row[1]] # "blank"
  <2> HIDE DEF reading
  <2>1. PICK p \in 1 .. n : row \in {p} \X stored(p)
    <3> HIDE DEF stored
    <3> QED
        BY <1>1, <1>3
  <2>2. row[1] = p /\ stored(p) # {}
    <3> HIDE DEF stored
    <3> QED
        BY <2>1
  <2>3. kind(p) # "blank"
      BY <2>2 DEF DominantImage
  <2> HIDE DEF kind
  <2> QED
      BY <1>1, <2>1, <2>2, <2>3
<1> HIDE DEF reading
<1>4. IsReading(reading, n)
    BY <1>2, <1>3 DEF IsReading
<1> QED
    BY <1>4 DEF reading

\* A picture is anchored to a page that shows it.
LEMMA AnchoredReads ==
    ASSUME NEW pages, NEW kept, NEW n \in Nat, DOMAIN pages = 1 .. n
    PROVE  IsReading(AnchoredReading(pages, kept), n)
<1> DEFINE media   == {<<AnchorOf(pages, picture), picture>> : picture \in kept}
           kind(p) == IF pages[p].text THEN "text"
                      ELSE IF \E row \in media : row[1] = p THEN "image-only" ELSE "blank"
           reading == AnchoredReading(pages, kept)
<1>1. reading.kinds = [p \in 1 .. n |-> kind(p)] /\ reading.media = media
    BY DEF AnchoredReading
<1>2. reading.kinds \in [1 .. n -> {"text", "blank", "image-only"}]
  <2>1. \A p \in 1 .. n : kind(p) \in {"text", "blank", "image-only"}
      OBVIOUS
  <2> HIDE DEF kind, reading
  <2> QED
      BY <1>1, <2>1
<1>3. ASSUME NEW row \in media, row[1] # 0
      PROVE  row[1] \in 1 .. n /\ kind(row[1]) # "blank"
  <2>1. PICK picture \in kept : row = <<AnchorOf(pages, picture), picture>>
      BY <1>3
  <2> DEFINE on == {p \in DOMAIN pages : picture \in pages[p].shows}
  <2>2. on # {} /\ row[1] = Min(on)
      BY <1>3, <2>1 DEF AnchorOf
  <2>3. on \in SUBSET Nat /\ on \subseteq 1 .. n
      OBVIOUS
  <2> HIDE DEF on
  <2>4. \E m \in on : \A p \in on : m <= p
      BY <2>2, <2>3, LeastNumber
  <2>5. Min(on) \in on
      BY <2>4 DEF Min
  <2>6. kind(row[1]) # "blank"
      BY <1>3
  <2> QED
      BY <2>2, <2>3, <2>5, <2>6
<1> HIDE DEF reading, media, kind
<1>4. IsReading(reading, n)
    BY <1>1, <1>2, <1>3 DEF IsReading
<1> QED
    BY <1>4 DEF reading

\* Text holds no pictures.
LEMMA TextReads ==
    ASSUME NEW file, NEW n \in Nat, DOMAIN file.pages = 1 .. n
    PROVE  \E m : IsReading(TextReading(file), m)
<1> DEFINE texts == {p \in DOMAIN file.pages : file.pages[p].text}
           pages == Cardinality(texts)
<1>1. IsFiniteSet(1 .. n) /\ texts \subseteq 1 .. n
    BY FS_Interval
<1>2. pages \in Nat
  <2> HIDE DEF texts
  <2> QED
      BY <1>1, FS_Subset, FS_CardinalityType
<1>3. TextReading(file).media = {}
    BY DEF TextReading
<1>4. TextReading(file).kinds = IF pages = 0 THEN <<"blank">> ELSE [p \in 1 .. pages |-> "text"]
    BY DEF TextReading
<1> HIDE DEF pages
<1>5. CASE pages = 0
  <2>1. TextReading(file).kinds \in [1 .. 1 -> {"text", "blank", "image-only"}]
      BY <1>4, <1>5
  <2> QED
      BY <1>3, <2>1 DEF IsReading
<1>6. CASE pages # 0
  <2>1. TextReading(file).kinds \in [1 .. pages -> {"text", "blank", "image-only"}]
      BY <1>4, <1>6
  <2> QED
      BY <1>2, <1>3, <2>1 DEF IsReading
<1> QED
    BY <1>5, <1>6

\* Page breaks around the content leave a sequence of pages, or one blank one.
LEMMA TrimmedPages ==
    ASSUME NEW T, NEW pages \in Seq(T)
    PROVE  \E n \in Nat : DOMAIN Trimmed(pages) = 1 .. n
<1> DEFINE stated == {p \in DOMAIN pages : pages[p].text \/ pages[p].shows # {}}
           len == Len(pages)
<1>1. len \in Nat /\ DOMAIN pages = 1 .. len
    OBVIOUS
<1>2. stated \in SUBSET (1 .. len) /\ stated \in SUBSET Nat
    BY <1>1
<1>3. CASE stated = {}
  <2>1. Trimmed(pages) = <<[text |-> FALSE, shows |-> {}]>>
      BY <1>3 DEF Trimmed
  <2>2. DOMAIN Trimmed(pages) = 1 .. 1
      BY <2>1
  <2> QED
      BY <2>2
<1>4. CASE stated # {}
  <2>1. Trimmed(pages) = SubSeq(pages, Min(stated), Max(stated))
      BY <1>4 DEF Trimmed
  <2> HIDE DEF stated
  <2>2. \E m \in stated : \A p \in stated : m <= p
      BY <1>2, <1>4, LeastNumber
  <2>3. Min(stated) \in stated
      BY <2>2 DEF Min
  <2>4. Max(stated) \in stated /\ \A p \in stated : p <= Max(stated)
      BY <1>1, <1>2, <1>4, GreatestNumber
  <2> DEFINE a == Min(stated)
             b == Max(stated)
  <2>5. a \in 1 .. len /\ b \in 1 .. len /\ a <= b
      BY <1>2, <2>3, <2>4
  <2>6. DOMAIN SubSeq(pages, a, b) = 1 .. (b - a + 1) /\ b - a + 1 \in Nat
    <3> HIDE DEF a, b
    <3> QED
        BY <1>1, <2>5
  <2> QED
      BY <2>1, <2>6
<1> QED
    BY <1>3, <1>4

\* What a file is read as, and what is said of it.
LEMMA FileFacts ==
    ASSUME Asked, Answered("file")
    PROVE  /\ \E n : IsReading(Said.reading, n)
           /\ Said.blocks = StoredBlocks(Said.reading)
           /\ \E worded : /\ worded \subseteq OcrCandidates(Said.blocks, Said.reading.media)
                          /\ Said.later = AfterOcr(Said.blocks, worded)
<1> DEFINE file == question.asked.file
           reading == ReadingOf(file)
           T == [text : BOOLEAN, shows : SUBSET PicturesOf(file)]
<1>1. question \in Questions /\ question.about = "file" /\ Said = AnswerTo("file", question.asked)
    BY SaidOf
<1>2. question.asked \in Files
    BY <1>1 DEF Questions
<1>3. file.format \in Formats /\ file.pages \in Seq(T)
    BY <1>2, FilesAssumption
<1>4. Said = LifeOfFile(file, question.asked.worded)
    BY <1>1 DEF AnswerTo
<1>5. /\ Said.reading = reading /\ Said.blocks = StoredBlocks(reading)
      /\ Said.later = AfterOcr(Said.blocks,
                               question.asked.worded \cap OcrCandidates(Said.blocks, reading.media))
  <2> HIDE DEF file
  <2> QED
      BY <1>4 DEF LifeOfFile
<1> HIDE DEF T, file
<1>6. \E n : IsReading(reading, n)
  <2> DEFINE n == Len(file.pages)
  <2>1. n \in Nat /\ DOMAIN file.pages = 1 .. n
      BY <1>3
  <2>2. CASE file.format = "pdf"
      BY <2>1, <2>2, PdfReads DEF ReadingOf
  <2>3. CASE file.format = "pptx"
      BY <2>1, <2>3, AnchoredReads DEF ReadingOf, PptxReading
  <2>4. CASE file.format = "docx"
    <3>1. PICK m \in Nat : DOMAIN Trimmed(file.pages) = 1 .. m
        BY <1>3, TrimmedPages
    <3> QED
        BY <2>4, <3>1, AnchoredReads DEF ReadingOf, DocxReading
  <2>5. CASE file.format = "text"
      BY <2>1, <2>5, TextReads DEF ReadingOf
  <2>6. CASE file.format = "image"
    <3>1. /\ reading.kinds = <<"image-only">>
          /\ \A row \in reading.media : row[1] = 1
        BY <2>6 DEF ReadingOf, ImageReading
    <3>2. reading.kinds \in [1 .. 1 -> {"text", "blank", "image-only"}] /\ reading.kinds[1] = "image-only"
        BY <3>1
    <3> HIDE DEF reading
    <3>3. IsReading(reading, 1)
        BY <3>1, <3>2 DEF IsReading
    <3> QED
        BY <3>3
  <2> QED
      BY <1>3, <2>2, <2>3, <2>4, <2>5, <2>6 DEF Formats
<1> QED
    BY <1>5, <1>6

IsBlocks(blocks, n) == n \in Nat /\ blocks \in [1 .. n -> PageKinds]

\* The pages of a kind are finitely many, and kinds share none.
LEMMA KindsPartition ==
    ASSUME NEW blocks, NEW n, IsBlocks(blocks, n)
    PROVE  /\ \A wanted : /\ IsFiniteSet({p \in DOMAIN blocks : blocks[p] \in wanted})
                          /\ PagesOfKind(blocks, wanted) \in Nat
           /\ PagesOfKind(blocks, {"text", "ocr-text"})
                = PagesOfKind(blocks, {"text"}) + PagesOfKind(blocks, {"ocr-text"})
           /\ PagesOfKind(blocks, {"text", "ocr-text"}) + PagesOfKind(blocks, {"blank"})
                + PagesOfKind(blocks, {"image-only"}) = n
<1> DEFINE Of(wanted) == {p \in DOMAIN blocks : blocks[p] \in wanted}
<1>1. n \in Nat /\ DOMAIN blocks = 1 .. n /\ \A p \in 1 .. n : blocks[p] \in PageKinds
    BY DEF IsBlocks
<1>2. IsFiniteSet(1 .. n) /\ Cardinality(1 .. n) = n
    BY <1>1, FS_Interval
<1>3. \A wanted : IsFiniteSet(Of(wanted)) /\ Cardinality(Of(wanted)) \in Nat
  <2> SUFFICES ASSUME NEW wanted
               PROVE  IsFiniteSet(Of(wanted)) /\ Cardinality(Of(wanted)) \in Nat
      OBVIOUS
  <2>1. Of(wanted) \subseteq 1 .. n
      BY <1>1
  <2> HIDE DEF Of
  <2> QED
      BY <1>2, <2>1, FS_Subset, FS_CardinalityType
<1>4. \A wanted : PagesOfKind(blocks, wanted) = Cardinality(Of(wanted))
    BY DEF PagesOfKind
<1>5. /\ Of({"text", "ocr-text"}) = Of({"text"}) \cup Of({"ocr-text"})
      /\ Of({"text"}) \cap Of({"ocr-text"}) = {}
      /\ Of({"text", "ocr-text"}) \cap Of({"blank"}) = {}
      /\ (Of({"text", "ocr-text"}) \cup Of({"blank"})) \cap Of({"image-only"}) = {}
      /\ (Of({"text", "ocr-text"}) \cup Of({"blank"})) \cup Of({"image-only"}) = 1 .. n
    BY <1>1 DEF PageKinds
<1> DEFINE R == Of({"text", "ocr-text"})
           B == Of({"blank"})
           U == Of({"image-only"})
           T == Of({"text"})
           O == Of({"ocr-text"})
<1>6. /\ IsFiniteSet(T) /\ IsFiniteSet(O) /\ IsFiniteSet(R) /\ IsFiniteSet(B) /\ IsFiniteSet(U)
      /\ Cardinality(R) \in Nat /\ Cardinality(B) \in Nat /\ Cardinality(U) \in Nat
    BY <1>3
<1>7. /\ R = T \cup O /\ T \cap O = {} /\ R \cap B = {}
      /\ (R \cup B) \cap U = {} /\ (R \cup B) \cup U = 1 .. n
    BY <1>5
<1>8. /\ Cardinality(R) = Cardinality(T) + Cardinality(O)
      /\ Cardinality(R) + Cardinality(B) + Cardinality(U) = n
  <2> HIDE DEF R, B, U, T, O
  <2>1. Cardinality(R) = Cardinality(T) + Cardinality(O)
      BY <1>6, <1>7, DisjointUnion
  <2>2. IsFiniteSet(R \cup B) /\ Cardinality(R \cup B) = Cardinality(R) + Cardinality(B)
      BY <1>6, <1>7, DisjointUnion
  <2>3. Cardinality((R \cup B) \cup U) = Cardinality(R \cup B) + Cardinality(U)
      BY <1>6, <1>7, <2>2, DisjointUnion
  <2> QED
      BY <1>2, <1>7, <2>1, <2>2, <2>3
<1>9. \A wanted : /\ IsFiniteSet({p \in DOMAIN blocks : blocks[p] \in wanted})
                  /\ PagesOfKind(blocks, wanted) \in Nat
    BY <1>3, <1>4
<1>10. /\ PagesOfKind(blocks, {"text", "ocr-text"}) = Cardinality(R)
       /\ PagesOfKind(blocks, {"text"}) = Cardinality(T)
       /\ PagesOfKind(blocks, {"ocr-text"}) = Cardinality(O)
       /\ PagesOfKind(blocks, {"blank"}) = Cardinality(B)
       /\ PagesOfKind(blocks, {"image-only"}) = Cardinality(U)
    BY <1>4
<1> HIDE DEF Of
<1> QED
    BY <1>8, <1>9, <1>10

\* One more page of a kind, or of another.
LEMMA OneMorePage ==
    ASSUME NEW n, NEW blocks, IsBlocks(blocks, n), NEW i \in 1 .. n, NEW wanted
    PROVE  /\ Cardinality({p \in 1 .. (i - 1) : blocks[p] \in wanted}) \in Nat
           /\ Cardinality({p \in 1 .. i : blocks[p] \in wanted})
                = Cardinality({p \in 1 .. (i - 1) : blocks[p] \in wanted})
                  + (IF blocks[i] \in wanted THEN 1 ELSE 0)
<1> DEFINE A == {p \in 1 .. (i - 1) : blocks[p] \in wanted}
           B == {p \in 1 .. i : blocks[p] \in wanted}
<1>1. n \in Nat /\ i \in Nat /\ i - 1 \in Nat /\ i \notin 1 .. (i - 1)
      /\ 1 .. i = (1 .. (i - 1)) \cup {i}
    BY DEF IsBlocks
<1>2. IsFiniteSet(1 .. (i - 1)) /\ A \subseteq 1 .. (i - 1)
    BY <1>1, FS_Interval
<1>3. IsFiniteSet(A) /\ i \notin A
  <2> HIDE DEF A
  <2> QED
      BY <1>1, <1>2, FS_Subset
<1>4. B = IF blocks[i] \in wanted THEN A \cup {i} ELSE A
    BY <1>1
<1>5. Cardinality(A) \in Nat /\ Cardinality(B) = Cardinality(A) + (IF blocks[i] \in wanted THEN 1 ELSE 0)
  <2> HIDE DEF A, B
  <2>1. Cardinality(A) \in Nat
      BY <1>3, FS_CardinalityType
  <2>2. Cardinality(A \cup {i}) = Cardinality(A) + 1
      BY <1>3, FS_AddElement
  <2> QED
      BY <1>4, <2>1, <2>2
<1> QED
    BY <1>5

\* How the opened document counts a block.
CountOne(counts, kind) ==
    CASE kind = "ocr-text"   -> [counts EXCEPT !.readable = @ + 1, !.ocr = @ + 1]
      [] kind = "text"       -> [counts EXCEPT !.readable = @ + 1]
      [] kind = "blank"      -> [counts EXCEPT !.blank = @ + 1]
      [] kind = "image-only" -> [counts EXCEPT !.unread = @ + 1]

AllCounts == [readable : Nat, ocr : Nat, blank : Nat, unread : Nat]

\* Counting a block adds one to the counts of its kind.
LEMMA CountedOne ==
    ASSUME NEW counts \in AllCounts, NEW kind \in PageKinds
    PROVE  /\ CountOne(counts, kind) \in AllCounts
           /\ CountOne(counts, kind)
                = [readable |-> counts.readable + (IF kind \in {"text", "ocr-text"} THEN 1 ELSE 0),
                   ocr      |-> counts.ocr + (IF kind \in {"ocr-text"} THEN 1 ELSE 0),
                   blank    |-> counts.blank + (IF kind \in {"blank"} THEN 1 ELSE 0),
                   unread   |-> counts.unread + (IF kind \in {"image-only"} THEN 1 ELSE 0)]
<1>1. kind = "ocr-text" \/ kind = "text" \/ kind = "blank" \/ kind = "image-only"
    BY DEF PageKinds
<1>6. /\ counts.readable \in Nat /\ counts.ocr \in Nat /\ counts.blank \in Nat
      /\ counts.unread \in Nat
      /\ counts = [readable |-> counts.readable, ocr |-> counts.ocr,
                   blank |-> counts.blank, unread |-> counts.unread]
    BY DEF AllCounts
<1>2. CASE kind = "ocr-text"
  <2>1. CountOne(counts, kind) = [counts EXCEPT !.readable = @ + 1, !.ocr = @ + 1]
      BY <1>2 DEF CountOne
  <2>2. CountOne(counts, kind) = [readable |-> counts.readable + 1, ocr |-> counts.ocr + 1,
                                  blank |-> counts.blank, unread |-> counts.unread]
      BY <2>1, <1>6
  <2> QED
      BY <1>2, <1>6, <2>2 DEF AllCounts
<1>3. CASE kind = "text"
    BY <1>3 DEF CountOne, AllCounts
<1>4. CASE kind = "blank"
    BY <1>4 DEF CountOne, AllCounts
<1>5. CASE kind = "image-only"
    BY <1>5 DEF CountOne, AllCounts
<1> QED
    BY <1>1, <1>2, <1>3, <1>4, <1>5

\* The counts of the first i blocks.
CountsUpto(blocks, i) ==
    [readable |-> Cardinality({p \in 1 .. i : blocks[p] \in {"text", "ocr-text"}}),
     ocr      |-> Cardinality({p \in 1 .. i : blocks[p] \in {"ocr-text"}}),
     blank    |-> Cardinality({p \in 1 .. i : blocks[p] \in {"blank"}}),
     unread   |-> Cardinality({p \in 1 .. i : blocks[p] \in {"image-only"}})]

\* The counts of the first i blocks follow from those before.
LEMMA CountsUptoOneMore ==
    ASSUME NEW n, NEW blocks, IsBlocks(blocks, n), NEW i \in 1 .. n
    PROVE  CountsUpto(blocks, i) = CountOne(CountsUpto(blocks, i - 1), blocks[i])
<1> DEFINE Before(wanted) == Cardinality({p \in 1 .. (i - 1) : blocks[p] \in wanted})
           After(wanted) == Cardinality({p \in 1 .. i : blocks[p] \in wanted})
           c == CountsUpto(blocks, i - 1)
<1>1. \A wanted : /\ Before(wanted) \in Nat
                  /\ After(wanted) = Before(wanted) + (IF blocks[i] \in wanted THEN 1 ELSE 0)
    BY OneMorePage
<1>2. blocks[i] \in PageKinds
    BY DEF IsBlocks
<1>3. c = [readable |-> Before({"text", "ocr-text"}), ocr |-> Before({"ocr-text"}),
           blank |-> Before({"blank"}), unread |-> Before({"image-only"})]
    BY DEF CountsUpto
<1>4. CountsUpto(blocks, i)
        = [readable |-> After({"text", "ocr-text"}), ocr |-> After({"ocr-text"}),
           blank |-> After({"blank"}), unread |-> After({"image-only"})]
    BY DEF CountsUpto
<1> HIDE DEF Before, After, c
<1>5. c \in AllCounts
    BY <1>1, <1>3 DEF AllCounts
<1>6. CountOne(c, blocks[i])
        = [readable |-> c.readable + (IF blocks[i] \in {"text", "ocr-text"} THEN 1 ELSE 0),
           ocr      |-> c.ocr + (IF blocks[i] \in {"ocr-text"} THEN 1 ELSE 0),
           blank    |-> c.blank + (IF blocks[i] \in {"blank"} THEN 1 ELSE 0),
           unread   |-> c.unread + (IF blocks[i] \in {"image-only"} THEN 1 ELSE 0)]
    BY <1>2, <1>5, CountedOne
<1>7. /\ c.readable = Before({"text", "ocr-text"}) /\ c.ocr = Before({"ocr-text"})
      /\ c.blank = Before({"blank"}) /\ c.unread = Before({"image-only"})
    BY <1>3
<1>8. CountsUpto(blocks, i) = CountOne(c, blocks[i])
    BY <1>1, <1>4, <1>6, <1>7
<1> QED
    BY <1>8 DEF c

\* Counting one block after the other is what the query counts.
LEMMA OpenedIsListed ==
    ASSUME NEW n, NEW blocks, IsBlocks(blocks, n)
    PROVE  PageKindCounts(blocks) = ListedCounts(blocks)
<1> DEFINE D == 1 .. n
           none == Counts(0, 0, 0, 0)
           Fold(iter, s) == IF s = {} THEN none
                            ELSE CountOne(iter[s \ {Max(s)}], blocks[Max(s)])
           Iter == CHOOSE iter : iter = [s \in SUBSET DOMAIN blocks |-> Fold(iter, s)]
<1>0. n \in Nat /\ DOMAIN blocks = D /\ \A p \in D : blocks[p] \in PageKinds
    BY DEF IsBlocks
<1>1. PageKindCounts(blocks) = Iter[D]
  <2>1. PageKindCounts(blocks) = Iter[DOMAIN blocks]
      BY DEF PageKindCounts, FoldLeft, MapThenFoldSet, CountOne
  <2> HIDE DEF Iter
  <2> QED
      BY <1>0, <2>1
<1>2. Iter = [s \in SUBSET D |-> Fold(Iter, s)]
  <2> DEFINE step == [p \in D \X AllCounts |-> CountOne(p[2], blocks[p[1]])]
  <2>1. step \in Steps(n, AllCounts)
    <3>1. \A p \in D \X AllCounts : CountOne(p[2], blocks[p[1]]) \in AllCounts
        BY <1>0, CountedOne
    <3> QED
        BY <3>1 DEF Steps
  <2>2. none \in AllCounts
      BY DEF Counts, AllCounts
  <2>3. PICK iter : IsFold(n, AllCounts, none, step, iter)
    <3> HIDE DEF step, none
    <3> QED
        BY <1>0, <2>1, <2>2, FoldsExist
  <2>4. iter \in [SUBSET D -> AllCounts] /\ \A s \in SUBSET D : iter[s] = FoldStep(none, step, iter, s)
      BY <2>3 DEF IsFold
  <2>5. \A s \in SUBSET D : iter[s] = Fold(iter, s)
    <3> SUFFICES ASSUME NEW s \in SUBSET D PROVE iter[s] = Fold(iter, s)
        OBVIOUS
    <3>1. CASE s = {}
        BY <2>4, <3>1 DEF FoldStep
    <3>2. CASE s # {}
        <4>1. Max(s) \in D /\ s \ {Max(s)} \in SUBSET D
            BY <1>0, <3>2, GreatestNumber
        <4>2. iter[s \ {Max(s)}] \in AllCounts
            BY <2>4, <4>1
        <4>3. step[<<Max(s), iter[s \ {Max(s)}]>>] = Fold(iter, s)
            BY <3>2, <4>1, <4>2
        <4> QED
            BY <2>4, <3>2, <4>3 DEF FoldStep
    <3> QED
        BY <3>1, <3>2
  <2> HIDE DEF Fold
  <2>6. iter = [s \in SUBSET D |-> Fold(iter, s)]
      BY <2>4, <2>5
  <2>7. iter = [s \in SUBSET DOMAIN blocks |-> Fold(iter, s)]
      BY <1>0, <2>6
  <2>8. Iter = [s \in SUBSET DOMAIN blocks |-> Fold(Iter, s)]
      BY <2>7
  <2> HIDE DEF Iter
  <2> QED
      BY <1>0, <2>8
<1> HIDE DEF Iter
<1>3. Iter[1 .. 0] = none
    BY <1>2
<1>4. ASSUME NEW i \in D
      PROVE  Iter[1 .. i] = CountOne(Iter[1 .. (i - 1)], blocks[i])
  <2>0. i \in Nat /\ i # 0 /\ i \in 1 .. i /\ 1 .. i \in SUBSET D
      BY <1>0
  <2>1. /\ i \in Nat /\ i # 0 /\ 1 .. i \in SUBSET D /\ 1 .. i # {}
        /\ Max(1 .. i) = i /\ (1 .. i) \ {i} = 1 .. (i - 1)
      BY <2>0, GreatestOfAll
  <2>2. Iter[1 .. i] = Fold(Iter, 1 .. i)
    <3> HIDE DEF Fold
    <3> QED
        BY <1>2, <2>1
  <2> QED
      BY <2>1, <2>2
<1> DEFINE Wrong == {i \in Nat : i <= n /\ Iter[1 .. i] # CountsUpto(blocks, i)}
<1>5. Wrong = {}
  <2> SUFFICES ASSUME Wrong # {} PROVE FALSE
      OBVIOUS
  <2>1. PICK i \in Wrong : \A j \in Wrong : i <= j
      BY LeastNumber
  <2>2. i # 0
    <3>1. \A wanted : {p \in 1 .. 0 : blocks[p] \in wanted} = {}
        OBVIOUS
    <3>2. CountsUpto(blocks, 0) = none
        BY <3>1, FS_EmptySet DEF CountsUpto, Counts
    <3> QED
        BY <1>3, <3>2
  <2>3. i \in Nat /\ i - 1 \in Nat /\ i \in D /\ i - 1 <= n
      BY <1>0, <2>2
  <2>4. i - 1 \notin Wrong
    <3> HIDE DEF Wrong
    <3> QED
        BY <2>1, <2>3
  <2>5. Iter[1 .. (i - 1)] = CountsUpto(blocks, i - 1)
      BY <2>3, <2>4
  <2>6. Iter[1 .. i] = CountsUpto(blocks, i)
    <3> HIDE DEF Wrong, Fold, D
    <3>1. Iter[1 .. i] = CountOne(CountsUpto(blocks, i - 1), blocks[i])
        BY <1>4, <2>3, <2>5
    <3> QED
        BY <2>3, <3>1, CountsUptoOneMore DEF D
  <2> QED
      BY <2>6
<1>6. Iter[D] = CountsUpto(blocks, n)
    BY <1>0, <1>5
<1>7. CountsUpto(blocks, n) = ListedCounts(blocks)
    BY <1>0 DEF CountsUpto, ListedCounts, PagesOfKind, Counts
<1> QED
    BY <1>1, <1>6, <1>7

\* What is stored of a reading has its kinds.
LEMMA StoredAsRead ==
    ASSUME NEW reading, NEW n, IsReading(reading, n)
    PROVE  StoredBlocks(reading) = reading.kinds /\ IsBlocks(reading.kinds, n)
<1>1. /\ DOMAIN reading.kinds = 1 .. n /\ n \in Nat
      /\ \A p \in 1 .. n : reading.kinds[p] \in {"text", "blank", "image-only"}
      /\ reading.kinds = [p \in 1 .. n |-> reading.kinds[p]]
    BY DEF IsReading
<1>2. \A p \in 1 .. n : ReadPageKind(UploadedPage(reading.kinds[p])) = reading.kinds[p]
  <2> SUFFICES ASSUME NEW p \in 1 .. n
               PROVE  ReadPageKind(UploadedPage(reading.kinds[p])) = reading.kinds[p]
      OBVIOUS
  <2>1. CASE reading.kinds[p] = "text"
      BY <2>1 DEF ReadPageKind, UploadedPage
  <2>2. CASE reading.kinds[p] = "blank"
      BY <2>2 DEF ReadPageKind, UploadedPage
  <2>3. CASE reading.kinds[p] = "image-only"
      BY <2>3 DEF ReadPageKind, UploadedPage
  <2> QED
      BY <1>1, <2>1, <2>2, <2>3
<1>3. StoredBlocks(reading) = reading.kinds
    BY <1>1, <1>2 DEF StoredBlocks
<1>4. IsBlocks(reading.kinds, n)
  <2>1. \A p \in 1 .. n : reading.kinds[p] \in PageKinds
      BY <1>1 DEF PageKinds
  <2> QED
      BY <1>1, <2>1 DEF IsBlocks
<1> QED
    BY <1>3, <1>4

\* The client's report counts what the opened document counts.
LEMMA ReportedAsListed ==
    ASSUME NEW blocks, NEW n, IsBlocks(blocks, n), NEW media
    PROVE  /\ OpenedDocument(blocks, media).counts = ListedCounts(blocks)
           /\ ReadReportFromStored(OpenedDocument(blocks, media)).counts = ListedCounts(blocks)
<1> DEFINE opened == OpenedDocument(blocks, media)
           c == ListedCounts(blocks)
<1>1. opened.counts = c /\ opened.blocks = blocks
    BY OpenedIsListed DEF OpenedDocument
<1>2. /\ c = [readable |-> PagesOfKind(blocks, {"text", "ocr-text"}),
              ocr |-> PagesOfKind(blocks, {"ocr-text"}),
              blank |-> PagesOfKind(blocks, {"blank"}),
              unread |-> PagesOfKind(blocks, {"image-only"})]
    BY DEF ListedCounts, Counts
<1> HIDE DEF opened, c
<1>3. ReadReportFromStored(opened).counts
        = [c EXCEPT !.readable = IF @ = 0 THEN PagesOfKind(blocks, {"text", "ocr-text"}) ELSE @,
                    !.ocr = PagesOfKind(blocks, {"ocr-text"})]
    BY <1>1 DEF ReadReportFromStored
<1>4. ReadReportFromStored(opened).counts = c
    BY <1>2, <1>3
<1> QED
    BY <1>1, <1>4 DEF opened, c

\* Reading pictures moves their pages from the unread to the readable.
LEMMA PicturesRead ==
    ASSUME NEW n, NEW blocks, IsBlocks(blocks, n), NEW media,
           NEW worded, worded \subseteq OcrCandidates(blocks, media)
    PROVE  LET later    == AfterOcr(blocks, worded)
               report   == ReadReportFromStored(OpenedDocument(blocks, media))
               reported == ReadReportFromStored(OpenedDocument(later, media))
               read     == {p \in DOMAIN blocks : later[p] # blocks[p]}
           IN  /\ IsBlocks(later, n)
               /\ ListedCounts(later).readable = ListedCounts(blocks).readable + Cardinality(read)
               /\ reported.unreadPictures = report.unreadPictures - Cardinality(read)
               /\ reported.unreadWithoutPicture = report.unreadWithoutPicture
<1> DEFINE later == AfterOcr(blocks, worded)
           read == {p \in DOMAIN blocks : later[p] # blocks[p]}
           unread(b) == {p \in DOMAIN b : b[p] = "image-only"}
           pictured(b) == {p \in unread(b) : \E row \in media : row[1] = p}
           readable(b) == {p \in DOMAIN b : b[p] \in {"text", "ocr-text"}}
<1>1. /\ n \in Nat /\ DOMAIN blocks = 1 .. n /\ \A p \in 1 .. n : blocks[p] \in PageKinds
    BY DEF IsBlocks
<1>2. /\ later = [p \in 1 .. n |-> IF p \in worded THEN "ocr-text" ELSE blocks[p]]
    BY <1>1 DEF AfterOcr
<1>3. worded \subseteq pictured(blocks)
    BY DEF OcrCandidates
<1> HIDE DEF later
<1>4. IsBlocks(later, n)
  <2>1. \A p \in 1 .. n : (IF p \in worded THEN "ocr-text" ELSE blocks[p]) \in PageKinds
      BY <1>1 DEF PageKinds
  <2> QED
      BY <1>1, <1>2, <2>1 DEF IsBlocks
<1>5. read = worded
    BY <1>1, <1>2, <1>3
<1>6. /\ readable(later) = readable(blocks) \cup worded /\ readable(blocks) \cap worded = {}
    BY <1>1, <1>2, <1>3
<1>7. /\ pictured(blocks) = pictured(later) \cup worded /\ pictured(later) \cap worded = {}
      /\ unread(later) \ pictured(later) = unread(blocks) \ pictured(blocks)
    BY <1>1, <1>2, <1>3
<1>8. /\ IsFiniteSet(readable(blocks)) /\ IsFiniteSet(pictured(later)) /\ IsFiniteSet(worded)
  <2>1. IsFiniteSet(1 .. n)
      BY <1>1, FS_Interval
  <2>2. DOMAIN later = 1 .. n
      BY <1>2
  <2>3. readable(blocks) \subseteq 1 .. n /\ pictured(later) \subseteq 1 .. n /\ worded \subseteq 1 .. n
      BY <1>1, <1>3, <2>2
  <2> HIDE DEF readable, pictured
  <2> QED
      BY <2>1, <2>3, FS_Subset
<1> DEFINE reportOn(b) == ReadReportFromStored(OpenedDocument(b, media))
<1>9. ASSUME NEW b
      PROVE  /\ ListedCounts(b).readable = Cardinality(readable(b))
             /\ reportOn(b).unreadPictures = Cardinality(pictured(b))
             /\ reportOn(b).unreadWithoutPicture = Cardinality(unread(b) \ pictured(b))
    BY DEF ListedCounts, PagesOfKind, Counts, OpenedDocument, ReadReportFromStored
<1> HIDE DEF unread, pictured, readable, read, reportOn
<1>10. /\ Cardinality(readable(later)) = Cardinality(readable(blocks)) + Cardinality(worded)
       /\ Cardinality(pictured(blocks)) = Cardinality(pictured(later)) + Cardinality(worded)
       /\ Cardinality(pictured(later)) \in Nat /\ Cardinality(worded) \in Nat
  <2>1. Cardinality(readable(later)) = Cardinality(readable(blocks)) + Cardinality(worded)
      BY <1>6, <1>8, DisjointUnion
  <2>2. Cardinality(pictured(blocks)) = Cardinality(pictured(later)) + Cardinality(worded)
      BY <1>7, <1>8, DisjointUnion
  <2> QED
      BY <1>8, <2>1, <2>2, FS_CardinalityType
<1>11. ListedCounts(later).readable = ListedCounts(blocks).readable + Cardinality(read)
    BY <1>5, <1>9, <1>10
<1>12. reportOn(later).unreadPictures = reportOn(blocks).unreadPictures - Cardinality(read)
  <2>1. /\ reportOn(later).unreadPictures = Cardinality(pictured(later))
        /\ reportOn(blocks).unreadPictures = Cardinality(pictured(blocks))
      BY <1>9
  <2> QED
      BY <1>5, <1>10, <2>1
<1>13. reportOn(later).unreadWithoutPicture = reportOn(blocks).unreadWithoutPicture
    BY <1>7, <1>9
<1> QED
    BY <1>4, <1>11, <1>12, <1>13 DEF later, read, reportOn

\* The four counts of one document agree for files of any length, any pictures
\* and any pages whose pictures hold words (ingestion/index.ts, resources.ts,
\* readReport.ts).
THEOREM SpecReportsAgreeOnCoverage == RulesSpec => []ReportsAgreeOnCoverage
<1>1. Asked => ReportsAgreeOnCoverage
  <2> SUFFICES ASSUME Asked, Answered("file") PROVE ReportsAgreeOnCoverage
      BY DEF ReportsAgreeOnCoverage
  <2> DEFINE reading  == Said.reading
             blocks   == Said.blocks
             later    == Said.later
             media    == reading.media
             opened   == OpenedDocument(blocks, media)
             reopened == OpenedDocument(later, media)
             report   == ReadReportFromStored(opened)
             reported == ReadReportFromStored(reopened)
             read     == {p \in DOMAIN blocks : later[p] # blocks[p]}
  <2>1. PICK n : IsReading(reading, n)
      BY FileFacts
  <2>2. blocks = reading.kinds /\ IsBlocks(blocks, n)
      BY <2>1, FileFacts, StoredAsRead
  <2>3. PICK worded : worded \subseteq OcrCandidates(blocks, media) /\ later = AfterOcr(blocks, worded)
      BY FileFacts
  <2> HIDE DEF reading, blocks, later, media
  <2>4. /\ IsBlocks(later, n)
        /\ ListedCounts(later).readable = ListedCounts(blocks).readable + Cardinality(read)
        /\ reported.unreadPictures = report.unreadPictures - Cardinality(read)
        /\ reported.unreadWithoutPicture = report.unreadWithoutPicture
      BY <2>2, <2>3, PicturesRead
  <2>5. /\ opened.counts = ListedCounts(blocks) /\ report.counts = ListedCounts(blocks)
        /\ reopened.counts = ListedCounts(later) /\ reported.counts = ListedCounts(later)
      BY <2>2, <2>4, ReportedAsListed
  <2>6. SummariseExtraction(reading) = ListedCounts(blocks)
      BY <2>2, KindsPartition DEF SummariseExtraction, ListedCounts
  <2>7. Len(blocks) = n
      BY <2>2 DEF IsBlocks
  <2>8. ASSUME NEW b, IsBlocks(b, n) PROVE Adds(ListedCounts(b), n)
    <3>1. /\ ListedCounts(b).readable = PagesOfKind(b, {"text", "ocr-text"})
          /\ ListedCounts(b).blank = PagesOfKind(b, {"blank"})
          /\ ListedCounts(b).unread = PagesOfKind(b, {"image-only"})
        BY DEF ListedCounts, Counts
    <3> QED
        BY <2>8, <3>1, KindsPartition DEF Adds
  <2>9. \A row \in media : row[1] # 0 => reading.kinds[row[1]] # "blank"
      BY <2>1 DEF IsReading, media
  <2> HIDE DEF opened, reopened, report, reported, read
  <2>10. /\ Adds(ListedCounts(blocks), Len(blocks)) /\ Adds(ListedCounts(later), Len(blocks))
      BY <2>2, <2>4, <2>7, <2>8
  <2> QED
      BY <2>4, <2>5, <2>6, <2>9, <2>10
      DEF ReportsAgreeOnCoverage, opened, reopened, report, reported, read,
          reading, blocks, later, media
<1> QED
    BY <1>1, SpecAsked, PTL

-----------------------------------------------------------------------------
(***************************************************************************)
(* Passes.  A recursion along a sequence takes what it has and the next    *)
(* place: keeping some members, adding up, packing, joining sequences.     *)
(***************************************************************************)

\* A set that has 0, and with each number before a bound the next, has them all.
LEMMA NumbersUpTo ==
    ASSUME NEW n \in Nat, NEW S, 0 \in S, \A m \in 0 .. n - 1 : m \in S => m + 1 \in S
    PROVE  0 .. n \subseteq S
<1> SUFFICES ASSUME NEW b \in 0 .. n, b \notin S PROVE FALSE
    OBVIOUS
<1> DEFINE Out == {m \in 0 .. n : m \notin S}
<1>1. Out \in SUBSET Nat /\ Out # {}
    OBVIOUS
<1>2. PICK m \in Out : \A k \in Out : m <= k
    <2> HIDE DEF Out
    <2> QED
        BY <1>1, LeastNumber
<1>3. m # 0 /\ m - 1 \in 0 .. n - 1 /\ m - 1 \in S
    <2>1. m \in 0 .. n /\ m # 0
        BY <1>2
    <2>2. m - 1 \in 0 .. n - 1 /\ ~(m <= m - 1)
        BY <2>1
    <2> QED
        BY <1>2, <2>1, <2>2
<1>4. m \in S
    <2>1. m - 1 + 1 = m
        BY <1>2
    <2> QED
        BY <1>3, <2>1
<1> QED
    BY <1>2, <1>4

Moves(n, V) == [V \X (1 .. n) -> V]
IsPass(f, n, base, move) ==
    f = [i \in 0 .. n |-> IF i = 0 THEN base ELSE move[<<f[i - 1], i>>]]

\* A pass is defined, and each of its values comes from the one before.
LEMMA PassExists ==
    ASSUME NEW n \in Nat, NEW V, NEW base \in V, NEW move \in Moves(n, V)
    PROVE  \E f \in [0 .. n -> V] : IsPass(f, n, base, move)
<1> DEFINE Solves(f, m) == f \in [0 .. m -> V] /\ IsPass(f, m, base, move)
           Solved == {m \in Nat : \E f : Solves(f, m)}
<1>1. 0 \in Solved
    <2> DEFINE f == [i \in 0 .. 0 |-> base]
    <2>1. Solves(f, 0)
        BY DEF IsPass
    <2> QED
        BY <2>1
<1>2. ASSUME NEW m \in 0 .. n - 1, m \in Solved PROVE m + 1 \in Solved
    <2>1. PICK f : Solves(f, m)
        BY <1>2
    <2> DEFINE g == [i \in 0 .. m + 1 |-> IF i = m + 1 THEN move[<<f[m], m + 1>>] ELSE f[i]]
    <2>2. \A i \in 0 .. m : g[i] = f[i] /\ f[i] \in V
        BY <2>1
    <2>3. g[m + 1] = move[<<f[m], m + 1>>]
        OBVIOUS
    <2>4. move[<<f[m], m + 1>>] \in V
        <3>1. m \in 0 .. m /\ m + 1 \in 1 .. n
            OBVIOUS
        <3>2. f[m] \in V /\ <<f[m], m + 1>> \in V \X (1 .. n)
            BY <2>2, <3>1
        <3> QED
            BY <3>2 DEF Moves
    <2>5. g \in [0 .. m + 1 -> V]
        <3>1. \A i \in 0 .. m + 1 : i = m + 1 \/ i \in 0 .. m
            OBVIOUS
        <3>2. \A i \in 0 .. m + 1 :
                  (IF i = m + 1 THEN move[<<f[m], m + 1>>] ELSE f[i]) \in V
            BY <2>2, <2>4, <3>1
        <3> QED
            BY <3>2
    <2>6. \A i \in 0 .. m : f[i] = IF i = 0 THEN base ELSE move[<<f[i - 1], i>>]
        BY <2>1 DEF IsPass
    <2>7. \A i \in 0 .. m + 1 : g[i] = IF i = 0 THEN base ELSE move[<<g[i - 1], i>>]
        <3> SUFFICES ASSUME NEW i \in 0 .. m + 1
                     PROVE  g[i] = IF i = 0 THEN base ELSE move[<<g[i - 1], i>>]
            OBVIOUS
        <3>1. CASE i = m + 1
            <4>1. g[i - 1] = f[m] /\ i # 0
                BY <2>2, <3>1
            <4> QED
                BY <2>3, <3>1, <4>1
        <3>2. CASE i \in 0 .. m /\ i # 0
            <4>1. i - 1 \in 0 .. m
                BY <3>2
            <4> HIDE DEF g
            <4> QED
                BY <2>2, <2>6, <3>2, <4>1
        <3>3. CASE i = 0
            <4>1. 0 \in 0 .. m
                OBVIOUS
            <4> HIDE DEF g
            <4> QED
                BY <2>2, <2>6, <3>3, <4>1
        <3> QED
            BY <3>1, <3>2, <3>3
    <2>8. Solves(g, m + 1)
        <3> DEFINE h == [i \in 0 .. m + 1 |-> IF i = 0 THEN base ELSE move[<<g[i - 1], i>>]]
        <3>1. g = h
            <4>1. DOMAIN g = 0 .. m + 1 /\ g = [i \in 0 .. m + 1 |-> g[i]]
                OBVIOUS
            <4> HIDE DEF g
            <4> QED
                BY <2>7, <4>1
        <3> HIDE DEF g
        <3> QED
            BY <2>5, <3>1 DEF IsPass
    <2> QED
        <3> HIDE DEF Solves, g
        <3> QED
            BY <2>8
<1>3. n \in Solved
    <2> HIDE DEF Solved
    <2> QED
        BY <1>1, <1>2, NumbersUpTo
<1> QED
    BY <1>3

\* The values of a pass, and a formula about them that each keeps.
LEMMA PassSteps ==
    ASSUME NEW n \in Nat, NEW V, NEW base \in V, NEW move \in Moves(n, V), NEW f,
           IsPass(f, n, base, move)
    PROVE  /\ f \in [0 .. n -> V]
           /\ f[0] = base
           /\ \A i \in 1 .. n : f[i] = move[<<f[i - 1], i>>]
<1>1. /\ f[0] = base
      /\ \A i \in 1 .. n : f[i] = move[<<f[i - 1], i>>]
      /\ DOMAIN f = 0 .. n /\ f = [i \in 0 .. n |-> f[i]]
    <2> DEFINE g == [i \in 0 .. n |-> IF i = 0 THEN base ELSE move[<<f[i - 1], i>>]]
    <2>1. f = g
        BY DEF IsPass
    <2>2. /\ g[0] = base
          /\ \A i \in 1 .. n : g[i] = move[<<f[i - 1], i>>]
          /\ DOMAIN g = 0 .. n /\ g = [i \in 0 .. n |-> g[i]]
        OBVIOUS
    <2> HIDE DEF g
    <2> QED
        BY <2>1, <2>2
<1> DEFINE Typed == {i \in 0 .. n : f[i] \in V}
<1>2. 0 \in Typed
    BY <1>1
<1>3. ASSUME NEW i \in 0 .. n - 1, i \in Typed PROVE i + 1 \in Typed
    <2>1. i + 1 \in 1 .. n /\ i + 1 - 1 = i /\ f[i] \in V
        BY <1>3
    <2>2. f[i + 1] = move[<<f[i + 1 - 1], i + 1>>]
        BY <1>1, <2>1
    <2>3. f[i + 1] = move[<<f[i], i + 1>>]
        BY <2>1, <2>2
    <2>4. <<f[i], i + 1>> \in V \X (1 .. n)
        BY <2>1
    <2>5. f[i + 1] \in V
        BY <2>3, <2>4 DEF Moves
    <2> QED
        BY <2>5
<1>4. 0 .. n \subseteq Typed
    <2> HIDE DEF Typed
    <2> QED
        BY <1>2, <1>3, NumbersUpTo
<1> QED
    BY <1>1, <1>4

\* No member of the sequence is there twice.
Distinct(seq) == \A i, j \in DOMAIN seq : seq[i] = seq[j] => i = j

\* A member added at the end.
LEMMA AppendAdds ==
    ASSUME NEW T, NEW seq \in Seq(T), NEW x \in T
    PROVE  /\ Append(seq, x) \in Seq(T)
           /\ ToSet(Append(seq, x)) = ToSet(seq) \cup {x}
           /\ Distinct(seq) /\ x \notin ToSet(seq) => Distinct(Append(seq, x))
<1> DEFINE more == Append(seq, x)
           n == Len(seq)
<1>1. /\ n \in Nat /\ DOMAIN seq = 1 .. n
      /\ more \in Seq(T) /\ Len(more) = n + 1 /\ DOMAIN more = 1 .. n + 1
      /\ \A i \in 1 .. n : more[i] = seq[i]
      /\ more[n + 1] = x
    BY AppendProperties
<1> HIDE DEF more, n
<1>2. 1 .. n + 1 = (1 .. n) \cup {n + 1}
    BY <1>1
<1>3. ToSet(more) = ToSet(seq) \cup {x}
    <2>1. /\ ToSet(more) = {more[i] : i \in 1 .. n + 1}
          /\ ToSet(seq) = {seq[i] : i \in 1 .. n}
        BY <1>1 DEF ToSet
    <2>2. ASSUME NEW y \in ToSet(more) PROVE y \in ToSet(seq) \cup {x}
        <3>1. PICK i \in 1 .. n + 1 : y = more[i]
            BY <2>1
        <3>2. i \in 1 .. n \/ i = n + 1
            BY <1>2
        <3> QED
            BY <1>1, <2>1, <3>1, <3>2
    <2>3. ASSUME NEW y \in ToSet(seq) PROVE y \in ToSet(more)
        <3>1. PICK i \in 1 .. n : y = seq[i]
            BY <2>1
        <3>2. i \in 1 .. n + 1 /\ more[i] = y
            BY <1>1, <1>2, <3>1
        <3> QED
            BY <2>1, <3>2
    <2>4. x \in ToSet(more)
        <3>1. n + 1 \in 1 .. n + 1
            BY <1>1
        <3> QED
            BY <1>1, <2>1, <3>1
    <2> QED
        BY <2>2, <2>3, <2>4
<1>4. ASSUME Distinct(seq), x \notin ToSet(seq), NEW i \in 1 .. n + 1, NEW j \in 1 .. n + 1,
             more[i] = more[j]
      PROVE  i = j
    <2>1. \A k \in 1 .. n : seq[k] # x
        BY <1>1, <1>4 DEF ToSet
    <2>2. CASE i \in 1 .. n /\ j \in 1 .. n
        BY <1>1, <1>4, <2>2 DEF Distinct
    <2>3. CASE i = n + 1 /\ j = n + 1
        BY <2>3
    <2>4. CASE i = n + 1 /\ j \in 1 .. n
        BY <1>1, <1>4, <2>1, <2>4
    <2>5. CASE j = n + 1 /\ i \in 1 .. n
        BY <1>1, <1>4, <2>1, <2>5
    <2> QED
        BY <1>2, <1>4, <2>2, <2>3, <2>4, <2>5
<1> QED
    BY <1>1, <1>3, <1>4 DEF more, Distinct

\* Two sequences joined.
LEMMA ConcatJoins ==
    ASSUME NEW T, NEW seq \in Seq(T), NEW rest \in Seq(T)
    PROVE  /\ seq \o rest \in Seq(T)
           /\ ToSet(seq \o rest) = ToSet(seq) \cup ToSet(rest)
           /\ Distinct(seq) /\ Distinct(rest) /\ ToSet(seq) \cap ToSet(rest) = {}
              => Distinct(seq \o rest)
<1> DEFINE both == seq \o rest
           n == Len(seq)
           m == Len(rest)
<1>1. /\ n \in Nat /\ DOMAIN seq = 1 .. n
      /\ m \in Nat /\ DOMAIN rest = 1 .. m
      /\ both \in Seq(T) /\ Len(both) = n + m /\ DOMAIN both = 1 .. n + m
      /\ \A i \in 1 .. n + m : both[i] = IF i <= n THEN seq[i] ELSE rest[i - n]
    BY ConcatProperties
<1> HIDE DEF both, n, m
<1>2. /\ \A i \in 1 .. n : i \in 1 .. n + m /\ both[i] = seq[i]
      /\ \A i \in 1 .. m : n + i \in 1 .. n + m /\ both[n + i] = rest[i]
    BY <1>1
<1>3. \A i \in 1 .. n + m : i \in 1 .. n \/ \E j \in 1 .. m : i = n + j
    <2> SUFFICES ASSUME NEW i \in 1 .. n + m, i \notin 1 .. n PROVE \E j \in 1 .. m : i = n + j
        OBVIOUS
    <2>1. i - n \in 1 .. m /\ i = n + (i - n)
        BY <1>1
    <2> QED
        BY <2>1
<1>4. ToSet(both) = ToSet(seq) \cup ToSet(rest)
    <2>1. ASSUME NEW x \in ToSet(both) PROVE x \in ToSet(seq) \cup ToSet(rest)
        <3>1. PICK i \in 1 .. n + m : x = both[i]
            BY <1>1, <2>1 DEF ToSet
        <3> QED
            BY <1>1, <1>2, <1>3, <3>1 DEF ToSet
    <2>2. ASSUME NEW x \in ToSet(seq) PROVE x \in ToSet(both)
        BY <1>1, <1>2, <2>2 DEF ToSet
    <2>3. ASSUME NEW x \in ToSet(rest) PROVE x \in ToSet(both)
        <3>1. PICK i \in 1 .. m : x = rest[i]
            BY <1>1, <2>3 DEF ToSet
        <3>2. n + i \in 1 .. n + m /\ both[n + i] = x
            BY <1>2, <3>1
        <3> QED
            BY <1>1, <3>2 DEF ToSet
    <2> QED
        BY <2>1, <2>2, <2>3
<1>5. ASSUME Distinct(seq), Distinct(rest), ToSet(seq) \cap ToSet(rest) = {},
             NEW i \in 1 .. n + m, NEW j \in 1 .. n + m, both[i] = both[j]
      PROVE  i = j
    <2>1. \A k \in 1 .. n, l \in 1 .. m : seq[k] # rest[l]
        BY <1>1, <1>5 DEF ToSet
    <2>2. CASE i \in 1 .. n /\ j \in 1 .. n
        BY <1>1, <1>2, <1>5, <2>2 DEF Distinct
    <2>3. CASE i \in 1 .. n /\ j \notin 1 .. n
        BY <1>2, <1>3, <1>5, <2>1, <2>3
    <2>4. CASE i \notin 1 .. n /\ j \in 1 .. n
        BY <1>2, <1>3, <1>5, <2>1, <2>4
    <2>5. CASE i \notin 1 .. n /\ j \notin 1 .. n
        <3>1. PICK k \in 1 .. m, l \in 1 .. m : i = n + k /\ j = n + l
            BY <1>3, <2>5
        <3>2. rest[k] = rest[l]
            BY <1>2, <1>5, <3>1
        <3> QED
            BY <1>1, <1>5, <3>1, <3>2 DEF Distinct
    <2> QED
        BY <2>2, <2>3, <2>4, <2>5
<1> QED
    BY <1>1, <1>4, <1>5 DEF both, Distinct

\* Keeping the members that are in S is a pass.
LEMMA KeptSteps ==
    ASSUME NEW S, NEW T, NEW seq \in Seq(T)
    PROVE  /\ KeptOf(S, seq)[0] = <<>>
           /\ \A i \in 1 .. Len(seq) :
                 KeptOf(S, seq)[i] = IF seq[i] \in S
                                     THEN Append(KeptOf(S, seq)[i - 1], seq[i])
                                     ELSE KeptOf(S, seq)[i - 1]
<1> DEFINE n == Len(seq)
           V == Seq(T)
           keep(p) == IF seq[p[2]] \in S THEN Append(p[1], seq[p[2]]) ELSE p[1]
           move == [p \in V \X (1 .. n) |-> keep(p)]
           Kept(f) == f = [i \in 0 .. n |-> IF i = 0 THEN <<>>
                                            ELSE IF seq[i] \in S THEN Append(f[i - 1], seq[i])
                                            ELSE f[i - 1]]
           k == KeptOf(S, seq)
<1> n \in Nat
    OBVIOUS
<1>1. <<>> \in V /\ move \in Moves(n, V)
    <2>1. \A p \in V \X (1 .. n) : keep(p) \in V
        <3> SUFFICES ASSUME NEW s \in V, NEW i \in 1 .. n PROVE keep(<<s, i>>) \in V
            OBVIOUS
        <3>1. seq[i] \in T
            OBVIOUS
        <3>2. Append(s, seq[i]) \in V
            BY <3>1, AppendProperties
        <3> QED
            BY <3>2
    <2> HIDE DEF keep
    <2> QED
        BY <2>1 DEF Moves
<1>2. \A s \in V, i \in 1 .. n :
          move[<<s, i>>] = IF seq[i] \in S THEN Append(s, seq[i]) ELSE s
    OBVIOUS
<1> HIDE DEF n, V, move
<1>3. \E f : Kept(f)
    <2>1. PICK f \in [0 .. n -> V] : IsPass(f, n, <<>>, move)
        BY <1>1, PassExists
    <2>2. f[0] = <<>> /\ \A i \in 1 .. n : f[i] = move[<<f[i - 1], i>>]
        BY <1>1, <2>1, PassSteps
    <2>3. ASSUME NEW i \in 0 .. n
          PROVE  f[i] = IF i = 0 THEN <<>>
                        ELSE IF seq[i] \in S THEN Append(f[i - 1], seq[i]) ELSE f[i - 1]
        <3>1. CASE i = 0
            BY <2>2, <3>1
        <3>2. CASE i # 0
            <4>1. i \in 1 .. n /\ i - 1 \in 0 .. n
                BY <3>2
            <4>2. f[i - 1] \in V
                BY <2>1, <4>1
            <4> QED
                BY <1>2, <2>2, <3>2, <4>1, <4>2
        <3> QED
            BY <3>1, <3>2
    <2>4. Kept(f)
        BY <2>1, <2>3
    <2> QED
        BY <2>4
<1>4. Kept(k)
    <2>1. k = CHOOSE f : Kept(f)
        BY DEF KeptOf, n
    <2> HIDE DEF k, Kept
    <2> QED
        BY <1>3, <2>1
<1>5. /\ k[0] = <<>>
      /\ \A i \in 1 .. n : k[i] = IF seq[i] \in S THEN Append(k[i - 1], seq[i]) ELSE k[i - 1]
    <2>1. 0 \in 0 .. n /\ \A i \in 1 .. n : i \in 0 .. n /\ i # 0
        OBVIOUS
    <2> HIDE DEF k
    <2> QED
        BY <1>4, <2>1
<1> QED
    BY <1>5 DEF n

\* What is kept are the members that are in S, as often as they were there.
LEMMA OnlyFacts ==
    ASSUME NEW S, NEW T, NEW seq \in Seq(T)
    PROVE  /\ Only(S, seq) \in Seq(T)
           /\ ToSet(Only(S, seq)) = ToSet(seq) \cap S
           /\ Distinct(seq) => Distinct(Only(S, seq))
<1> DEFINE n == Len(seq)
           k == KeptOf(S, seq)
           Upto(i) == {seq[j] : j \in 1 .. i}
           Good(i) == /\ k[i] \in Seq(T)
                      /\ ToSet(k[i]) = Upto(i) \cap S
                      /\ Distinct(seq) => Distinct(k[i])
           Goods == {i \in 0 .. n : Good(i)}
<1> n \in Nat /\ DOMAIN seq = 1 .. n
    OBVIOUS
<1>1. /\ k[0] = <<>>
      /\ \A i \in 1 .. n : k[i] = IF seq[i] \in S THEN Append(k[i - 1], seq[i]) ELSE k[i - 1]
    BY KeptSteps
<1> HIDE DEF k
<1>2. 0 \in Goods
    <2>1. Good(0)
        BY <1>1 DEF ToSet, Distinct
    <2> QED
        BY <2>1
<1>3. ASSUME NEW i \in 0 .. n - 1, i \in Goods PROVE i + 1 \in Goods
    <2>1. i + 1 \in 1 .. n /\ i + 1 - 1 = i /\ Good(i) /\ seq[i + 1] \in T
        BY <1>3
    <2>2. k[i + 1] = IF seq[i + 1] \in S THEN Append(k[i], seq[i + 1]) ELSE k[i]
        <3>1. k[i + 1] = IF seq[i + 1] \in S THEN Append(k[i + 1 - 1], seq[i + 1]) ELSE k[i + 1 - 1]
            BY <1>1, <2>1
        <3> QED
            BY <2>1, <3>1
    <2>3. Upto(i + 1) = Upto(i) \cup {seq[i + 1]}
        <3>1. 1 .. i + 1 = (1 .. i) \cup {i + 1}
            BY <1>3
        <3> QED
            BY <3>1
    <2>4. Distinct(seq) => seq[i + 1] \notin Upto(i)
        <3> SUFFICES ASSUME Distinct(seq), NEW j \in 1 .. i, seq[i + 1] = seq[j] PROVE FALSE
            OBVIOUS
        <3>1. j \in 1 .. n /\ i + 1 # j
            BY <1>3
        <3> QED
            BY <2>1, <3>1 DEF Distinct
    <2> HIDE DEF Upto
    <2>5. CASE seq[i + 1] \in S
        <3>1. k[i + 1] = Append(k[i], seq[i + 1])
            BY <2>2, <2>5
        <3>2. /\ k[i + 1] \in Seq(T)
              /\ ToSet(k[i + 1]) = ToSet(k[i]) \cup {seq[i + 1]}
              /\ Distinct(k[i]) /\ seq[i + 1] \notin ToSet(k[i]) => Distinct(k[i + 1])
            BY <2>1, <3>1, AppendAdds
        <3>3. Good(i + 1)
            BY <2>1, <2>3, <2>4, <2>5, <3>2
        <3> QED
            BY <2>1, <3>3
    <2>6. CASE seq[i + 1] \notin S
        <3>1. Good(i + 1)
            BY <2>1, <2>2, <2>3, <2>6
        <3> QED
            BY <2>1, <3>1
    <2> QED
        BY <2>5, <2>6
<1>4. 0 .. n \subseteq Goods
    <2> HIDE DEF Goods
    <2> QED
        BY <1>2, <1>3, NumbersUpTo
<1>5. Good(n) /\ ToSet(seq) = Upto(n)
    <2>1. ToSet(seq) = Upto(n)
        BY DEF ToSet
    <2> HIDE DEF Good, Upto
    <2> QED
        BY <1>4, <2>1
<1>6. Only(S, seq) = k[n]
    BY DEF k, Only
<1> HIDE DEF n, Upto
<1> QED
    BY <1>5, <1>6

\* Adding up is a pass.
LEMMA TotalSteps ==
    ASSUME NEW seq \in Seq(Nat)
    PROVE  /\ Totals(seq) \in [0 .. Len(seq) -> Nat]
           /\ Totals(seq)[0] = 0
           /\ \A i \in 1 .. Len(seq) : Totals(seq)[i] = Totals(seq)[i - 1] + seq[i]
<1> DEFINE n == Len(seq)
           V == Nat
           move == [p \in Nat \X (1 .. n) |-> p[1] + seq[p[2]]]
           AddsUp(f) == f = [i \in 0 .. n |-> IF i = 0 THEN 0 ELSE f[i - 1] + seq[i]]
           k == Totals(seq)
<1> n \in Nat
    OBVIOUS
<1>1. 0 \in V /\ move \in Moves(n, V)
    BY DEF Moves
<1>2. \A s \in Nat, i \in 1 .. n : move[<<s, i>>] = s + seq[i]
    OBVIOUS
<1> HIDE DEF n, move, V
<1>3. \E f : f \in [0 .. n -> Nat] /\ AddsUp(f)
    <2>1. PICK f \in [0 .. n -> V] : IsPass(f, n, 0, move)
        BY <1>1, PassExists
    <2>2. f[0] = 0 /\ \A i \in 1 .. n : f[i] = move[<<f[i - 1], i>>]
        BY <1>1, <2>1, PassSteps
    <2>3. ASSUME NEW i \in 0 .. n PROVE f[i] = IF i = 0 THEN 0 ELSE f[i - 1] + seq[i]
        <3>1. CASE i = 0
            BY <2>2, <3>1
        <3>2. CASE i # 0
            <4>1. i \in 1 .. n /\ i - 1 \in 0 .. n
                BY <3>2
            <4>2. f[i - 1] \in Nat
                BY <2>1, <4>1 DEF V
            <4> QED
                BY <1>2, <2>2, <3>2, <4>1, <4>2
        <3> QED
            BY <3>1, <3>2
    <2>4. AddsUp(f)
        BY <2>1, <2>3
    <2> QED
        BY <2>1, <2>4 DEF V
<1>4. AddsUp(k)
    <2>1. k = CHOOSE f : AddsUp(f)
        BY DEF Totals, n
    <2> HIDE DEF k, AddsUp
    <2> QED
        BY <1>3, <2>1
<1>5. /\ k[0] = 0 /\ DOMAIN k = 0 .. n /\ k = [i \in 0 .. n |-> k[i]]
      /\ \A i \in 1 .. n : k[i] = k[i - 1] + seq[i]
    <2> DEFINE g == [i \in 0 .. n |-> IF i = 0 THEN 0 ELSE k[i - 1] + seq[i]]
    <2>1. k = g
        BY <1>4
    <2>2. /\ g[0] = 0 /\ DOMAIN g = 0 .. n /\ g = [i \in 0 .. n |-> g[i]]
          /\ \A i \in 1 .. n : g[i] = k[i - 1] + seq[i]
        OBVIOUS
    <2> HIDE DEF k, g
    <2> QED
        BY <2>1, <2>2
<1> DEFINE Typed == {i \in 0 .. n : k[i] \in Nat}
<1>6. 0 .. n \subseteq Typed
    <2> HIDE DEF k
    <2>1. 0 \in Typed
        BY <1>5
    <2>2. ASSUME NEW i \in 0 .. n - 1, i \in Typed PROVE i + 1 \in Typed
        <3>1. i + 1 \in 1 .. n /\ i + 1 - 1 = i /\ k[i] \in Nat
            BY <2>2
        <3>2. k[i + 1] = k[i] + seq[i + 1]
            <4>1. PICK j \in 1 .. n : j = i + 1
                BY <3>1
            <4>2. k[j] = k[j - 1] + seq[j]
                BY <1>5
            <4>3. j - 1 = i
                BY <4>1
            <4> QED
                BY <4>1, <4>2, <4>3
        <3>3. seq[i + 1] \in Nat
            BY <3>1 DEF n
        <3>4. k[i + 1] \in Nat
            BY <3>1, <3>2, <3>3
        <3> QED
            BY <3>1, <3>4
    <2> HIDE DEF Typed
    <2> QED
        BY <2>1, <2>2, NumbersUpTo
<1>7. k \in [0 .. n -> Nat]
    <2> HIDE DEF k
    <2> QED
        BY <1>5, <1>6
<1> QED
    BY <1>5, <1>7 DEF n

\* The sum of no numbers, and of one more.
LEMMA SumFacts ==
    ASSUME NEW seq \in Seq(Nat)
    PROVE  /\ SumOf(seq) \in Nat
           /\ SumOf(<<>>) = 0
           /\ \A x \in Nat : SumOf(Append(seq, x)) = SumOf(seq) + x
<1> DEFINE n == Len(seq)
<1> n \in Nat /\ DOMAIN seq = 1 .. n
    OBVIOUS
<1>1. SumOf(seq) \in Nat
    BY TotalSteps DEF SumOf
<1>2. SumOf(<<>>) = 0
    <2>1. <<>> \in Seq(Nat) /\ Len(<<>>) = 0
        OBVIOUS
    <2>2. Totals(<<>>)[0] = 0
        BY <2>1, TotalSteps
    <2> QED
        BY <2>1, <2>2 DEF SumOf
<1>3. ASSUME NEW x \in Nat PROVE SumOf(Append(seq, x)) = SumOf(seq) + x
    <2> DEFINE more == Append(seq, x)
               Same == {i \in 0 .. n : Totals(more)[i] = Totals(seq)[i]}
    <2>1. /\ more \in Seq(Nat) /\ Len(more) = n + 1
          /\ \A i \in 1 .. n : more[i] = seq[i]
          /\ more[n + 1] = x
        BY AppendProperties
    <2> HIDE DEF more
    <2>2. /\ Totals(more)[0] = 0 /\ Totals(seq)[0] = 0
          /\ \A i \in 1 .. n + 1 : Totals(more)[i] = Totals(more)[i - 1] + more[i]
          /\ \A i \in 1 .. n : Totals(seq)[i] = Totals(seq)[i - 1] + seq[i]
        BY <2>1, TotalSteps
    <2>3. 0 \in Same
        BY <2>2
    <2>4. ASSUME NEW i \in 0 .. n - 1, i \in Same PROVE i + 1 \in Same
        <3>1. i + 1 \in 1 .. n /\ i + 1 \in 1 .. n + 1 /\ i + 1 - 1 = i
            BY <2>4
        <3>2. /\ Totals(more)[i + 1] = Totals(more)[i + 1 - 1] + more[i + 1]
              /\ Totals(seq)[i + 1] = Totals(seq)[i + 1 - 1] + seq[i + 1]
              /\ more[i + 1] = seq[i + 1]
            BY <2>1, <2>2, <3>1
        <3> QED
            BY <2>4, <3>1, <3>2
    <2>5. 0 .. n \subseteq Same
        <3> HIDE DEF Same
        <3> QED
            BY <2>3, <2>4, NumbersUpTo
    <2>6. Totals(more)[n] = Totals(seq)[n] /\ n + 1 \in 1 .. n + 1 /\ n + 1 - 1 = n
        BY <2>5
    <2>7. Totals(more)[n + 1] = Totals(more)[n + 1 - 1] + more[n + 1]
        BY <2>2, <2>6
    <2>8. Totals(more)[n + 1] = Totals(seq)[n] + x
        BY <2>1, <2>6, <2>7
    <2> QED
        BY <2>1, <2>8 DEF SumOf, more
<1> QED
    BY <1>1, <1>2, <1>3

\* Joining sequences is a pass: their members are there, once each when no
\* member is there twice, in one of them or in two.
LEMMA FlattenFacts ==
    ASSUME NEW T, NEW seqs \in Seq(Seq(T))
    PROVE  /\ FlattenSeq(seqs) \in Seq(T)
           /\ ToSet(FlattenSeq(seqs)) = UNION {ToSet(seqs[i]) : i \in DOMAIN seqs}
           /\ /\ \A i \in DOMAIN seqs : Distinct(seqs[i])
              /\ \A i, j \in DOMAIN seqs : i # j => ToSet(seqs[i]) \cap ToSet(seqs[j]) = {}
              => Distinct(FlattenSeq(seqs))
<1> DEFINE n == Len(seqs)
           V == Seq(T)
           move == [p \in V \X (1 .. n) |-> p[1] \o seqs[p[2]]]
           Joins(f) == f = [i \in 1 .. n |-> IF i = 1 THEN seqs[i] ELSE f[i - 1] \o seqs[i]]
           joined == CHOOSE f : Joins(f)
<1> n \in Nat /\ DOMAIN seqs = 1 .. n
    OBVIOUS
<1>1. <<>> \in V /\ move \in Moves(n, V)
    <2>1. \A s \in V, i \in 1 .. n : s \o seqs[i] \in V
        <3> TAKE s \in V, i \in 1 .. n
        <3>1. seqs[i] \in V
            OBVIOUS
        <3> QED
            BY <3>1, ConcatProperties
    <2> QED
        BY <2>1 DEF Moves
<1>2. \A s \in V, i \in 1 .. n : move[<<s, i>>] = s \o seqs[i]
    OBVIOUS
<1>3. \A i \in 1 .. n : seqs[i] \in V
    OBVIOUS
<1> HIDE DEF n, move, V
<1>4. \E f : Joins(f)
    <2>1. PICK f \in [0 .. n -> V] : IsPass(f, n, <<>>, move)
        BY <1>1, PassExists
    <2>2. f[0] = <<>> /\ \A i \in 1 .. n : f[i] = move[<<f[i - 1], i>>]
        BY ONLY n \in Nat, <1>1, <2>1, PassSteps
    <2> DEFINE g == [i \in 1 .. n |-> f[i]]
    <2>3. ASSUME NEW i \in 1 .. n PROVE g[i] = IF i = 1 THEN seqs[i] ELSE g[i - 1] \o seqs[i]
        <3>1. i - 1 \in 0 .. n /\ f[i - 1] \in V
            BY <2>1
        <3>2. f[i] = f[i - 1] \o seqs[i]
            BY <1>2, <2>2, <3>1
        <3>3. CASE i = 1
            <4>1. f[i - 1] = <<>>
                BY <2>2, <3>3
            <4>2. f[i - 1] \o seqs[i] = seqs[i]
                BY <1>3, <4>1, ConcatEmptySeq DEF V
            <4> QED
                BY <3>2, <3>3, <4>2
        <3>4. CASE i # 1
            <4>1. i - 1 \in 1 .. n
                BY <3>4
            <4>2. g[i - 1] = f[i - 1] /\ g[i] = f[i]
                BY <4>1
            <4> QED
                BY <3>2, <3>4, <4>2
        <3> QED
            BY <3>3, <3>4
    <2>4. Joins(g)
        <3> DEFINE h == [i \in 1 .. n |-> IF i = 1 THEN seqs[i] ELSE g[i - 1] \o seqs[i]]
        <3>1. g = [i \in 1 .. n |-> g[i]]
            OBVIOUS
        <3> HIDE DEF g
        <3> QED
            BY <2>3, <3>1
    <2> QED
        <3> HIDE DEF g, Joins
        <3> QED
            BY <2>4
<1>5. Joins(joined)
    <2> HIDE DEF Joins
    <2> QED
        BY <1>4
<1>6. /\ 1 \in 1 .. n => joined[1] = seqs[1]
      /\ \A i \in 1 .. n : i # 1 => joined[i] = joined[i - 1] \o seqs[i]
    <2> HIDE DEF joined
    <2> QED
        BY <1>5
<1>7. FlattenSeq(seqs) = IF n = 0 THEN <<>> ELSE joined[n]
    <2>1. CASE n = 0
        <3>1. seqs = <<>> /\ Len(seqs) = 0
            BY <2>1 DEF n
        <3> QED
            BY <2>1, <3>1 DEF FlattenSeq
    <2>2. CASE n # 0
        <3>1. Len(seqs) # 0
            BY <2>2 DEF n
        <3>2. FlattenSeq(seqs) = joined[Len(seqs)]
            BY <3>1, Zenon DEF FlattenSeq, n
        <3> QED
            BY <2>2, <3>2, Zenon DEF n
    <2> QED
        BY <2>1, <2>2
<1> HIDE DEF joined
<1> DEFINE Upto(i) == UNION {ToSet(seqs[j]) : j \in 1 .. i}
           Apart == /\ \A i \in 1 .. n : Distinct(seqs[i])
                    /\ \A i, j \in 1 .. n : i # j => ToSet(seqs[i]) \cap ToSet(seqs[j]) = {}
           got(i) == IF i = 0 THEN <<>> ELSE joined[i]
           Good(i) == /\ got(i) \in V
                      /\ ToSet(got(i)) = Upto(i)
                      /\ Apart => Distinct(got(i))
           Goods == {i \in 0 .. n : Good(i)}
<1>8. 0 \in Goods
    <2>1. Good(0)
        BY <1>1 DEF ToSet, Distinct, V
    <2> QED
        BY <2>1
<1>9. ASSUME NEW i \in 0 .. n - 1, i \in Goods PROVE i + 1 \in Goods
    <2>1. i + 1 \in 1 .. n /\ i + 1 \in 0 .. n /\ i + 1 - 1 = i /\ i + 1 # 0 /\ Good(i)
        BY <1>9
    <2>2. got(i + 1) = got(i) \o seqs[i + 1]
        <3>1. CASE i = 0
            <4>1. 1 \in 1 .. n
                BY <2>1, <3>1
            <4>2. joined[1] = seqs[1] /\ seqs[1] \in V
                BY <1>3, <1>6, <4>1
            <4>3. <<>> \o seqs[1] = seqs[1]
                BY <4>2, ConcatEmptySeq DEF V
            <4>4. got(1) = joined[1] /\ got(0) = <<>>
                OBVIOUS
            <4> QED
                BY <3>1, <4>2, <4>3, <4>4
        <3>2. CASE i # 0
            <4>1. i + 1 # 1
                BY <3>2
            <4>2. PICK j \in 1 .. n : j = i + 1
                BY <2>1
            <4>3. joined[j] = joined[j - 1] \o seqs[j]
                BY <1>6, <4>1, <4>2
            <4>4. j - 1 = i
                BY <4>2
            <4>5. joined[i + 1] = joined[i] \o seqs[i + 1]
                BY <4>2, <4>3, <4>4
            <4> QED
                BY <2>1, <3>2, <4>5
        <3> QED
            BY <3>1, <3>2
    <2>3. Upto(i + 1) = Upto(i) \cup ToSet(seqs[i + 1])
        <3>1. 1 .. i + 1 = (1 .. i) \cup {i + 1}
            BY <1>9
        <3> QED
            BY <3>1
    <2>4. Apart => Upto(i) \cap ToSet(seqs[i + 1]) = {}
        <3> SUFFICES ASSUME Apart, NEW j \in 1 .. i
                     PROVE  ToSet(seqs[j]) \cap ToSet(seqs[i + 1]) = {}
            OBVIOUS
        <3>1. j \in 1 .. n /\ j # i + 1
            BY <1>9
        <3> QED
            BY <2>1, <3>1
    <2>5. Apart => Distinct(seqs[i + 1])
        BY <2>1
    <2> HIDE DEF Upto, Apart, got
    <2>6. /\ got(i) \o seqs[i + 1] \in Seq(T)
          /\ ToSet(got(i) \o seqs[i + 1]) = ToSet(got(i)) \cup ToSet(seqs[i + 1])
          /\ Distinct(got(i)) /\ Distinct(seqs[i + 1])
                /\ ToSet(got(i)) \cap ToSet(seqs[i + 1]) = {}
             => Distinct(got(i) \o seqs[i + 1])
        BY <1>3, <2>1, ConcatJoins DEF V
    <2>7. Good(i + 1)
        BY <2>1, <2>2, <2>3, <2>4, <2>5, <2>6 DEF V
    <2> QED
        BY <2>1, <2>7
<1>10. Good(n)
    <2>1. 0 .. n \subseteq Goods
        <3> HIDE DEF Goods
        <3> QED
            BY <1>8, <1>9, NumbersUpTo
    <2> HIDE DEF Good
    <2> QED
        BY <2>1
<1>11. FlattenSeq(seqs) = got(n)
    BY <1>7
<1> HIDE DEF got
<1> QED
    BY <1>10, <1>11 DEF V, n

-----------------------------------------------------------------------------
(***************************************************************************)
(* Packing.  It loses no scope, and a call of two or more fits.            *)
(***************************************************************************)

LoadedScopes == [id : Nat, pages : SUBSET Nat, characters : Nat]
Plans == [batches : Seq(Seq(LoadedScopes)), current : Seq(LoadedScopes), characters : Nat]
NothingPacked == [batches |-> <<>>, current |-> <<>>, characters |-> 0]

SizesOf(batch) == [i \in DOMAIN batch |-> batch[i].characters]

\* The call so far is full for one more scope.
IsFull(plan, scope) ==
    plan.current # <<>> /\ plan.characters + scope.characters > CharsPerCall

\* The parts of a plan, and of a scope.
LEMMA PlanParts ==
    ASSUME NEW plan \in Plans, NEW scope \in LoadedScopes
    PROVE  /\ plan.batches \in Seq(Seq(LoadedScopes)) /\ plan.current \in Seq(LoadedScopes)
           /\ plan.characters \in Nat /\ scope.characters \in Nat
           /\ plan = [batches |-> plan.batches, current |-> plan.current,
                      characters |-> plan.characters]
BY DEF Plans, LoadedScopes

\* What a step of the packing makes of a plan.
LEMMA AddScopeSays ==
    ASSUME NEW plan \in Plans, NEW scope \in LoadedScopes
    PROVE  /\ AddScope(plan, scope) \in Plans
           /\ IsFull(plan, scope) =>
                 AddScope(plan, scope) = [batches    |-> Append(plan.batches, plan.current),
                                          current    |-> <<scope>>,
                                          characters |-> scope.characters]
           /\ ~IsFull(plan, scope) =>
                 AddScope(plan, scope) = [batches    |-> plan.batches,
                                          current    |-> Append(plan.current, scope),
                                          characters |-> plan.characters + scope.characters]
<1> DEFINE b == plan.batches
           c == plan.current
           k == plan.characters
<1>1. /\ b \in Seq(Seq(LoadedScopes)) /\ c \in Seq(LoadedScopes) /\ k \in Nat
      /\ plan = [batches |-> b, current |-> c, characters |-> k]
      /\ scope.characters \in Nat
    BY PlanParts
<1>2. Append(b, c) \in Seq(Seq(LoadedScopes))
    BY <1>1, AppendProperties
<1>3. Append(c, scope) \in Seq(LoadedScopes) /\ <<scope>> \in Seq(LoadedScopes)
    BY <1>1, AppendProperties
<1>4. k + scope.characters \in Nat
    BY <1>1
<1>5. CASE IsFull(plan, scope)
    <2>1. AddScope(plan, scope) = [batches |-> Append(b, c), current |-> <<scope>>,
                                   characters |-> scope.characters]
        BY <1>5 DEF AddScope, IsFull
    <2>2. AddScope(plan, scope) \in Plans
        BY <1>1, <1>2, <1>3, <2>1 DEF Plans
    <2> QED
        BY <1>5, <2>1, <2>2
<1>6. CASE ~IsFull(plan, scope)
    <2>1. AddScope(plan, scope)
             = [plan EXCEPT !.current = Append(@, scope), !.characters = @ + scope.characters]
        BY <1>6, Zenon DEF AddScope, IsFull
    <2>2. AddScope(plan, scope) = [batches |-> b, current |-> Append(c, scope),
                                   characters |-> k + scope.characters]
        BY <1>1, <2>1
    <2>3. AddScope(plan, scope) \in Plans
        BY <1>1, <1>3, <1>4, <2>2 DEF Plans
    <2> QED
        BY <1>6, <2>2, <2>3
<1> QED
    BY <1>5, <1>6

\* Packing is a pass.
LEMMA PackedSteps ==
    ASSUME NEW scopes \in Seq(LoadedScopes)
    PROVE  /\ Packed(scopes) \in [0 .. Len(scopes) -> Plans]
           /\ Packed(scopes)[0] = NothingPacked
           /\ \A i \in 1 .. Len(scopes) :
                 Packed(scopes)[i] = AddScope(Packed(scopes)[i - 1], scopes[i])
<1> DEFINE n == Len(scopes)
           move == [p \in Plans \X (1 .. n) |-> AddScope(p[1], scopes[p[2]])]
           Packs(f) == f = [i \in 0 .. n |-> IF i = 0 THEN NothingPacked
                                             ELSE AddScope(f[i - 1], scopes[i])]
           k == Packed(scopes)
<1>0. n \in Nat
    OBVIOUS
<1>1. NothingPacked \in Plans /\ move \in Moves(n, Plans)
    <2>1. NothingPacked \in Plans
        BY DEF NothingPacked, Plans
    <2>2. \A s \in Plans, i \in 1 .. n : AddScope(s, scopes[i]) \in Plans
        <3> TAKE s \in Plans, i \in 1 .. n
        <3>1. scopes[i] \in LoadedScopes
            OBVIOUS
        <3> QED
            BY <3>1, AddScopeSays
    <2>3. \A p \in Plans \X (1 .. n) : AddScope(p[1], scopes[p[2]]) \in Plans
        BY <2>2
    <2> QED
        BY <2>1, <2>3 DEF Moves
<1>2. \A s \in Plans, i \in 1 .. n : move[<<s, i>>] = AddScope(s, scopes[i])
    OBVIOUS
<1> HIDE DEF n, move
<1>3. \E f : Packs(f)
    <2>1. PICK f \in [0 .. n -> Plans] : IsPass(f, n, NothingPacked, move)
        BY ONLY <1>0, <1>1, PassExists
    <2>2. f[0] = NothingPacked /\ \A i \in 1 .. n : f[i] = move[<<f[i - 1], i>>]
        BY ONLY <1>0, <1>1, <2>1, PassSteps
    <2>3. ASSUME NEW i \in 0 .. n
          PROVE  f[i] = IF i = 0 THEN NothingPacked ELSE AddScope(f[i - 1], scopes[i])
        <3>1. CASE i = 0
            BY <2>2, <3>1
        <3>2. CASE i # 0
            <4>1. i \in 1 .. n /\ i - 1 \in 0 .. n
                BY <1>0, <3>2
            <4>2. f[i - 1] \in Plans
                BY <2>1, <4>1
            <4> QED
                BY <1>2, <2>2, <3>2, <4>1, <4>2
        <3> QED
            BY <3>1, <3>2
    <2>4. Packs(f)
        BY <2>1, <2>3
    <2> QED
        BY <2>4
<1>4. Packs(k)
    <2>1. k = CHOOSE f : Packs(f)
        BY DEF Packed, NothingPacked, n
    <2> HIDE DEF k, Packs
    <2> QED
        BY <1>3, <2>1
<1>5. IsPass(k, n, NothingPacked, move)
    <2> DEFINE Typed == {i \in 0 .. n : k[i] \in Plans}
    <2>1. /\ k[0] = NothingPacked
          /\ \A i \in 1 .. n : k[i] = AddScope(k[i - 1], scopes[i])
        <3>1. 0 \in 0 .. n /\ \A i \in 1 .. n : i \in 0 .. n /\ i # 0
            BY <1>0
        <3> HIDE DEF k
        <3> QED
            BY <1>4, <3>1
    <2> HIDE DEF k
    <2>2. 0 \in Typed
        BY <1>0, <1>1, <2>1
    <2>3. ASSUME NEW i \in 0 .. n - 1, i \in Typed PROVE i + 1 \in Typed
        <3>1. PICK j \in 1 .. n : j = i + 1 /\ j - 1 = i
            BY <1>0
        <3>2. k[j] = AddScope(k[i], scopes[j]) /\ scopes[j] \in LoadedScopes
            BY <2>1, <3>1 DEF n
        <3>3. k[j] \in Plans
            BY <2>3, <3>2, AddScopeSays
        <3> QED
            BY <1>0, <3>1, <3>3
    <2>4. 0 .. n \subseteq Typed
        <3> HIDE DEF Typed
        <3> QED
            BY <1>0, <2>2, <2>3, NumbersUpTo
    <2>5. \A i \in 1 .. n : k[i] = move[<<k[i - 1], i>>]
        <3> TAKE i \in 1 .. n
        <3>1. i - 1 \in 0 .. n
            BY <1>0
        <3>2. k[i - 1] \in Plans
            BY <2>4, <3>1
        <3> QED
            BY <1>2, <2>1, <3>2
    <2>6. \A i \in 0 .. n : k[i] = IF i = 0 THEN NothingPacked ELSE move[<<k[i - 1], i>>]
        BY <1>0, <2>1, <2>5
    <2>7. k = [i \in 0 .. n |-> k[i]]
        BY <1>4
    <2> HIDE DEF Packs
    <2> QED
        BY <2>6, <2>7 DEF IsPass
<1>6. k \in [0 .. n -> Plans] /\ k[0] = NothingPacked
    <2> HIDE DEF k
    <2> QED
        BY ONLY <1>0, <1>1, <1>5, PassSteps
<1>7. \A i \in 1 .. n : k[i] = AddScope(k[i - 1], scopes[i])
    <2>1. \A i \in 1 .. n : i \in 0 .. n /\ i # 0
        BY <1>0
    <2> HIDE DEF k
    <2> QED
        BY <1>4, <2>1
<1> QED
    BY <1>6, <1>7 DEF n

\* The characters of a call with one more scope.
LEMMA SizesAppend ==
    ASSUME NEW batch \in Seq(LoadedScopes), NEW scope \in LoadedScopes
    PROVE  /\ SumOf(SizesOf(batch)) \in Nat
           /\ SumOf(SizesOf(Append(batch, scope))) = SumOf(SizesOf(batch)) + scope.characters
           /\ SumOf(SizesOf(<<>>)) = 0
<1>1. SizesOf(batch) \in Seq(Nat) /\ scope.characters \in Nat
    <2>1. DOMAIN batch = 1 .. Len(batch) /\ Len(batch) \in Nat
        OBVIOUS
    <2>2. \A s \in LoadedScopes : s.characters \in Nat
        BY DEF LoadedScopes
    <2>3. \A i \in DOMAIN batch : batch[i] \in LoadedScopes
        OBVIOUS
    <2>4. \A i \in 1 .. Len(batch) : batch[i].characters \in Nat
        BY <2>1, <2>2, <2>3
    <2> QED
        BY <2>1, <2>2, <2>4, IsASeq DEF SizesOf
<1>2. SizesOf(Append(batch, scope)) = Append(SizesOf(batch), scope.characters)
    <2> DEFINE n == Len(batch)
               more == Append(batch, scope)
               a == SizesOf(more)
               b == Append(SizesOf(batch), scope.characters)
    <2>1. n \in Nat /\ DOMAIN batch = 1 .. n
        OBVIOUS
    <2>2. /\ more \in Seq(LoadedScopes) /\ Len(more) = n + 1 /\ DOMAIN more = 1 .. n + 1
          /\ \A i \in 1 .. n : more[i] = batch[i]
          /\ more[n + 1] = scope
        BY AppendProperties
    <2>3. Len(SizesOf(batch)) = n /\ \A i \in 1 .. n : SizesOf(batch)[i] = batch[i].characters
        BY <1>1, <2>1 DEF SizesOf
    <2>4. /\ b \in Seq(Nat) /\ Len(b) = n + 1 /\ DOMAIN b = 1 .. n + 1
          /\ \A i \in 1 .. n : b[i] = batch[i].characters
          /\ b[n + 1] = scope.characters
        <3>1. /\ b \in Seq(Nat) /\ Len(b) = Len(SizesOf(batch)) + 1
              /\ \A i \in 1 .. Len(SizesOf(batch)) : b[i] = SizesOf(batch)[i]
              /\ b[Len(SizesOf(batch)) + 1] = scope.characters
            BY <1>1, AppendProperties
        <3> HIDE DEF b, n
        <3> QED
            BY <2>1, <2>3, <3>1
    <2>5. DOMAIN a = 1 .. n + 1 /\ \A i \in 1 .. n + 1 : a[i] = more[i].characters
        BY <2>2 DEF SizesOf
    <2> HIDE DEF n, more, b
    <2>6. \A i \in 1 .. n + 1 : a[i] = b[i]
        <3> HIDE DEF a
        <3>1. \A i \in 1 .. n + 1 : i \in 1 .. n \/ i = n + 1
            BY <2>1
        <3> QED
            BY <2>2, <2>4, <2>5, <3>1
    <2>7. a = [i \in 1 .. n + 1 |-> a[i]] /\ b = [i \in 1 .. n + 1 |-> b[i]]
        BY <2>4, <2>5 DEF SizesOf
    <2>8. a = b
        <3> HIDE DEF a
        <3> QED
            BY <2>6, <2>7
    <2> QED
        BY <2>8 DEF b, more
<1>3. SizesOf(<<>>) = <<>>
    BY DEF SizesOf
<1> QED
    BY <1>1, <1>2, <1>3, SumFacts

Carried(plan) == (UNION {ToSet(batch) : batch \in ToSet(plan.batches)}) \cup ToSet(plan.current)
Fits(batch) == Len(batch) > 1 => SumOf(SizesOf(batch)) <= CharsPerCall

\* A plan that carries the scopes seen, knows the size of its last call, and
\* whose calls fit,
CarriesSeen(plan, seen) ==
    /\ Carried(plan) = seen
    /\ plan.characters = SumOf(SizesOf(plan.current))
    /\ Fits(plan.current) /\ \A batch \in ToSet(plan.batches) : Fits(batch)

\* is one after the next scope.
LEMMA PackOneMore ==
    ASSUME NEW plan \in Plans, NEW scope \in LoadedScopes, NEW seen, CarriesSeen(plan, seen)
    PROVE  CarriesSeen(AddScope(plan, scope), seen \cup {scope})
<1> DEFINE b == plan.batches
           c == plan.current
           k == plan.characters
           next == AddScope(plan, scope)
<1>1. /\ b \in Seq(Seq(LoadedScopes)) /\ c \in Seq(LoadedScopes)
      /\ k \in Nat /\ scope.characters \in Nat
    BY PlanParts
<1>2. /\ (UNION {ToSet(batch) : batch \in ToSet(b)}) \cup ToSet(c) = seen
      /\ k = SumOf(SizesOf(c))
      /\ Fits(c) /\ \A batch \in ToSet(b) : Fits(batch)
    BY DEF CarriesSeen, Carried
<1>3. CASE IsFull(plan, scope)
    <2>1. next = [batches |-> Append(b, c), current |-> <<scope>>, characters |-> scope.characters]
        BY <1>3, AddScopeSays
    <2>2. next.batches = Append(b, c) /\ next.current = <<scope>>
          /\ next.characters = scope.characters
        BY <2>1
    <2> HIDE DEF b, c, k, next
    <2>3. ToSet(next.batches) = ToSet(b) \cup {c}
        BY <1>1, <2>2, AppendAdds
    <2>4. ToSet(<<scope>>) = {scope} /\ Len(<<scope>>) = 1
        BY DEF ToSet
    <2>5. Carried(next) = seen \cup {scope}
        BY <1>2, <2>2, <2>3, <2>4 DEF Carried
    <2>6. SumOf(SizesOf(<<scope>>)) = scope.characters
        <3>1. <<>> \in Seq(LoadedScopes) /\ Append(<<>>, scope) = <<scope>>
            OBVIOUS
        <3>2. SumOf(SizesOf(Append(<<>>, scope))) = 0 + scope.characters
            BY <3>1, SizesAppend
        <3> QED
            BY <1>1, <3>1, <3>2
    <2>7. Fits(<<scope>>)
        BY <2>4 DEF Fits
    <2> QED
        BY <1>2, <2>2, <2>3, <2>5, <2>6, <2>7 DEF CarriesSeen, next
<1>4. CASE ~IsFull(plan, scope)
    <2>1. next = [batches |-> b, current |-> Append(c, scope), characters |-> k + scope.characters]
        BY <1>4, AddScopeSays
    <2>2. next.batches = b /\ next.current = Append(c, scope)
          /\ next.characters = k + scope.characters
        BY <2>1
    <2>3. c = <<>> \/ k + scope.characters <= CharsPerCall
        BY <1>1, <1>4, OutlineAssumption DEF IsFull
    <2> HIDE DEF b, c, k, next
    <2>4. ToSet(Append(c, scope)) = ToSet(c) \cup {scope}
        BY <1>1, AppendAdds
    <2>5. Carried(next) = seen \cup {scope}
        BY <1>2, <2>2, <2>4 DEF Carried
    <2>6. SumOf(SizesOf(Append(c, scope))) = k + scope.characters
        BY <1>1, <1>2, SizesAppend
    <2>7. Fits(Append(c, scope))
        <3>1. CASE c = <<>>
            <4>1. Len(Append(c, scope)) = 1
                BY <3>1
            <4> QED
                BY <4>1 DEF Fits
        <3>2. CASE k + scope.characters <= CharsPerCall
            BY <2>6, <3>2 DEF Fits
        <3> QED
            BY <2>3, <3>1, <3>2
    <2> QED
        BY <1>2, <2>2, <2>5, <2>6, <2>7 DEF CarriesSeen, next
<1> QED
    BY <1>3, <1>4

\* The whole plan carries all scopes.
LEMMA PackedCarries ==
    ASSUME NEW scopes \in Seq(LoadedScopes)
    PROVE  /\ Packed(scopes)[Len(scopes)] \in Plans
           /\ CarriesSeen(Packed(scopes)[Len(scopes)], ToSet(scopes))
<1> DEFINE n == Len(scopes)
           k == Packed(scopes)
           Upto(i) == {scopes[j] : j \in 1 .. i}
           Goods == {i \in 0 .. n : CarriesSeen(k[i], Upto(i))}
<1>0. n \in Nat /\ DOMAIN scopes = 1 .. n
    OBVIOUS
<1>1. /\ k \in [0 .. n -> Plans] /\ k[0] = NothingPacked
      /\ \A i \in 1 .. n : k[i] = AddScope(k[i - 1], scopes[i])
    BY PackedSteps
<1>2. \A i \in 1 .. n : scopes[i] \in LoadedScopes
    OBVIOUS
<1> HIDE DEF k, n
<1>3. 0 \in Goods
    <2>1. /\ k[0].batches = <<>> /\ k[0].current = <<>> /\ k[0].characters = 0
          /\ Upto(0) = {}
        BY <1>1 DEF NothingPacked
    <2>2. SumOf(SizesOf(<<>>)) = 0
        <3>1. <<>> \in Seq(Nat) /\ SizesOf(<<>>) = <<>>
            BY DEF SizesOf
        <3> QED
            BY <3>1, SumFacts
    <2> HIDE DEF Upto
    <2>3. Carried(k[0]) = Upto(0)
        BY <2>1 DEF Carried, ToSet
    <2>4. Fits(k[0].current) /\ \A batch \in ToSet(k[0].batches) : Fits(batch)
        BY <2>1 DEF Fits, ToSet
    <2>5. CarriesSeen(k[0], Upto(0))
        BY <2>1, <2>2, <2>3, <2>4 DEF CarriesSeen
    <2> QED
        BY <1>0, <2>5
<1>4. ASSUME NEW i \in 0 .. n - 1, i \in Goods PROVE i + 1 \in Goods
    <2>1. PICK j \in 1 .. n : j = i + 1 /\ j - 1 = i
        BY <1>0
    <2>2. i \in 0 .. n
        BY <1>0
    <2>3. k[i] \in Plans /\ scopes[j] \in LoadedScopes
        BY <1>1, <1>2, <2>2
    <2>4. k[j] = AddScope(k[i], scopes[j])
        BY <1>1, <2>1
    <2>5. Upto(j) = Upto(i) \cup {scopes[j]}
        <3>1. 1 .. j = (1 .. i) \cup {j}
            BY <2>1
        <3> QED
            BY <3>1
    <2>6. CarriesSeen(k[i], Upto(i))
        BY <1>4
    <2> HIDE DEF Upto
    <2>7. CarriesSeen(k[j], Upto(j))
        BY <2>3, <2>4, <2>5, <2>6, PackOneMore
    <2>8. j \in 0 .. n
        BY <1>0
    <2> QED
        BY <2>1, <2>7, <2>8
<1>5. 0 .. n \subseteq Goods
    <2> HIDE DEF Goods
    <2> QED
        BY <1>0, <1>3, <1>4, NumbersUpTo
<1>6. Upto(n) = ToSet(scopes)
    BY <1>0 DEF ToSet
<1>7. n \in 0 .. n
    BY <1>0
<1> HIDE DEF Upto
<1> QED
    BY <1>1, <1>5, <1>6, <1>7 DEF k, n

-----------------------------------------------------------------------------
(***************************************************************************)
(* What is below sections.  Growing a set by its children stops at the     *)
(* least set that has the sections and is closed: that set solves the      *)
(* recursion, and any other solution differs from it first where fewest    *)
(* sections are left, which it cannot.                                     *)
(***************************************************************************)

Closed(rows, D) == Children(rows, D) \subseteq D

\* The sections every closed set around these has.
LeastAround(rows, all, ids) ==
    {x \in all : \A D \in SUBSET all : ids \subseteq D /\ Closed(rows, D) => x \in D}

\* It has them, is closed, and is the same with their children added.
LEMMA LeastAroundFacts ==
    ASSUME NEW rows, NEW all, NEW ids \in SUBSET all, {r.id : r \in ToSet(rows)} \subseteq all
    PROVE  /\ ids \subseteq LeastAround(rows, all, ids)
           /\ Closed(rows, LeastAround(rows, all, ids))
           /\ \A D : ids \subseteq D /\ Closed(rows, D) => LeastAround(rows, all, ids) \subseteq D
           /\ Closed(rows, ids) => LeastAround(rows, all, ids) = ids
           /\ LeastAround(rows, all, ids \cup Children(rows, ids)) = LeastAround(rows, all, ids)
<1> DEFINE L == LeastAround(rows, all, ids)
           more == ids \cup Children(rows, ids)
<1>1. \A D, E : D \subseteq E => Children(rows, D) \subseteq Children(rows, E)
    BY DEF Children
<1>2. \A D : Children(rows, D) \subseteq all
    BY DEF Children
<1>3. ids \subseteq L
    BY DEF LeastAround
<1>4. Closed(rows, L)
    <2> SUFFICES ASSUME NEW x \in Children(rows, L), NEW D \in SUBSET all,
                        ids \subseteq D, Closed(rows, D)
                 PROVE  x \in D
        BY <1>2 DEF Closed, LeastAround
    <2>1. L \subseteq D
        BY DEF LeastAround
    <2>2. x \in Children(rows, D)
        BY <1>1, <2>1
    <2> QED
        BY <2>2 DEF Closed
<1>5. ASSUME NEW D, ids \subseteq D, Closed(rows, D) PROVE L \subseteq D
    <2>1. D \cap all \in SUBSET all /\ ids \subseteq D \cap all
        BY <1>5
    <2>2. Closed(rows, D \cap all)
        <3>1. Children(rows, D \cap all) \subseteq Children(rows, D)
            BY <1>1
        <3> QED
            BY <1>2, <1>5, <3>1 DEF Closed
    <2> QED
        BY <2>1, <2>2 DEF LeastAround
<1>6. Closed(rows, ids) => L = ids
    BY <1>3, <1>5
<1>7. LeastAround(rows, all, more) = L
    <2>1. ASSUME NEW D \in SUBSET all, Closed(rows, D)
          PROVE  ids \subseteq D <=> more \subseteq D
        <3>1. ids \subseteq D => Children(rows, ids) \subseteq D
            BY <1>1, <2>1 DEF Closed
        <3> QED
            BY <3>1
    <2> HIDE DEF more
    <2> QED
        BY <2>1 DEF LeastAround
<1> QED
    BY <1>3, <1>4, <1>5, <1>6, <1>7

\* The values of a function are no more than its arguments.
LEMMA ValuesFinite ==
    ASSUME NEW f, IsFiniteSet(DOMAIN f)
    PROVE  IsFiniteSet({f[x] : x \in DOMAIN f})
<1> DEFINE S == DOMAIN f
           R == {f[x] : x \in S}
           h == [x \in S |-> f[x]]
<1>1. h \in Surjection(S, R)
    BY DEF Surjection
<1> HIDE DEF h, R
<1>2. IsFiniteSet(R)
    BY <1>1, FS_Surjection
<1> QED
    BY <1>2 DEF R

\* The members of a sequence, and their ids, are finitely many.
LEMMA MembersFinite ==
    ASSUME NEW T, NEW seq \in Seq(T)
    PROVE  IsFiniteSet(ToSet(seq)) /\ IsFiniteSet({r.id : r \in ToSet(seq)})
<1> DEFINE id == [r \in ToSet(seq) |-> r.id]
<1>1. Len(seq) \in Nat /\ DOMAIN seq = 1 .. Len(seq)
    OBVIOUS
<1>2. IsFiniteSet(DOMAIN seq)
    BY <1>1, FS_Interval
<1>3. IsFiniteSet(ToSet(seq))
    BY <1>2, ValuesFinite DEF ToSet
<1>4. DOMAIN id = ToSet(seq) /\ {id[r] : r \in ToSet(seq)} = {r.id : r \in ToSet(seq)}
    OBVIOUS
<1>5. IsFiniteSet({id[r] : r \in DOMAIN id})
    <2> HIDE DEF id
    <2> QED
        BY <1>3, <1>4, ValuesFinite
<1> QED
    BY <1>3, <1>4, <1>5

\* Growing stops there.
LEMMA GrowthIsLeast ==
    ASSUME NEW T, NEW rows \in Seq(T), NEW ids, IsFiniteSet(ids),
           NEW all, all = ids \cup {r.id : r \in ToSet(rows)}
    PROVE  Below(rows, ids) = LeastAround(rows, all, ids)
<1> DEFINE Grows(f) == f = [got \in SUBSET all |->
                               IF Children(rows, got) \subseteq got THEN got
                               ELSE f[got \cup Children(rows, got)]]
           least == [got \in SUBSET all |-> LeastAround(rows, all, got)]
           g == CHOOSE f : Grows(f)
<1>1. \A got \in SUBSET all :
          /\ Closed(rows, got) => LeastAround(rows, all, got) = got
          /\ LeastAround(rows, all, got \cup Children(rows, got)) = LeastAround(rows, all, got)
          /\ got \cup Children(rows, got) \in SUBSET all
    <2> TAKE got \in SUBSET all
    <2>1. {r.id : r \in ToSet(rows)} \subseteq all
        OBVIOUS
    <2>2. Children(rows, got) \subseteq all
        BY DEF Children
    <2> QED
        BY <2>1, <2>2, LeastAroundFacts
<1>2. Grows(least)
    <2>1. \A got \in SUBSET all :
              least[got] = IF Children(rows, got) \subseteq got THEN got
                           ELSE least[got \cup Children(rows, got)]
        <3> TAKE got \in SUBSET all
        <3>1. CASE Children(rows, got) \subseteq got
            BY <1>1, <3>1 DEF Closed
        <3>2. CASE ~(Children(rows, got) \subseteq got)
            <4>1. least[got \cup Children(rows, got)] = LeastAround(rows, all, got)
                BY <1>1
            <4> QED
                BY <3>2, <4>1
        <3> QED
            BY <3>1, <3>2
    <2>2. least = [got \in SUBSET all |-> least[got]]
        OBVIOUS
    <2> HIDE DEF least
    <2> QED
        BY <2>1, <2>2
<1>3. Grows(g)
    <2> HIDE DEF Grows, least
    <2> QED
        BY <1>2
<1>4. \A got \in SUBSET all : g[got] = IF Children(rows, got) \subseteq got THEN got
                                       ELSE g[got \cup Children(rows, got)]
    <2> HIDE DEF g
    <2> QED
        BY <1>3
<1>5. IsFiniteSet(all)
    <2>1. IsFiniteSet({r.id : r \in ToSet(rows)})
        BY MembersFinite
    <2> QED
        BY <2>1, FS_Union
<1> DEFINE Wrong == {got \in SUBSET all : g[got] # LeastAround(rows, all, got)}
           Left == {Cardinality(all \ got) : got \in Wrong}
<1> HIDE DEF g
<1>6. Wrong = {}
    <2> SUFFICES ASSUME Wrong # {} PROVE FALSE
        OBVIOUS
    <2>1. \A got \in SUBSET all : IsFiniteSet(all \ got) /\ Cardinality(all \ got) \in Nat
        BY <1>5, FS_Difference, FS_CardinalityType
    <2>2. Left \in SUBSET Nat /\ Left # {}
        BY <2>1
    <2>3. PICK m \in Left : \A k \in Left : m <= k
        <3> HIDE DEF Left
        <3> QED
            BY <2>2, LeastNumber
    <2>4. PICK got \in Wrong : m = Cardinality(all \ got)
        BY <2>3
    <2> DEFINE more == got \cup Children(rows, got)
    <2>5. ~(Children(rows, got) \subseteq got) /\ g[got] = g[more]
        BY <1>1, <1>4, <2>4 DEF Closed
    <2>6. more \in SUBSET all /\ LeastAround(rows, all, more) = LeastAround(rows, all, got)
        BY <1>1, <2>4
    <2>7. more \in Wrong
        BY <2>4, <2>5, <2>6
    <2>8. Cardinality(all \ more) < Cardinality(all \ got)
        <3>1. all \ more \subseteq all \ got /\ all \ more # all \ got
            BY <2>5, <2>6
        <3> HIDE DEF more
        <3>2. /\ IsFiniteSet(all \ got) /\ Cardinality(all \ got) \in Nat
              /\ Cardinality(all \ more) \in Nat
            BY <2>1, <2>4, <2>6
        <3>3. all \ more \in SUBSET (all \ got)
            BY <3>1
        <3>4. /\ Cardinality(all \ more) <= Cardinality(all \ got)
              /\ Cardinality(all \ got) # Cardinality(all \ more)
            BY <3>1, <3>2, <3>3, FS_Subset
        <3> QED
            BY <3>2, <3>4
    <2>9. Cardinality(all \ more) \in Left
        BY <2>7
    <2>10. /\ Cardinality(all \ more) \in Nat /\ Cardinality(all \ got) \in Nat
           /\ Cardinality(all \ got) <= Cardinality(all \ more)
        BY <2>1, <2>3, <2>4, <2>6, <2>9
    <2> HIDE DEF more, Wrong
    <2> QED
        BY <2>8, <2>10
<1>7. Below(rows, ids) = g[ids]
    BY Zenon DEF Below, Growth, g
<1> QED
    BY <1>6, <1>7

\* What is below sections has them and is closed, and is in any such set.
LEMMA BelowFacts ==
    ASSUME NEW T, NEW rows \in Seq(T), NEW ids, IsFiniteSet(ids)
    PROVE  /\ ids \subseteq Below(rows, ids)
           /\ Closed(rows, Below(rows, ids))
           /\ \A D : ids \subseteq D /\ Closed(rows, D) => Below(rows, ids) \subseteq D
           /\ Below(rows, ids) \subseteq ids \cup {r.id : r \in ToSet(rows)}
<1> DEFINE all == ids \cup {r.id : r \in ToSet(rows)}
<1>1. Below(rows, ids) = LeastAround(rows, all, ids)
    BY GrowthIsLeast
<1>2. ids \in SUBSET all /\ {r.id : r \in ToSet(rows)} \subseteq all
    OBVIOUS
<1>3. LeastAround(rows, all, ids) \subseteq all
    BY DEF LeastAround
<1> DEFINE L == LeastAround(rows, all, ids)
<1> HIDE DEF all
<1>4. /\ ids \subseteq L /\ Closed(rows, L)
      /\ \A D : ids \subseteq D /\ Closed(rows, D) => L \subseteq D
    BY <1>2, LeastAroundFacts
<1> HIDE DEF L
<1> QED
    BY <1>1, <1>3, <1>4 DEF L, all

-----------------------------------------------------------------------------
(***************************************************************************)
(* Trees.  Sections whose parents come before them, in the order of ids,   *)
(* form a forest.  Listing one loses no section and repeats none.          *)
(***************************************************************************)

Sections == [id : Nat, parent : Nat, start : Nat, end : Nat]
IdsOf(seq) == {r.id : r \in ToSet(seq)}

IsForest(seq) ==
    /\ seq \in Seq(Sections)
    /\ Distinct(seq)
    /\ \A r, s \in ToSet(seq) : r.id = s.id => r = s
    /\ \A r \in ToSet(seq) : r.parent < r.id /\ r.parent \in {0} \cup IdsOf(seq)

\* The members of a sequence, and the fields of a section.
LEMMA SectionFacts ==
    ASSUME NEW seq \in Seq(Sections), NEW r \in ToSet(seq)
    PROVE  r \in Sections /\ r.id \in Nat /\ r.parent \in Nat /\ r.start \in Nat /\ r.end \in Nat
<1>1. \A i \in DOMAIN seq : seq[i] \in Sections
    OBVIOUS
<1>2. r \in Sections
    BY <1>1 DEF ToSet
<1> QED
    BY <1>2 DEF Sections

\* What is below one section comes after it, and but for itself it has its
\* parent there.
LEMMA BelowOne ==
    ASSUME NEW seq \in Seq(Sections), \A r \in ToSet(seq) : r.parent < r.id, NEW c \in Nat
    PROVE  /\ c \in Below(seq, {c})
           /\ \A r \in ToSet(seq) : r.parent \in Below(seq, {c}) => r.id \in Below(seq, {c})
           /\ \A x \in Below(seq, {c}) : x \in Nat /\ c <= x
           /\ \A x \in Below(seq, {c}) : x # c => \E r \in ToSet(seq) :
                 r.id = x /\ r.parent \in Below(seq, {c})
           /\ \A D : c \in D /\ (\A r \in ToSet(seq) : r.parent \in D => r.id \in D)
                        => Below(seq, {c}) \subseteq D
<1> DEFINE B == Below(seq, {c})
<1>0. IsFiniteSet({c})
    BY FS_Singleton
<1>1. /\ {c} \subseteq B /\ Closed(seq, B)
      /\ \A D : {c} \subseteq D /\ Closed(seq, D) => B \subseteq D
    BY <1>0, BelowFacts
<1>2. \A D : Closed(seq, D) <=> \A r \in ToSet(seq) : r.parent \in D => r.id \in D
    BY DEF Closed, Children
<1> HIDE DEF B
<1>3. B \subseteq {x \in Nat : c <= x}
    <2>1. \A r \in ToSet(seq) : r.parent \in Nat /\ r.id \in Nat
        BY SectionFacts
    <2>2. \A r \in ToSet(seq) : r.parent \in {x \in Nat : c <= x} => r.id \in {x \in Nat : c <= x}
        BY <2>1
    <2>3. Closed(seq, {x \in Nat : c <= x}) /\ {c} \subseteq {x \in Nat : c <= x}
        BY <1>2, <2>2
    <2> QED
        BY <1>1, <2>3
<1>4. \A x \in B : x # c => \E r \in ToSet(seq) : r.id = x /\ r.parent \in B
    <2> DEFINE D == {x \in B : x = c \/ \E r \in ToSet(seq) : r.id = x /\ r.parent \in B}
    <2>1. \A r \in ToSet(seq) : r.parent \in D => r.id \in D
        BY <1>1, <1>2
    <2>2. Closed(seq, D) /\ {c} \subseteq D
        <3>1. {c} \subseteq D
            BY <1>1
        <3> HIDE DEF D
        <3> QED
            BY <1>2, <2>1, <3>1
    <2>3. B \subseteq D
        <3> HIDE DEF D
        <3> QED
            BY <1>1, <2>2
    <2> QED
        BY <2>3
<1>5. \A D : c \in D /\ (\A r \in ToSet(seq) : r.parent \in D => r.id \in D) => B \subseteq D
    BY <1>1, <1>2
<1> QED
    BY <1>1, <1>2, <1>3, <1>4, <1>5 DEF B

\* Two children of one section have nothing in common below them.
LEMMA SiblingsApart ==
    ASSUME NEW seq, IsForest(seq), NEW c \in ToSet(seq), NEW d \in ToSet(seq),
           c.parent = d.parent, c # d
    PROVE  Below(seq, {c.id}) \cap Below(seq, {d.id}) = {}
<1> DEFINE C == Below(seq, {c.id})
           D == Below(seq, {d.id})
<1>1. /\ seq \in Seq(Sections)
      /\ \A r, s \in ToSet(seq) : r.id = s.id => r = s
      /\ \A r \in ToSet(seq) : r.parent < r.id
    BY DEF IsForest
<1>2. /\ c.id \in Nat /\ c.parent \in Nat /\ d.id \in Nat /\ c.id # d.id
      /\ c.parent < c.id /\ c.parent < d.id
    BY <1>1, SectionFacts
<1>3. /\ c.id \in C /\ \A r \in ToSet(seq) : r.parent \in C => r.id \in C
      /\ \A x \in C : x \in Nat /\ c.id <= x
      /\ \A E : c.id \in E /\ (\A r \in ToSet(seq) : r.parent \in E => r.id \in E) => C \subseteq E
    BY <1>1, <1>2, BelowOne
<1>4. /\ \A x \in D : x \in Nat /\ d.id <= x
      /\ \A x \in D : x # d.id => \E r \in ToSet(seq) : r.id = x /\ r.parent \in D
    BY <1>1, <1>2, BelowOne
<1> HIDE DEF C, D
<1>5. c.parent \notin C /\ c.parent \notin D
    BY <1>2, <1>3, <1>4
<1>6. c.id \notin D
    BY <1>1, <1>2, <1>4, <1>5
<1>7. ASSUME NEW r \in ToSet(seq), r.parent \in C \ D PROVE r.id \in C \ D
    <2>1. r.id \in C
        BY <1>3, <1>7
    <2>2. r.id \in D => r.id = d.id
        BY <1>1, <1>4, <1>7
    <2>3. r.id # d.id
        BY <1>1, <1>5, <1>7
    <2> QED
        BY <2>1, <2>2, <2>3
<1>8. C \subseteq C \ D
    BY <1>3, <1>6, <1>7
<1> QED
    BY <1>8 DEF C, D

\* The sections below one, itself left out.
Beneath(seq, id) == {s \in ToSet(seq) : s.parent \in Below(seq, {id})}

\* They are its children and what is beneath those, and all are beneath 0.
LEMMA BeneathFacts ==
    ASSUME NEW seq, IsForest(seq), NEW id \in Nat
    PROVE  /\ \A s \in Beneath(seq, id) : id < s.id /\ s.id \in Below(seq, {id})
           /\ Beneath(seq, id)
                 = UNION {{c} \cup Beneath(seq, c.id) : c \in {s \in ToSet(seq) : s.parent = id}}
           /\ Beneath(seq, 0) = ToSet(seq)
<1> DEFINE B(x) == Below(seq, {x})
           under == {s \in ToSet(seq) : s.parent = id}
<1>1. /\ seq \in Seq(Sections)
      /\ \A r \in ToSet(seq) : r.parent < r.id /\ r.parent \in {0} \cup IdsOf(seq)
    BY DEF IsForest
<1>2. \A r \in ToSet(seq) : r.id \in Nat /\ r.parent \in Nat
    BY <1>1, SectionFacts
<1>3. \A x \in Nat :
          /\ x \in B(x)
          /\ \A r \in ToSet(seq) : r.parent \in B(x) => r.id \in B(x)
          /\ \A y \in B(x) : y \in Nat /\ x <= y
          /\ \A E : x \in E /\ (\A r \in ToSet(seq) : r.parent \in E => r.id \in E) => B(x) \subseteq E
    BY <1>1, BelowOne
<1> HIDE DEF B
<1>4. \A x \in Nat : Beneath(seq, x) = {s \in ToSet(seq) : s.parent \in B(x)}
    BY DEF Beneath, B
<1>5. \A s \in Beneath(seq, id) : id < s.id /\ s.id \in B(id)
    <2> TAKE s \in Beneath(seq, id)
    <2>1. s \in ToSet(seq) /\ s.parent \in B(id)
        BY <1>4
    <2>2. id <= s.parent /\ s.parent < s.id /\ s.parent \in Nat /\ s.id \in Nat
        BY <1>1, <1>2, <1>3, <2>1
    <2> QED
        BY <1>3, <2>1, <2>2
<1>6. ASSUME NEW c \in under PROVE {c} \cup Beneath(seq, c.id) \subseteq Beneath(seq, id)
    <2>1. c \in ToSet(seq) /\ c.parent = id /\ c.id \in Nat
        BY <1>2
    <2>2. c.id \in B(id)
        BY <1>3, <2>1
    <2>3. B(c.id) \subseteq B(id)
        BY <1>3, <2>1, <2>2
    <2> QED
        BY <1>3, <1>4, <2>1, <2>3
<1>7. ASSUME NEW s \in Beneath(seq, id) PROVE \E c \in under : s \in {c} \cup Beneath(seq, c.id)
    <2> DEFINE D == {id} \cup UNION {B(c.id) : c \in under}
    <2>1. ASSUME NEW r \in ToSet(seq), r.parent \in D PROVE r.id \in D
        <3>1. CASE r.parent = id
            <4>1. r \in under /\ r.id \in B(r.id)
                BY <1>2, <1>3, <3>1
            <4> QED
                BY <4>1
        <3>2. CASE r.parent # id
            <4>1. PICK c \in under : r.parent \in B(c.id)
                BY <2>1, <3>2
            <4>2. r.id \in B(c.id)
                BY <1>2, <1>3, <4>1
            <4> QED
                BY <4>2
        <3> QED
            BY <3>1, <3>2
    <2>2. id \in D
        OBVIOUS
    <2>3. B(id) \subseteq D
        <3> HIDE DEF D
        <3> QED
            BY <1>3, <2>1, <2>2
    <2>4. s \in ToSet(seq) /\ s.parent \in D
        <3> HIDE DEF D
        <3> QED
            BY <1>4, <1>7, <2>3
    <2>5. CASE s.parent = id
        BY <2>4, <2>5
    <2>6. CASE s.parent # id
        <3>1. PICK c \in under : s.parent \in B(c.id)
            BY <2>4, <2>6
        <3>2. s \in Beneath(seq, c.id)
            BY <1>2, <1>4, <2>4, <3>1
        <3> QED
            BY <3>2
    <2> QED
        BY <2>5, <2>6
<1>8. Beneath(seq, 0) = ToSet(seq)
    <2> DEFINE Lost == {s.id : s \in ToSet(seq) \ Beneath(seq, 0)}
    <2> SUFFICES ASSUME Lost # {} PROVE FALSE
        BY <1>4
    <2>1. Lost \in SUBSET Nat
        BY <1>2
    <2>2. PICK m \in Lost : \A k \in Lost : m <= k
        <3> HIDE DEF Lost
        <3> QED
            BY <2>1, LeastNumber
    <2>3. PICK s \in ToSet(seq) : s \notin Beneath(seq, 0) /\ m = s.id
        BY <2>2
    <2>4. s.parent \notin B(0) /\ s.parent # 0
        BY <1>3, <1>4, <2>3
    <2>5. PICK t \in ToSet(seq) : t.id = s.parent
        BY <1>1, <2>4 DEF IdsOf
    <2>6. t \notin Beneath(seq, 0)
        BY <1>3, <1>4, <2>4, <2>5
    <2>7. t.id \in Lost /\ t.id < m /\ t.id \in Nat /\ m \in Nat
        BY <1>1, <1>2, <2>3, <2>5, <2>6
    <2> HIDE DEF Lost
    <2> QED
        BY <2>2, <2>7
<1>9. Beneath(seq, id) = UNION {{c} \cup Beneath(seq, c.id) : c \in under}
    BY <1>6, <1>7
<1> QED
    BY <1>5, <1>8, <1>9 DEF B

\* The sections that name another as their parent, in their order.
LEMMA UnderFacts ==
    ASSUME NEW seq, IsForest(seq), NEW id \in Nat
    PROVE  /\ Under(seq, id) \in Seq(Sections)
           /\ ToSet(Under(seq, id)) = {s \in ToSet(seq) : s.parent = id}
           /\ Distinct(Under(seq, id))
           /\ \A k \in DOMAIN Under(seq, id) :
                 /\ Under(seq, id)[k] \in ToSet(seq) /\ Under(seq, id)[k].parent = id
                 /\ id < Under(seq, id)[k].id
                 /\ Under(seq, id)[k].id \in {0} \cup IdsOf(seq)
<1> DEFINE u == Under(seq, id)
<1>1. /\ seq \in Seq(Sections) /\ Distinct(seq)
      /\ \A r \in ToSet(seq) : r.parent < r.id
    BY DEF IsForest
<1>2. /\ u \in Seq(Sections) /\ Distinct(u)
      /\ ToSet(u) = ToSet(seq) \cap {s \in ToSet(seq) : s.parent = id}
    BY <1>1, OnlyFacts DEF Under
<1> HIDE DEF u
<1>3. \A k \in DOMAIN u : u[k] \in ToSet(u)
    BY DEF ToSet
<1>4. \A k \in DOMAIN u : u[k] \in ToSet(seq) /\ u[k].parent = id /\ id < u[k].id /\ u[k].id \in IdsOf(seq)
    BY <1>1, <1>2, <1>3 DEF IdsOf
<1> QED
    BY <1>2, <1>4 DEF u

\* One step of the listing.
ListStep(seq, f, id) ==
    FlattenSeq([k \in DOMAIN Under(seq, id) |-> <<Under(seq, id)[k]>> \o f[Under(seq, id)[k].id]])

\* It depends on what is listed for later sections only.
LEMMA ListStepAgrees ==
    ASSUME NEW seq, IsForest(seq), NEW id \in Nat, NEW f, NEW g,
           \A d \in {0} \cup IdsOf(seq) : id < d => f[d] = g[d]
    PROVE  ListStep(seq, f, id) = ListStep(seq, g, id)
<1> DEFINE u == Under(seq, id)
<1>1. \A k \in DOMAIN u : id < u[k].id /\ u[k].id \in {0} \cup IdsOf(seq)
    BY UnderFacts
<1>2. \A k \in DOMAIN u : f[u[k].id] = g[u[k].id]
    BY <1>1
<1>3. [k \in DOMAIN u |-> <<u[k]>> \o f[u[k].id]] = [k \in DOMAIN u |-> <<u[k]>> \o g[u[k].id]]
    BY <1>2
<1> QED
    BY <1>3, Zenon DEF ListStep

\* Its ids have a bound.
LEMMA PlacesBounded ==
    ASSUME NEW seq \in Seq(Sections)
    PROVE  /\ \A d \in {0} \cup IdsOf(seq) : d \in Nat
           /\ \E n \in Nat : \A d \in {0} \cup IdsOf(seq) : d <= n
<1> DEFINE k == Len(seq)
           Bounded(i) == \E n \in Nat : \A j \in 1 .. i : seq[j].id <= n
           S == {i \in 0 .. k : Bounded(i)}
<1>1. /\ k \in Nat /\ DOMAIN seq = 1 .. k
      /\ \A i \in 1 .. k : seq[i].id \in Nat
      /\ \A d \in IdsOf(seq) : \E i \in 1 .. k : d = seq[i].id
    <2>1. k \in Nat /\ DOMAIN seq = 1 .. k
        OBVIOUS
    <2>2. \A i \in 1 .. k : seq[i] \in ToSet(seq)
        BY <2>1 DEF ToSet
    <2>3. \A i \in 1 .. k : seq[i].id \in Nat
        BY <2>2, SectionFacts
    <2>4. \A r \in ToSet(seq) : \E i \in 1 .. k : r = seq[i]
        BY <2>1 DEF ToSet
    <2> QED
        BY <2>1, <2>3, <2>4 DEF IdsOf
<1> HIDE DEF k
<1>2. 0 \in S
    BY <1>1
<1>3. ASSUME NEW i \in 0 .. k - 1, i \in S PROVE i + 1 \in S
    <2>1. PICK n \in Nat : \A j \in 1 .. i : seq[j].id <= n
        BY <1>3
    <2>2. PICK l \in 1 .. k : l = i + 1
        BY <1>1
    <2>3. seq[l].id \in Nat
        BY <1>1
    <2>4. PICK m \in Nat : n <= m /\ seq[l].id <= m
        <3>1. n + seq[l].id \in Nat /\ n <= n + seq[l].id /\ seq[l].id <= n + seq[l].id
            BY <2>3
        <3> QED
            BY <3>1
    <2>5. \A j \in 1 .. i + 1 : seq[j].id <= m
        <3> TAKE j \in 1 .. i + 1
        <3>1. j \in 1 .. k /\ seq[j].id \in Nat
            BY <1>1
        <3>2. CASE j = l
            BY <2>4, <3>2
        <3>3. CASE j # l
            <4>1. j \in 1 .. i
                BY <2>2, <3>3
            <4>2. seq[j].id <= n
                BY <2>1, <4>1
            <4> QED
                BY <2>4, <3>1, <4>2
        <3> QED
            BY <3>2, <3>3
    <2>6. Bounded(i + 1)
        BY <2>5
    <2> HIDE DEF Bounded
    <2> QED
        BY <1>1, <2>6
<1>4. 0 .. k \subseteq S
    <2> HIDE DEF S
    <2> QED
        BY <1>1, <1>2, <1>3, NumbersUpTo
<1>5. PICK n \in Nat : \A j \in 1 .. k : seq[j].id <= n
    <2>1. Bounded(k)
        <3> HIDE DEF Bounded
        <3> QED
            BY <1>1, <1>4
    <2> QED
        BY <2>1
<1>6. \A d \in {0} \cup IdsOf(seq) : d \in Nat /\ d <= n
    BY <1>1, <1>5
<1> QED
    BY <1>6

\* The listing is defined: it can be built from the last section down.
LEMMA ListedStep ==
    ASSUME NEW seq, IsForest(seq)
    PROVE  \A id \in {0} \cup IdsOf(seq) : Listed(seq)[id] = ListStep(seq, Listed(seq), id)
<1> DEFINE places == {0} \cup IdsOf(seq)
           IsListing(f, S) == f = [id \in S |-> ListStep(seq, f, id)]
           L == CHOOSE f : IsListing(f, places)
<1>1. seq \in Seq(Sections)
    BY DEF IsForest
<1>2. \A d \in places : d \in Nat
    BY <1>1, PlacesBounded
<1>3. PICK n \in Nat : \A d \in places : d <= n
    BY <1>1, PlacesBounded
<1> DEFINE from(m) == {d \in places : n + 1 - m <= d}
           Solved == {m \in 0 .. n + 1 : \E f : IsListing(f, from(m))}
<1> HIDE DEF places
<1>4. 0 \in Solved
    <2> DEFINE f == [d \in {} |-> {}]
    <2>1. from(0) = {}
        BY <1>2, <1>3
    <2>2. IsListing(f, {})
        OBVIOUS
    <2>3. \E h : IsListing(h, from(0))
        <3> HIDE DEF f, from, IsListing
        <3> QED
            BY <2>1, <2>2
    <2> QED
        BY <2>3
<1>5. ASSUME NEW m \in 0 .. n + 1 - 1, m \in Solved PROVE m + 1 \in Solved
    <2>1. PICK f : IsListing(f, from(m))
        BY <1>5
    <2> DEFINE id == n - m
               S == from(m + 1)
               g == [d \in S |-> IF d = id THEN ListStep(seq, f, id) ELSE f[d]]
    <2>2. id \in Nat /\ \A d \in Nat : n + 1 - m <= d <=> id < d
        BY <1>3
    <2>3. \A d \in places : d \in S <=> id <= d
        BY <1>2, <1>3
    <2>4. \A d \in places : d \in from(m) <=> id < d
        BY <1>2, <2>2
    <2>5. S \subseteq places /\ from(m) \subseteq places
        OBVIOUS
    <2>6. DOMAIN f = from(m) /\ \A d \in from(m) : f[d] = ListStep(seq, f, d)
        <3> HIDE DEF from
        <3> QED
            BY <2>1
    <2> HIDE DEF from, S, id
    <2>7. \A d \in places : id < d => g[d] = f[d]
        BY <1>2, <2>2, <2>3
    <2>8. ASSUME NEW d \in S PROVE g[d] = ListStep(seq, g, d)
        <3>1. d \in places /\ d \in Nat /\ id <= d
            BY <1>2, <2>3, <2>5, <2>8
        <3>2. ListStep(seq, g, d) = ListStep(seq, f, d)
            <4>1. \A e \in {0} \cup IdsOf(seq) : d < e => g[e] = f[e]
                BY <1>2, <2>2, <2>7, <3>1 DEF places
            <4> HIDE DEF g
            <4> QED
                BY <3>1, <4>1, ListStepAgrees
        <3>3. CASE d = id
            BY <3>2, <3>3
        <3>4. CASE d # id
            <4>1. d \in from(m)
                BY <2>2, <2>4, <3>1, <3>4
            <4>2. g[d] = f[d]
                BY <3>4
            <4> HIDE DEF g
            <4> QED
                BY <2>6, <3>2, <4>1, <4>2
        <3> QED
            BY <3>3, <3>4
    <2>9. g = [d \in S |-> g[d]]
        OBVIOUS
    <2>10. IsListing(g, S)
        <3> HIDE DEF g
        <3> QED
            BY <2>8, <2>9
    <2>11. \E h : IsListing(h, from(m + 1))
        <3> HIDE DEF g, IsListing
        <3> QED
            BY <2>10 DEF S
    <2> HIDE DEF IsListing
    <2> QED
        BY <1>3, <2>11
<1>6. \E f : IsListing(f, places)
    <2>1. 0 .. n + 1 \subseteq Solved
        <3> HIDE DEF Solved
        <3> QED
            BY <1>3, <1>4, <1>5, NumbersUpTo
    <2>2. from(n + 1) = places
        BY <1>2, <1>3
    <2>3. \E f : IsListing(f, from(n + 1))
        <3> HIDE DEF IsListing, from
        <3> QED
            BY <1>3, <2>1
    <2> HIDE DEF IsListing, from
    <2> QED
        BY <2>2, <2>3
<1>7. IsListing(L, places)
    <2> HIDE DEF IsListing
    <2> QED
        BY <1>6
<1>8. Listed(seq) = L
    BY Zenon DEF Listed, ListStep, places, IdsOf
<1> HIDE DEF L
<1>9. \A id \in places : L[id] = ListStep(seq, L, id)
    BY <1>7
<1> QED
    BY <1>8, <1>9 DEF places

\* What is listed for a section is what is beneath it, each section once.
LEMMA ListedFacts ==
    ASSUME NEW seq, IsForest(seq), NEW id \in {0} \cup IdsOf(seq)
    PROVE  /\ Listed(seq)[id] \in Seq(Sections)
           /\ ToSet(Listed(seq)[id]) = Beneath(seq, id)
           /\ Distinct(Listed(seq)[id])
<1> DEFINE places == {0} \cup IdsOf(seq)
           L == Listed(seq)
           Good(d) == L[d] \in Seq(Sections) /\ ToSet(L[d]) = Beneath(seq, d) /\ Distinct(L[d])
<1>1. /\ seq \in Seq(Sections)
      /\ \A r, s \in ToSet(seq) : r.id = s.id => r = s
      /\ \A r \in ToSet(seq) : r.parent < r.id
    BY DEF IsForest
<1>2. \A d \in places : d \in Nat
    BY <1>1, PlacesBounded
<1>3. PICK n \in Nat : \A d \in places : d <= n
    BY <1>1, PlacesBounded
<1>4. \A d \in places : L[d] = ListStep(seq, L, d)
    BY ListedStep
<1> HIDE DEF places, L
<1>5. ASSUME NEW d \in places, \A e \in places : d < e => Good(e) PROVE Good(d)
    <2> DEFINE u == Under(seq, d)
               parts == [k \in DOMAIN u |-> <<u[k]>> \o L[u[k].id]]
    <2>0. d \in Nat
        BY <1>2
    <2>1. /\ u \in Seq(Sections) /\ Distinct(u)
          /\ ToSet(u) = {s \in ToSet(seq) : s.parent = d}
          /\ \A k \in DOMAIN u : /\ u[k] \in ToSet(seq) /\ u[k].parent = d
                                 /\ d < u[k].id /\ u[k].id \in places
        BY <2>0, UnderFacts DEF places
    <2>2. DOMAIN u = 1 .. Len(u) /\ Len(u) \in Nat
        BY <2>1
    <2> HIDE DEF u
    <2>3. ASSUME NEW k \in DOMAIN u
          PROVE  /\ parts[k] \in Seq(Sections)
                 /\ ToSet(parts[k]) = {u[k]} \cup Beneath(seq, u[k].id)
                 /\ Distinct(parts[k])
                 /\ \A s \in ToSet(parts[k]) : s.id \in Below(seq, {u[k].id})
        <3> DEFINE c == u[k]
        <3>1. c \in Sections /\ c.id \in Nat /\ c \in ToSet(seq)
            BY <1>1, <2>1, SectionFacts
        <3>2. Good(c.id)
            BY <1>5, <2>1
        <3>3. <<c>> \in Seq(Sections) /\ ToSet(<<c>>) = {c} /\ Distinct(<<c>>)
            BY <3>1 DEF ToSet, Distinct
        <3>4. \A s \in Beneath(seq, c.id) : c.id < s.id /\ s.id \in Below(seq, {c.id})
            BY <3>1, BeneathFacts
        <3>5. c \notin Beneath(seq, c.id) /\ c.id \in Below(seq, {c.id})
            BY <1>1, <3>1, <3>4, BelowOne
        <3> HIDE DEF c
        <3>6. /\ <<c>> \o L[c.id] \in Seq(Sections)
              /\ ToSet(<<c>> \o L[c.id]) = {c} \cup Beneath(seq, c.id)
              /\ Distinct(<<c>> \o L[c.id])
            <4> DEFINE rest == L[c.id]
            <4>1. rest \in Seq(Sections) /\ ToSet(rest) = Beneath(seq, c.id) /\ Distinct(rest)
                BY <3>2
            <4> HIDE DEF rest
            <4> DEFINE one == <<c>>
            <4>2. one \in Seq(Sections) /\ ToSet(one) = {c} /\ Distinct(one)
                BY <3>3
            <4> HIDE DEF one
            <4>3. ToSet(one) \cap ToSet(rest) = {}
                BY <3>5, <4>1, <4>2
            <4>4. /\ one \o rest \in Seq(Sections)
                  /\ ToSet(one \o rest) = ToSet(one) \cup ToSet(rest)
                  /\ Distinct(one \o rest)
                BY <4>1, <4>2, <4>3, ConcatJoins
            <4> QED
                BY <4>1, <4>2, <4>4 DEF rest, one
        <3>7. parts[k] = <<c>> \o L[c.id]
            BY DEF c
        <3> HIDE DEF parts
        <3> QED
            BY <3>4, <3>5, <3>6, <3>7 DEF c
    <2>4. parts \in Seq(Seq(Sections)) /\ DOMAIN parts = DOMAIN u
        <3>1. \A k \in 1 .. Len(u) : parts[k] \in Seq(Sections)
            BY <2>2, <2>3
        <3>2. DOMAIN parts = DOMAIN u /\ parts = [k \in 1 .. Len(u) |-> parts[k]]
            BY <2>2
        <3> HIDE DEF parts
        <3> QED
            BY <2>2, <3>1, <3>2, IsASeq
    <2>5. ASSUME NEW k \in DOMAIN u, NEW l \in DOMAIN u, k # l
          PROVE  ToSet(parts[k]) \cap ToSet(parts[l]) = {}
        <3>1. u[k] # u[l]
            BY <2>1, <2>5 DEF Distinct
        <3>2. Below(seq, {u[k].id}) \cap Below(seq, {u[l].id}) = {}
            BY <2>1, <3>1, SiblingsApart
        <3> HIDE DEF parts
        <3> QED
            BY <2>3, <3>2
    <2> HIDE DEF parts
    <2>6. /\ FlattenSeq(parts) \in Seq(Sections)
          /\ ToSet(FlattenSeq(parts)) = UNION {ToSet(parts[k]) : k \in DOMAIN parts}
          /\ Distinct(FlattenSeq(parts))
        <3>1. \A k \in DOMAIN parts : Distinct(parts[k])
            BY <2>3, <2>4
        <3>2. \A k, l \in DOMAIN parts : k # l => ToSet(parts[k]) \cap ToSet(parts[l]) = {}
            BY <2>4, <2>5
        <3> QED
            BY <2>4, <3>1, <3>2, FlattenFacts
    <2>7. UNION {ToSet(parts[k]) : k \in DOMAIN parts} = Beneath(seq, d)
        <3>1. \A k \in DOMAIN parts : ToSet(parts[k]) = {u[k]} \cup Beneath(seq, u[k].id)
            BY <2>3, <2>4
        <3>2. ToSet(u) = {u[k] : k \in DOMAIN parts}
            BY <2>4 DEF ToSet
        <3>3. UNION {ToSet(parts[k]) : k \in DOMAIN parts}
                 = UNION {{c} \cup Beneath(seq, c.id) : c \in ToSet(u)}
            BY <3>1, <3>2
        <3>4. Beneath(seq, d) = UNION {{c} \cup Beneath(seq, c.id) : c \in ToSet(u)}
            BY <2>0, <2>1, BeneathFacts
        <3> QED
            BY <3>3, <3>4
    <2>8. L[d] = FlattenSeq(parts)
        BY <1>4, Zenon DEF ListStep, parts, u
    <2> QED
        BY <2>6, <2>7, <2>8
<1> DEFINE Bad == {n - d : d \in {e \in places : ~Good(e)}}
<1>6. Bad = {}
    <2> SUFFICES ASSUME Bad # {} PROVE FALSE
        OBVIOUS
    <2> HIDE DEF Good
    <2>1. \A d \in places : d \in Nat /\ d <= n
        BY <1>2, <1>3
    <2>2. Bad \in SUBSET Nat
        BY <2>1
    <2>3. PICK m \in Bad : \A k \in Bad : m <= k
        <3> HIDE DEF Bad
        <3> QED
            BY <2>2, LeastNumber
    <2>4. PICK d \in places : ~Good(d) /\ m = n - d
        BY <2>3
    <2>5. PICK e \in places : d < e /\ ~Good(e)
        BY <1>5, <2>4
    <2>6. n - e \in Bad
        BY <2>5
    <2>7. ~(n - d <= n - e)
        BY <2>1, <2>4, <2>5
    <2> QED
        BY <2>3, <2>4, <2>6, <2>7
<1>7. id \in places
    BY DEF places
<1>8. Good(id)
    <2> HIDE DEF Good
    <2> QED
        BY <1>6, <1>7
<1> QED
    BY <1>8 DEF L

\* A listing of a forest is that forest again.
LEMMA FlattenedForest ==
    ASSUME NEW seq, IsForest(seq)
    PROVE  IsForest(Flattened(seq)) /\ ToSet(Flattened(seq)) = ToSet(seq)
<1>1. /\ Flattened(seq) \in Seq(Sections)
      /\ ToSet(Flattened(seq)) = Beneath(seq, 0)
      /\ Distinct(Flattened(seq))
    BY ListedFacts DEF Flattened
<1>2. ToSet(Flattened(seq)) = ToSet(seq)
    BY <1>1, BeneathFacts
<1> QED
    BY <1>1, <1>2 DEF IsForest, IdsOf

-----------------------------------------------------------------------------
(***************************************************************************)
(* Spans.  Equal spans of pages are on the pages of the document, have     *)
(* none in common and leave none out.                                      *)
(***************************************************************************)

IsDocument(document) ==
    /\ document.reader \in {"outline", "headings"}
    /\ document.chars \in Seq(Nat)
    /\ document.entries \in Seq([page : 0 .. PageCount(document), level : Nat])
    /\ document.reader = "headings" =>
          \A i, j \in DOMAIN document.entries :
              i <= j => 0 < document.entries[i].page
                        /\ document.entries[i].page <= document.entries[j].page

\* The larger of two numbers.
LEMMA MaxOfTwo ==
    ASSUME NEW a \in Nat, NEW b \in Nat
    PROVE  /\ Max({a, b}) \in Nat /\ a <= Max({a, b}) /\ b <= Max({a, b})
           /\ Max({a, b}) = a \/ Max({a, b}) = b
<1>1. \E x \in {a, b} : \A y \in {a, b} : x >= y
    <2>1. CASE a >= b
        BY <2>1
    <2>2. CASE b >= a
        BY <2>2
    <2> QED
        BY <2>1, <2>2
<1>2. Max({a, b}) \in {a, b} /\ \A y \in {a, b} : Max({a, b}) >= y
    BY <1>1 DEF Max
<1> QED
    BY <1>2

\* The least of some numbers.
LEMMA MinOfMany ==
    ASSUME NEW S \in SUBSET Nat, S # {}
    PROVE  Min(S) \in S /\ \A x \in S : Min(S) <= x
<1>1. \E m \in S : \A x \in S : m <= x
    BY LeastNumber
<1> QED
    BY <1>1 DEF Min

\* A rounded quotient: enough of b for a, and no more than needed.
LEMMA CeilDivBounds ==
    ASSUME NEW a \in Nat, NEW b \in Nat \ {0}
    PROVE  /\ CeilDiv(a, b) \in Nat
           /\ a <= b * CeilDiv(a, b)
<1> DEFINE n == a + b - 1
           q == n \div b
<1>1. n \in Nat /\ b \in Nat
    OBVIOUS
<1> HIDE DEF n
<1>2. q \in Nat /\ n < b * q + b
    BY <1>1, DivBounds
<1> HIDE DEF q
<1>3. b * q \in Nat
    BY <1>1, <1>2
<1>4. a <= b * q
    BY <1>1, <1>2, <1>3 DEF n
<1> QED
    BY <1>2, <1>4 DEF CeilDiv, q, n

\* The first and the last page of one of the equal spans.
SpanStart(size, k) == (k - 1) * size + 1
SpanEnd(n, size, k) == Min({k * size, n})

\* They are pages of the document;
LEMMA SpanBounds ==
    ASSUME NEW n \in Nat, NEW size \in Nat \ {0}, NEW k \in Nat \ {0}
    PROVE  /\ SpanStart(size, k) \in Nat /\ 1 <= SpanStart(size, k)
           /\ SpanEnd(n, size, k) \in Nat /\ SpanEnd(n, size, k) <= n
<1>1. k \in Nat /\ k - 1 \in Nat /\ size \in Nat
    OBVIOUS
<1>2. k * size \in Nat /\ (k - 1) * size \in Nat
    BY <1>1, ProductGrows
<1> DEFINE a == k * size
           b == (k - 1) * size
<1> HIDE DEF a, b
<1>3. a \in Nat /\ b \in Nat /\ SpanStart(size, k) = b + 1 /\ SpanEnd(n, size, k) = Min({a, n})
    BY <1>2 DEF a, b, SpanStart, SpanEnd
<1>4. Min({a, n}) \in Nat /\ Min({a, n}) <= n
    BY <1>3, MinOfTwo
<1> QED
    BY <1>3, <1>4

\* a later span begins after an earlier one ends,
LEMMA SpansApart ==
    ASSUME NEW n \in Nat, NEW size \in Nat \ {0}, NEW k \in Nat \ {0}, NEW l \in Nat \ {0}, k < l
    PROVE  SpanEnd(n, size, k) < SpanStart(size, l)
<1>1. k \in Nat /\ l - 1 \in Nat /\ k <= l - 1 /\ size \in Nat
    OBVIOUS
<1>2. k * size \in Nat /\ (l - 1) * size \in Nat /\ k * size <= (l - 1) * size
    BY <1>1, ProductGrows
<1> DEFINE a == k * size
           b == (l - 1) * size
<1> HIDE DEF a, b
<1>3. /\ a \in Nat /\ b \in Nat /\ a <= b
      /\ SpanStart(size, l) = b + 1 /\ SpanEnd(n, size, k) = Min({a, n})
    BY <1>2 DEF a, b, SpanStart, SpanEnd
<1>4. Min({a, n}) \in Nat /\ Min({a, n}) <= a
    BY <1>3, MinOfTwo
<1> QED
    BY <1>3, <1>4

\* and every page is in one.
LEMMA SpansCover ==
    ASSUME NEW n \in Nat, NEW size \in Nat \ {0}, NEW p \in 1 .. n
    PROVE  \E k \in 1 .. CeilDiv(n, size) : SpanStart(size, k) <= p /\ p <= SpanEnd(n, size, k)
<1> DEFINE q == (p - 1) \div size
           m == CeilDiv(n, size)
<1>1. p - 1 \in Nat /\ size \in Nat /\ p \in Nat /\ p <= n
    OBVIOUS
<1>2. q \in Nat /\ size * q <= p - 1 /\ p - 1 < size * q + size
    BY <1>1, DivBounds
<1>3. m \in Nat /\ n <= size * m
    BY CeilDivBounds
<1> HIDE DEF q, m
<1> DEFINE a == size * q
           c == size * m
<1>4. a \in Nat /\ c \in Nat /\ q * size = a /\ m * size = c /\ (q + 1) * size = a + size
    BY <1>1, <1>2, <1>3
<1>5. m <= q => c <= a
    BY <1>1, <1>2, <1>3, <1>4, ProductGrows
<1> HIDE DEF a, c
<1>6. a <= p - 1 /\ p - 1 < a + size /\ n <= c
    BY <1>2, <1>3 DEF a, c
<1>7. q < m
    BY <1>1, <1>2, <1>3, <1>4, <1>5, <1>6
<1>8. PICK k \in 1 .. m : k = q + 1 /\ k - 1 = q
    BY <1>2, <1>3, <1>7
<1>9. SpanStart(size, k) = a + 1 /\ SpanEnd(n, size, k) = Min({a + size, n})
    BY <1>4, <1>8 DEF SpanStart, SpanEnd
<1>10. a + size \in Nat
    BY <1>1, <1>4
<1>11. Min({a + size, n}) = a + size \/ Min({a + size, n}) = n
    BY <1>10, MinOfTwo
<1>12. SpanStart(size, k) <= p /\ p <= SpanEnd(n, size, k)
    BY <1>1, <1>4, <1>6, <1>9, <1>11
<1> QED
    BY <1>12 DEF m

OnPages(seq, n) == \A r \in ToSet(seq) : 1 <= r.start /\ r.end <= n

\* Every page from the first section on is in a section, and there is one
\* when there is a page.
CoversOn(seq, n) ==
    /\ n # 0 => ToSet(seq) # {}
    /\ \A p \in 1 .. n :
          (\E r \in ToSet(seq) : r.start <= p) => \E r \in ToSet(seq) : p \in PagesIn(r)

\* Equal spans are roots, each on pages of its own, and cover all pages.
LEMMA ChunksFacts ==
    ASSUME NEW n \in Nat, NEW size \in Nat \ {0}
    PROVE  /\ IsForest(Chunks(n, size))
           /\ OnPages(Chunks(n, size), n)
           /\ CoversOn(Chunks(n, size), n)
           /\ \A r, s \in ToSet(Chunks(n, size)) : r # s => PagesIn(r) \cap PagesIn(s) = {}
<1> DEFINE m == CeilDiv(n, size)
           from == [k \in 1 .. m |-> SpanStart(size, k)]
           to == [k \in 1 .. m |-> SpanEnd(n, size, k)]
           seq == Chunks(n, size)
<1>1. m \in Nat
    BY CeilDivBounds
<1>2. \A k \in 1 .. m :
          seq[k] = [id |-> k, parent |-> 0, start |-> SpanStart(size, k), end |-> SpanEnd(n, size, k)]
    BY DEF Chunks, SpanStart, SpanEnd
<1>3. DOMAIN seq = 1 .. m /\ seq = [k \in 1 .. m |-> seq[k]]
    BY DEF Chunks
<1> HIDE DEF m, seq
<1>4. \A k \in 1 .. m : k \in Nat \ {0}
    BY <1>1
<1>5. \A k \in 1 .. m : from[k] \in Nat /\ 1 <= from[k] /\ to[k] \in Nat /\ to[k] <= n
    BY <1>4, SpanBounds
<1>6. \A k, l \in 1 .. m : k < l => to[k] < from[l]
    BY <1>4, SpansApart
<1>7. \A p \in 1 .. n : \E k \in 1 .. m : from[k] <= p /\ p <= to[k]
    BY SpansCover DEF m
<1>8. \A k \in 1 .. m : seq[k] = [id |-> k, parent |-> 0, start |-> from[k], end |-> to[k]]
    BY <1>2
<1> HIDE DEF from, to
<1>9. ASSUME NEW k \in 1 .. m
      PROVE  /\ seq[k] \in Sections /\ seq[k].id = k /\ seq[k].parent = 0
             /\ seq[k].start = from[k] /\ seq[k].end = to[k]
    <2>1. k \in Nat /\ from[k] \in Nat /\ to[k] \in Nat
        BY <1>4, <1>5
    <2>2. seq[k] = [id |-> k, parent |-> 0, start |-> from[k], end |-> to[k]]
        BY <1>8
    <2> QED
        BY <2>1, <2>2 DEF Sections
<1>10. seq \in Seq(Sections)
    BY <1>1, <1>3, <1>9, IsASeq
<1>11. ToSet(seq) = {seq[k] : k \in 1 .. m}
    BY <1>3 DEF ToSet
<1>12. IsForest(seq)
    <2>1. Distinct(seq)
        BY <1>3, <1>9 DEF Distinct
    <2>2. \A r, s \in ToSet(seq) : r.id = s.id => r = s
        BY <1>9, <1>11
    <2>3. \A r \in ToSet(seq) : r.parent < r.id /\ r.parent = 0
        BY <1>1, <1>9, <1>11
    <2> QED
        BY <1>10, <2>1, <2>2, <2>3 DEF IsForest
<1>13. OnPages(seq, n)
    BY <1>5, <1>9, <1>11 DEF OnPages
<1>14. CoversOn(seq, n)
    <2> SUFFICES ASSUME NEW p \in 1 .. n PROVE \E r \in ToSet(seq) : p \in PagesIn(r)
        <3>1. n # 0 => 1 \in 1 .. n
            OBVIOUS
        <3> QED
            BY <3>1 DEF CoversOn
    <2>1. PICK k \in 1 .. m : from[k] <= p /\ p <= to[k]
        BY <1>7
    <2>2. p \in PagesIn(seq[k])
        BY <1>5, <1>9, <2>1 DEF PagesIn
    <2> QED
        BY <1>11, <2>2
<1>15. \A k, l \in 1 .. m : k < l => PagesIn(seq[k]) \cap PagesIn(seq[l]) = {}
    <2> TAKE k, l \in 1 .. m
    <2> HAVE k < l
    <2>1. to[k] < from[l] /\ from[k] \in Nat /\ to[k] \in Nat /\ from[l] \in Nat /\ to[l] \in Nat
        BY <1>5, <1>6
    <2> QED
        BY <1>9, <2>1 DEF PagesIn
<1>16. \A r, s \in ToSet(seq) : r # s => PagesIn(r) \cap PagesIn(s) = {}
    <2> SUFFICES ASSUME NEW k \in 1 .. m, NEW l \in 1 .. m, seq[k] # seq[l]
                 PROVE  PagesIn(seq[k]) \cap PagesIn(seq[l]) = {}
        BY <1>11
    <2>1. k < l \/ l < k
        BY <1>1
    <2> QED
        BY <1>15, <2>1
<1> QED
    BY <1>12, <1>13, <1>14, <1>16 DEF seq

-----------------------------------------------------------------------------
(***************************************************************************)
(* Entries.  The entries of an outline or of headings nest by level, and   *)
(* each section ends where one that follows it ends it.                    *)
(***************************************************************************)

Entries == [page : Nat, level : Nat]

\* The fields of an entry.
LEMMA EntryFields ==
    ASSUME NEW entries \in Seq(Entries), NEW i \in DOMAIN entries
    PROVE  entries[i].level \in Nat /\ entries[i].page \in Nat
<1>1. entries[i] \in Entries
    OBVIOUS
<1> QED
    BY <1>1 DEF Entries

\* The entry around another comes before it and is of a smaller level, and
\* what stands between them is not.
LEMMA EnclosingFacts ==
    ASSUME NEW entries \in Seq(Entries), NEW i \in DOMAIN entries
    PROVE  /\ Enclosing(entries, i) \in Nat /\ Enclosing(entries, i) < i
           /\ Enclosing(entries, i) # 0 => Enclosing(entries, i) \in DOMAIN entries
           /\ \A j \in DOMAIN entries :
                 j < i /\ Enclosing(entries, i) < j => entries[i].level <= entries[j].level
<1> DEFINE shallower == {j \in 1 .. (i - 1) : entries[j].level < entries[i].level}
           e == Enclosing(entries, i)
<1>1. /\ Len(entries) \in Nat /\ DOMAIN entries = 1 .. Len(entries) /\ i \in 1 .. Len(entries)
      /\ \A j \in DOMAIN entries : entries[j] \in Entries
    OBVIOUS
<1>2. \A j \in DOMAIN entries : entries[j].level \in Nat
    BY <1>1 DEF Entries
<1>3. CASE shallower = {}
    <2>1. e = 0
        BY <1>3 DEF Enclosing
    <2>2. \A j \in DOMAIN entries : j < i => ~(entries[j].level < entries[i].level)
        BY <1>1, <1>3
    <2> QED
        BY <1>1, <1>2, <2>1, <2>2
<1>4. CASE shallower # {}
    <2>1. e = Max(shallower)
        BY <1>4 DEF Enclosing
    <2>2. shallower \in SUBSET Nat /\ \A j \in shallower : j \in 1 .. i - 1
        BY <1>1
    <2>3. \E m \in shallower : \A j \in shallower : m >= j
        <3> DEFINE gaps == {i - j : j \in shallower}
        <3>1. gaps \in SUBSET Nat /\ gaps # {}
            BY <1>1, <1>4, <2>2
        <3>2. PICK g \in gaps : \A h \in gaps : g <= h
            BY <3>1, LeastNumber
        <3>3. PICK m \in shallower : g = i - m
            BY <3>2
        <3>4. \A j \in shallower : i - m <= i - j
            BY <3>2, <3>3
        <3> HIDE DEF shallower
        <3> QED
            BY <1>1, <2>2, <3>4
    <2>4. e \in shallower /\ \A j \in shallower : e >= j
        BY <2>1, <2>3 DEF Max
    <2>5. e \in 1 .. i - 1
        BY <2>4
    <2>6. ASSUME NEW j \in DOMAIN entries, j < i, e < j PROVE entries[i].level <= entries[j].level
        <3>1. j \notin shallower
            BY <1>1, <2>4, <2>5, <2>6
        <3>2. ~(entries[j].level < entries[i].level)
            BY <1>1, <2>6, <3>1
        <3> QED
            BY <1>2, <2>6, <3>2
    <2> QED
        BY <1>1, <2>5, <2>6
<1> QED
    BY <1>3, <1>4

\* A section for every entry that is present, under the entry around it when
\* that is present too.
IsEntryTree(seq, entries, present) ==
    /\ entries \in Seq(Entries) /\ present \subseteq DOMAIN entries
    /\ seq \in Seq(Sections) /\ Distinct(seq) /\ IdsOf(seq) = present
    /\ \A r, s \in ToSet(seq) : r.id = s.id => r = s
    /\ \A r \in ToSet(seq) :
          /\ r.parent = IF Enclosing(entries, r.id) \in present THEN Enclosing(entries, r.id) ELSE 0
          /\ r.start = entries[r.id].page

\* Such sections form a forest,
LEMMA EntryTreeIsForest ==
    ASSUME NEW seq, NEW entries, NEW present, IsEntryTree(seq, entries, present)
    PROVE  IsForest(seq)
<1>1. ASSUME NEW r \in ToSet(seq) PROVE r.parent < r.id /\ r.parent \in {0} \cup IdsOf(seq)
    <2>1. r.id \in present /\ present \subseteq DOMAIN entries /\ entries \in Seq(Entries)
        BY DEF IsEntryTree, IdsOf
    <2>2. Enclosing(entries, r.id) \in Nat /\ Enclosing(entries, r.id) < r.id
        BY <2>1, EnclosingFacts
    <2>3. /\ r.parent = IF Enclosing(entries, r.id) \in present
                        THEN Enclosing(entries, r.id) ELSE 0
          /\ IdsOf(seq) = present
        BY DEF IsEntryTree
    <2>4. r.id \in Nat /\ 0 < r.id
        BY <2>1
    <2> QED
        BY <2>2, <2>3, <2>4
<1> QED
    BY <1>1 DEF IsForest, IsEntryTree

\* in which entry j is below i when all from i to j are present and those
\* after i are of greater levels.
LEMMA DeeperIsBelow ==
    ASSUME NEW seq, NEW entries, NEW present, IsEntryTree(seq, entries, present),
           NEW i \in present, NEW j \in present, i < j,
           \A k \in i + 1 .. j : k \in present /\ entries[i].level < entries[k].level
    PROVE  j \in Below(seq, {i})
<1> DEFINE B == Below(seq, {i})
           lost == {k \in i + 1 .. j : k \notin B}
<1>1. /\ entries \in Seq(Entries) /\ present \subseteq DOMAIN entries
      /\ seq \in Seq(Sections) /\ IdsOf(seq) = present
    BY DEF IsEntryTree
<1>2. i \in Nat /\ j \in Nat /\ j \in i + 1 .. j /\ DOMAIN entries = 1 .. Len(entries)
    BY <1>1
<1>3. \A r \in ToSet(seq) : r.parent < r.id
    BY EntryTreeIsForest DEF IsForest
<1>4. i \in B /\ \A r \in ToSet(seq) : r.parent \in B => r.id \in B
    BY <1>1, <1>2, <1>3, BelowOne
<1> HIDE DEF B
<1>5. SUFFICES ASSUME lost # {} PROVE FALSE
    BY <1>2 DEF B
<1>6. lost \in SUBSET Nat
    <2>1. i + 1 \in Nat /\ \A k \in i + 1 .. j : k \in Nat
        BY <1>2
    <2> QED
        BY <2>1
<1>7. PICK k \in lost : \A l \in lost : k <= l
    BY <1>5, <1>6, LeastNumber
<1>8. k \in i + 1 .. j /\ k \notin B /\ k \in present /\ entries[i].level < entries[k].level
    BY <1>7
<1> DEFINE e == Enclosing(entries, k)
<1>9. /\ e \in Nat /\ e < k
      /\ \A l \in DOMAIN entries : l < k /\ e < l => entries[k].level <= entries[l].level
    BY <1>1, <1>8, EnclosingFacts
<1>10. entries[i].level \in Nat /\ entries[k].level \in Nat /\ i < k
    <2>1. i \in DOMAIN entries /\ k \in DOMAIN entries
        BY <1>1, <1>8
    <2>2. i < k
        BY <1>2, <1>8
    <2> QED
        BY <1>1, <2>1, <2>2, EntryFields
<1> HIDE DEF e
<1>11. ~(e < i)
    BY <1>1, <1>9, <1>10
<1>12. e = i \/ e \in i + 1 .. j
    BY <1>2, <1>8, <1>9, <1>11
<1>13. e \in present
    BY <1>12
<1>14. e \in B
    <2>0. ~(k <= e)
        BY <1>2, <1>8, <1>9
    <2>1. e \notin lost
        BY <1>7, <2>0
    <2> QED
        BY <1>4, <1>12, <2>1
<1>15. PICK r \in ToSet(seq) : r.id = k
    BY <1>1, <1>8 DEF IdsOf
<1>16. r.parent = e
    BY <1>13, <1>15 DEF IsEntryTree, e
<1> QED
    BY <1>4, <1>8, <1>14, <1>15, <1>16

\* Between two sections of which the later is not below the other stands an
\* entry that ends the first, or one that is missing.
LEMMA SomethingBetween ==
    ASSUME NEW seq, NEW entries, NEW present, IsEntryTree(seq, entries, present),
           NEW i \in present, NEW j \in present, i < j, j \notin Below(seq, {i})
    PROVE  \E k \in i + 1 .. j : k \notin present \/ k \in Following(entries, i)
<1>1. PICK k \in i + 1 .. j : ~(k \in present /\ entries[i].level < entries[k].level)
    BY DeeperIsBelow
<1>2. /\ entries \in Seq(Entries) /\ DOMAIN entries = 1 .. Len(entries) /\ Len(entries) \in Nat
      /\ i \in DOMAIN entries /\ j \in DOMAIN entries
    BY DEF IsEntryTree
<1>3. k \in DOMAIN entries /\ k \in i + 1 .. Len(entries)
    BY <1>1, <1>2
<1>4. entries[i].level \in Nat /\ entries[k].level \in Nat
    BY <1>2, <1>3, EntryFields
<1>5. entries[i].level < entries[k].level \/ entries[k].level <= entries[i].level
    BY <1>4
<1> QED
    BY <1>1, <1>3, <1>5 DEF Following

\* The parts of a document.
LEMMA DocumentParts ==
    ASSUME NEW document, IsDocument(document)
    PROVE  /\ PageCount(document) \in Nat
           /\ document.entries \in Seq(Entries)
           /\ \A i \in DOMAIN document.entries : document.entries[i].page <= PageCount(document)
<1> DEFINE n == PageCount(document)
           entries == document.entries
           T == [page : 0 .. n, level : Nat]
<1>1. n \in Nat
    BY DEF IsDocument, PageCount
<1>2. entries \in Seq(T)
    BY DEF IsDocument
<1> HIDE DEF n, entries, T
<1>3. Len(entries) \in Nat /\ DOMAIN entries = 1 .. Len(entries)
      /\ entries = [i \in 1 .. Len(entries) |-> entries[i]]
    BY <1>2
<1>4. ASSUME NEW i \in DOMAIN entries PROVE entries[i] \in Entries /\ entries[i].page <= n
    <2>1. entries[i] \in T
        BY <1>2, <1>4
    <2> QED
        BY <1>1, <2>1 DEF Entries, T
<1>5. entries \in Seq(Entries)
    BY <1>3, <1>4, IsASeq
<1> QED
    BY <1>1, <1>4, <1>5 DEF n, entries

\* Entries that follow another and are not nested in it.
LEMMA FollowingFacts ==
    ASSUME NEW entries \in Seq(Entries), NEW i \in DOMAIN entries
    PROVE  /\ Following(entries, i) \in SUBSET Nat
           /\ \A k \in Following(entries, i) : k \in DOMAIN entries /\ i < k
<1>1. /\ Len(entries) \in Nat /\ DOMAIN entries = 1 .. Len(entries) /\ i \in 1 .. Len(entries)
    OBVIOUS
<1>2. \A k \in (i + 1) .. Len(entries) : k \in Nat /\ k \in 1 .. Len(entries) /\ i < k
    BY <1>1
<1> QED
    BY <1>1, <1>2 DEF Following

\* Where a section of an outline ends: with the document, or before the first
\* of the entries that end it.
LEMMA OutlineEndFacts ==
    ASSUME NEW entries \in Seq(Entries), NEW i \in DOMAIN entries, NEW n \in Nat,
           \A k \in DOMAIN entries : entries[k].page <= n,
           NEW later, later = {k \in Following(entries, i) : entries[k].page > entries[i].page}
    PROVE  /\ OutlineEnd(entries, i, n) \in Nat /\ OutlineEnd(entries, i, n) <= n
           /\ later = {} => OutlineEnd(entries, i, n) = n
           /\ later # {} => \E m \in later : /\ \A k \in later : m <= k
                                             /\ OutlineEnd(entries, i, n) = entries[m].page - 1
<1>1. later = {} => OutlineEnd(entries, i, n) = n
    BY DEF OutlineEnd
<1>2. later # {} => OutlineEnd(entries, i, n) = entries[Min(later)].page - 1
    BY DEF OutlineEnd
<1>3. CASE later = {}
    BY <1>1, <1>3
<1>4. CASE later # {}
    <2>1. later \in SUBSET Nat /\ \A k \in later : k \in DOMAIN entries
        BY FollowingFacts
    <2> DEFINE m == Min(later)
    <2>2. m \in later /\ \A k \in later : m <= k
        BY <1>4, <2>1, MinOfMany
    <2>3. OutlineEnd(entries, i, n) = entries[m].page - 1
        BY <1>2, <1>4
    <2> HIDE DEF m
    <2>4. /\ entries[m].page \in Nat /\ entries[i].page \in Nat
          /\ entries[m].page > entries[i].page /\ entries[m].page <= n
        BY <2>1, <2>2, EntryFields
    <2> QED
        BY <1>4, <2>2, <2>3, <2>4
<1> QED
    BY <1>3, <1>4

\* Where a section of headings ends: with the document, before the first of
\* the headings that end it, or with its own page.
LEMMA HeadingEndFacts ==
    ASSUME NEW entries \in Seq(Entries), NEW i \in DOMAIN entries, NEW n \in Nat,
           \A k \in DOMAIN entries : 0 < entries[k].page /\ entries[k].page <= n
    PROVE  /\ HeadingEnd(entries, i, n) \in Nat /\ HeadingEnd(entries, i, n) <= n
           /\ Following(entries, i) = {} => HeadingEnd(entries, i, n) = n
           /\ Following(entries, i) # {} =>
                 \E m \in Following(entries, i) :
                    /\ \A k \in Following(entries, i) : m <= k
                    /\ entries[m].page - 1 <= HeadingEnd(entries, i, n)
                    /\ \/ HeadingEnd(entries, i, n) = entries[m].page - 1
                       \/ HeadingEnd(entries, i, n) = entries[i].page
<1> DEFINE next == Following(entries, i)
           end == HeadingEnd(entries, i, n)
<1>1. next = {} => end = n
    BY DEF HeadingEnd
<1>2. next # {} => end = Max({entries[Min(next)].page - 1, entries[i].page})
    BY DEF HeadingEnd
<1>3. next \in SUBSET Nat /\ \A k \in next : k \in DOMAIN entries
    BY FollowingFacts
<1> HIDE DEF next, end
<1>4. CASE next = {}
    BY <1>1, <1>4 DEF next, end
<1>5. CASE next # {}
    <2> DEFINE m == Min(next)
               a == entries[m].page - 1
               b == entries[i].page
    <2>1. m \in next /\ \A k \in next : m <= k
        BY <1>3, <1>5, MinOfMany
    <2>2. end = Max({a, b})
        BY <1>2, <1>5
    <2> HIDE DEF m
    <2>3. entries[m].page \in Nat /\ b \in Nat /\ 0 < entries[m].page
          /\ entries[m].page <= n /\ b <= n
        BY <1>3, <2>1, EntryFields
    <2>4. a \in Nat /\ a <= n
        BY <2>3
    <2> HIDE DEF a, b
    <2>5. end \in Nat /\ a <= end /\ (end = a \/ end = b)
        BY <2>2, <2>3, <2>4, MaxOfTwo
    <2>6. end \in Nat /\ end <= n /\ entries[m].page - 1 <= end
          /\ (end = entries[m].page - 1 \/ end = entries[i].page)
        BY <2>3, <2>4, <2>5 DEF a, b
    <2> QED
        BY <1>5, <2>1, <2>6 DEF next, end
<1> QED
    BY <1>4, <1>5

OfPlaces(order, f) == [k \in DOMAIN order |-> f[order[k]]]

\* Sections made of places, each from one.
LEMMA SectionsOfPlaces ==
    ASSUME NEW order \in Seq(Nat), Distinct(order), NEW f \in [ToSet(order) -> Sections],
           \A i \in ToSet(order) : f[i].id = i,
           NEW seq, seq = OfPlaces(order, f)
    PROVE  /\ seq \in Seq(Sections) /\ Distinct(seq)
           /\ ToSet(seq) = {f[i] : i \in ToSet(order)}
           /\ IdsOf(seq) = ToSet(order)
           /\ \A r \in ToSet(seq) : r.id \in ToSet(order) /\ r = f[r.id]
           /\ \A r, s \in ToSet(seq) : r.id = s.id => r = s
<1>0. seq = [k \in DOMAIN order |-> f[order[k]]]
    BY DEF OfPlaces
<1>1. Len(order) \in Nat /\ DOMAIN order = 1 .. Len(order)
    OBVIOUS
<1>2. ToSet(order) = {order[k] : k \in DOMAIN order}
    BY DEF ToSet
<1>3. \A k \in DOMAIN order : seq[k] = f[order[k]] /\ order[k] \in ToSet(order)
    BY <1>0, <1>2
<1>4. DOMAIN seq = 1 .. Len(order) /\ seq = [k \in 1 .. Len(order) |-> seq[k]]
    BY <1>0, <1>1
<1>5. \A k \in 1 .. Len(order) : seq[k] \in Sections
    BY <1>1, <1>3
<1>6. seq \in Seq(Sections)
    BY <1>1, <1>4, <1>5, IsASeq
<1>7. Distinct(seq)
    <2>1. \A k, l \in DOMAIN seq : seq[k] = seq[l] => order[k] = order[l]
        BY <1>1, <1>3, <1>4
    <2> QED
        BY <1>1, <1>4, <2>1 DEF Distinct
<1>8. ToSet(seq) = {f[i] : i \in ToSet(order)}
    <2>1. ToSet(seq) = {seq[k] : k \in DOMAIN order}
        BY <1>1, <1>4 DEF ToSet
    <2>2. ASSUME NEW r \in ToSet(seq) PROVE \E i \in ToSet(order) : r = f[i]
        BY <1>3, <2>1
    <2>3. ASSUME NEW i \in ToSet(order) PROVE f[i] \in ToSet(seq)
        <3>1. PICK k \in DOMAIN order : order[k] = i
            BY <1>2
        <3>2. f[i] = seq[k]
            BY <1>3, <3>1
        <3> QED
            BY <2>1, <3>2
    <2> QED
        BY <2>2, <2>3
<1>9. \A r \in ToSet(seq) : r.id \in ToSet(order) /\ r = f[r.id]
    BY <1>8
<1>10. \A i \in ToSet(order) : f[i] \in ToSet(seq) /\ f[i].id = i
    BY <1>8
<1>11. IdsOf(seq) = ToSet(order)
    <2>1. IdsOf(seq) \subseteq ToSet(order)
        BY <1>9 DEF IdsOf
    <2>2. ASSUME NEW i \in ToSet(order) PROVE i \in IdsOf(seq)
        <3>1. f[i] \in ToSet(seq) /\ f[i].id = i
            BY <1>10
        <3> QED
            BY <3>1 DEF IdsOf
    <2> QED
        BY <2>1, <2>2
<1>12. \A r, s \in ToSet(seq) : r.id = s.id => r = s
    BY <1>9
<1> QED
    BY <1>6, <1>7, <1>8, <1>9, <1>11, <1>12

\* The section a reader makes of an entry.
OutlineSection(document, i) ==
    [id     |-> i,
     parent |-> IF Enclosing(document.entries, i)
                      \in {k \in DOMAIN document.entries : document.entries[k].page # 0}
                THEN Enclosing(document.entries, i) ELSE 0,
     start  |-> document.entries[i].page,
     end    |-> OutlineEnd(document.entries, i, PageCount(document))]

HeadingSection(document, i) ==
    [id     |-> i,
     parent |-> Enclosing(document.entries, i),
     start  |-> document.entries[i].page,
     end    |-> HeadingEnd(document.entries, i, PageCount(document))]

\* The sections of an outline are those of its entries that resolve,
LEMMA OutlineTree ==
    ASSUME NEW document, IsDocument(document), NEW resolved,
           resolved = {i \in DOMAIN document.entries : document.entries[i].page # 0},
           resolved # {}
    PROVE  /\ IsEntryTree(OutlineSections(document), document.entries, resolved)
           /\ \A r \in ToSet(OutlineSections(document)) :
                 r.end = OutlineEnd(document.entries, r.id, PageCount(document))
<1> DEFINE entries == document.entries
           places == [i \in DOMAIN entries |-> i]
           order == Only(resolved, places)
           f == [i \in resolved |-> OutlineSection(document, i)]
           seq == OutlineSections(document)
<1>1. PageCount(document) \in Nat /\ entries \in Seq(Entries)
      /\ \A i \in DOMAIN entries : entries[i].page <= PageCount(document)
    BY DocumentParts
<1>2. seq = [k \in DOMAIN order |-> OutlineSection(document, order[k])]
    BY DEF OutlineSections, OutlineSection
<1> HIDE DEF entries, seq
<1>3. Len(entries) \in Nat /\ DOMAIN entries = 1 .. Len(entries)
    BY <1>1
<1>4. places \in Seq(Nat) /\ Distinct(places) /\ ToSet(places) = DOMAIN entries
    <2>1. \A i \in 1 .. Len(entries) : places[i] \in Nat
        BY <1>3
    <2>2. places \in Seq(Nat)
        BY <1>3, <2>1, IsASeq
    <2> QED
        BY <2>2 DEF Distinct, ToSet
<1>5. resolved \subseteq DOMAIN entries
    BY DEF entries
<1> HIDE DEF places
<1>6. order \in Seq(Nat) /\ Distinct(order) /\ ToSet(order) = resolved
    BY <1>4, <1>5, OnlyFacts
<1>7. ASSUME NEW i \in resolved
      PROVE  /\ OutlineSection(document, i) \in Sections
             /\ OutlineSection(document, i).id = i
             /\ OutlineSection(document, i).parent
                   = IF Enclosing(entries, i) \in resolved THEN Enclosing(entries, i) ELSE 0
             /\ OutlineSection(document, i).start = entries[i].page
             /\ OutlineSection(document, i).end = OutlineEnd(entries, i, PageCount(document))
    <2>1. i \in Nat /\ i \in DOMAIN entries
        BY <1>3, <1>5
    <2>2. Enclosing(entries, i) \in Nat /\ entries[i].page \in Nat
        BY <1>1, <2>1, EnclosingFacts, EntryFields
    <2>3. OutlineEnd(entries, i, PageCount(document)) \in Nat
        BY <1>1, <2>1, OutlineEndFacts
    <2>4. OutlineSection(document, i)
             = [id     |-> i,
                parent |-> IF Enclosing(entries, i) \in resolved
                           THEN Enclosing(entries, i) ELSE 0,
                start  |-> entries[i].page,
                end    |-> OutlineEnd(entries, i, PageCount(document))]
        BY DEF OutlineSection, entries
    <2> QED
        BY <2>1, <2>2, <2>3, <2>4 DEF Sections
<1> HIDE DEF order
<1>8. f \in [ToSet(order) -> Sections] /\ \A i \in ToSet(order) : f[i].id = i
    BY <1>6, <1>7
<1>9. seq = OfPlaces(order, f)
    <2>1. \A k \in DOMAIN order : order[k] \in resolved
        BY <1>6 DEF ToSet
    <2>2. \A k \in DOMAIN order : f[order[k]] = OutlineSection(document, order[k])
        BY <2>1
    <2> QED
        BY <1>2, <2>2 DEF OfPlaces
<1>a. \A i \in resolved : f[i] = OutlineSection(document, i)
    OBVIOUS
<1> HIDE DEF f
<1>10. /\ seq \in Seq(Sections) /\ Distinct(seq)
       /\ IdsOf(seq) = resolved
       /\ \A r \in ToSet(seq) : r.id \in resolved /\ r = f[r.id]
       /\ \A r, s \in ToSet(seq) : r.id = s.id => r = s
    <2>1. /\ seq \in Seq(Sections) /\ Distinct(seq)
          /\ IdsOf(seq) = ToSet(order)
          /\ \A r \in ToSet(seq) : r.id \in ToSet(order) /\ r = f[r.id]
          /\ \A r, s \in ToSet(seq) : r.id = s.id => r = s
        BY ONLY <1>6, <1>8, <1>9, SectionsOfPlaces
    <2> QED
        BY <1>6, <2>1
<1>11. \A r \in ToSet(seq) : r.id \in resolved /\ r = OutlineSection(document, r.id)
    BY <1>a, <1>10
<1>12. IsEntryTree(seq, entries, resolved)
    BY <1>1, <1>5, <1>7, <1>10, <1>11 DEF IsEntryTree
<1> QED
    BY <1>7, <1>11, <1>12 DEF seq, entries

\* and those of headings all.
LEMMA HeadingTree ==
    ASSUME NEW document, IsDocument(document), document.reader = "headings",
           document.entries # <<>>
    PROVE  /\ IsEntryTree(HeadingSections(document), document.entries, DOMAIN document.entries)
           /\ \A r \in ToSet(HeadingSections(document)) :
                 r.end = HeadingEnd(document.entries, r.id, PageCount(document))
<1> DEFINE entries == document.entries
           present == DOMAIN entries
           order == [i \in present |-> i]
           f == [i \in present |-> HeadingSection(document, i)]
           seq == HeadingSections(document)
<1>1. PageCount(document) \in Nat /\ entries \in Seq(Entries)
      /\ \A i \in DOMAIN entries : entries[i].page <= PageCount(document)
    BY DocumentParts
<1>2. \A i \in DOMAIN entries : 0 < entries[i].page
    <2>1. Len(entries) \in Nat /\ DOMAIN entries = 1 .. Len(entries)
        BY <1>1
    <2>2. \A i, j \in DOMAIN entries : i <= j => 0 < entries[i].page
        BY DEF IsDocument
    <2> QED
        BY <2>1, <2>2
<1>3. seq = [i \in present |-> HeadingSection(document, i)]
    BY DEF HeadingSections, HeadingSection
<1> HIDE DEF entries, seq
<1>4. Len(entries) \in Nat /\ present = 1 .. Len(entries)
    BY <1>1
<1>5. order \in Seq(Nat) /\ Distinct(order) /\ ToSet(order) = present /\ DOMAIN order = present
    <2>1. \A i \in 1 .. Len(entries) : order[i] \in Nat
        BY <1>4
    <2>2. order \in Seq(Nat)
        BY <1>4, <2>1, IsASeq
    <2> QED
        BY <2>2 DEF Distinct, ToSet
<1>6. ASSUME NEW i \in present
      PROVE  /\ HeadingSection(document, i) \in Sections
             /\ HeadingSection(document, i).id = i
             /\ HeadingSection(document, i).parent
                   = IF Enclosing(entries, i) \in present THEN Enclosing(entries, i) ELSE 0
             /\ HeadingSection(document, i).start = entries[i].page
             /\ HeadingSection(document, i).end = HeadingEnd(entries, i, PageCount(document))
    <2>1. i \in Nat
        BY <1>4
    <2>2. Enclosing(entries, i) \in Nat /\ entries[i].page \in Nat
          /\ (Enclosing(entries, i) # 0 => Enclosing(entries, i) \in present)
        BY <1>1, EnclosingFacts, EntryFields
    <2>3. HeadingEnd(entries, i, PageCount(document)) \in Nat
        BY <1>1, <1>2, HeadingEndFacts
    <2>4. HeadingSection(document, i)
             = [id     |-> i,
                parent |-> Enclosing(entries, i),
                start  |-> entries[i].page,
                end    |-> HeadingEnd(entries, i, PageCount(document))]
        BY DEF HeadingSection, entries
    <2> QED
        BY <2>1, <2>2, <2>3, <2>4 DEF Sections
<1>7. f \in [ToSet(order) -> Sections] /\ \A i \in ToSet(order) : f[i].id = i
    BY <1>5, <1>6
<1>8. seq = OfPlaces(order, f)
    BY <1>3 DEF OfPlaces
<1>a. \A i \in present : f[i] = HeadingSection(document, i)
    OBVIOUS
<1> HIDE DEF f, order
<1>9. /\ seq \in Seq(Sections) /\ Distinct(seq)
      /\ IdsOf(seq) = present
      /\ \A r \in ToSet(seq) : r.id \in present /\ r = f[r.id]
      /\ \A r, s \in ToSet(seq) : r.id = s.id => r = s
    <2>1. /\ seq \in Seq(Sections) /\ Distinct(seq)
          /\ IdsOf(seq) = ToSet(order)
          /\ \A r \in ToSet(seq) : r.id \in ToSet(order) /\ r = f[r.id]
          /\ \A r, s \in ToSet(seq) : r.id = s.id => r = s
        BY ONLY <1>5, <1>7, <1>8, SectionsOfPlaces
    <2> QED
        BY <1>5, <2>1
<1>10. \A r \in ToSet(seq) : r.id \in present /\ r = HeadingSection(document, r.id)
    BY <1>a, <1>9
<1>11. IsEntryTree(seq, entries, present)
    BY <1>1, <1>6, <1>9, <1>10 DEF IsEntryTree
<1> QED
    BY <1>6, <1>10, <1>11 DEF seq, entries

-----------------------------------------------------------------------------
(***************************************************************************)
(* Documents.  Whatever the reader, the sections are on the pages of the   *)
(* document, cover it from the first one on, and two of which neither is   *)
(* below the other overlap only where the entries make them.               *)
(***************************************************************************)

\* Where two sections overlap of which the later is not below the other.
ReadsTwice(document, r, s, p) ==
    /\ document.reader = "headings" => p \in {r.start, s.start}
    /\ document.reader = "outline" =>
          \E i, j \in DOMAIN document.entries :
              i < j /\ document.entries[j].page <= document.entries[i].page

OverlapsAsRead(document, seq) ==
    \A r, s \in ToSet(seq) :
        r.id < s.id /\ s.id \notin Below(seq, {r.id}) =>
            \A p \in PagesIn(r) \cap PagesIn(s) : ReadsTwice(document, r, s, p)

IsSectioned(document, seq) ==
    /\ IsForest(seq)
    /\ OnPages(seq, PageCount(document))
    /\ CoversOn(seq, PageCount(document))
    /\ OverlapsAsRead(document, seq)

\* A section of an entry, and what stands in it.
LEMMA TreeMember ==
    ASSUME NEW seq, NEW entries, NEW present, IsEntryTree(seq, entries, present), NEW r \in ToSet(seq)
    PROVE  /\ r.id \in present /\ r.id \in DOMAIN entries /\ r.id \in Nat
           /\ r.start = entries[r.id].page /\ r.start \in Nat /\ r.end \in Nat
<1>1. /\ entries \in Seq(Entries) /\ present \subseteq DOMAIN entries
      /\ seq \in Seq(Sections) /\ IdsOf(seq) = present
      /\ r.start = entries[r.id].page
    BY DEF IsEntryTree
<1>2. r.id \in present
    BY <1>1 DEF IdsOf
<1>3. r.id \in Nat /\ r.start \in Nat /\ r.end \in Nat
    BY <1>1, SectionFacts
<1> QED
    BY <1>1, <1>2, <1>3

\* Of the sections that open on or before a page, one is the last to.
LEMMA LastOpened ==
    ASSUME NEW seq \in Seq(Sections), NEW p \in Nat, \E r \in ToSet(seq) : r.start <= p
    PROVE  \E r \in ToSet(seq) : r.start <= p /\ \A s \in ToSet(seq) : s.start <= p => s.start <= r.start
<1> DEFINE opened == {r \in ToSet(seq) : r.start <= p}
           gaps == {p - r.start : r \in opened}
<1>1. \A r \in ToSet(seq) : r.start \in Nat
    BY SectionFacts
<1>2. gaps \in SUBSET Nat /\ gaps # {}
    <2>1. \A r \in opened : p - r.start \in Nat
        BY <1>1
    <2>2. opened # {}
        OBVIOUS
    <2> HIDE DEF opened
    <2> QED
        BY <2>1, <2>2
<1>3. PICK g \in gaps : \A h \in gaps : g <= h
    BY <1>2, LeastNumber
<1>4. PICK r \in opened : g = p - r.start
    BY <1>3
<1>5. \A s \in opened : p - r.start <= p - s.start
    BY <1>3, <1>4
<1>6. \A s \in opened : s.start <= r.start
    BY <1>1, <1>4, <1>5
<1> QED
    BY <1>4, <1>6

\* An outline.
LEMMA OutlineSectioned ==
    ASSUME NEW document, IsDocument(document), document.reader = "outline",
           \E i \in DOMAIN document.entries : document.entries[i].page # 0
    PROVE  IsSectioned(document, OutlineSections(document))
<1> DEFINE entries == document.entries
           n == PageCount(document)
           seq == OutlineSections(document)
           resolved == {i \in DOMAIN entries : entries[i].page # 0}
           later(i) == {k \in Following(entries, i) : entries[k].page > entries[i].page}
<1>1. n \in Nat /\ entries \in Seq(Entries) /\ \A i \in DOMAIN entries : entries[i].page <= n
    BY DocumentParts
<1>2. IsEntryTree(seq, entries, resolved) /\ \A r \in ToSet(seq) : r.end = OutlineEnd(entries, r.id, n)
    BY OutlineTree
<1> HIDE DEF entries, n, seq
<1>3. IsForest(seq)
    BY <1>2, EntryTreeIsForest
<1>4. ASSUME NEW i \in DOMAIN entries
      PROVE  /\ OutlineEnd(entries, i, n) <= n
             /\ later(i) = {} => OutlineEnd(entries, i, n) = n
             /\ later(i) # {} => \E m \in later(i) :
                   (\A k \in later(i) : m <= k) /\ OutlineEnd(entries, i, n) = entries[m].page - 1
    BY <1>1, OutlineEndFacts
<1>5. ASSUME NEW r \in ToSet(seq)
      PROVE  /\ r.id \in DOMAIN entries /\ r.id \in resolved /\ r.id \in Nat /\ r.start \in Nat
             /\ r.end \in Nat /\ r.start = entries[r.id].page
             /\ r.end = OutlineEnd(entries, r.id, n)
    BY <1>2, TreeMember
<1>6. \A i \in DOMAIN entries : entries[i].page \in Nat
    BY <1>1, EntryFields
<1>7. \A i \in DOMAIN entries : \A k \in later(i) :
          /\ k \in DOMAIN entries /\ i < k /\ k \in Nat
          /\ entries[i].page < entries[k].page /\ k \in resolved
    BY <1>1, <1>6, FollowingFacts
<1>8. OnPages(seq, n)
    <2> SUFFICES ASSUME NEW r \in ToSet(seq) PROVE 1 <= r.start /\ r.end <= n
        BY DEF OnPages
    <2>1. r.start # 0 /\ r.start \in Nat
        BY <1>5
    <2> QED
        BY <1>4, <1>5, <2>1
<1>9. CoversOn(seq, n)
    <2> SUFFICES ASSUME NEW p \in 1 .. n, \E r \in ToSet(seq) : r.start <= p
                 PROVE  \E r \in ToSet(seq) : p \in PagesIn(r)
        <3>1. resolved # {}
            BY DEF entries
        <3>2. ToSet(seq) # {}
            BY <1>2, <3>1 DEF IsEntryTree, IdsOf
        <3> QED
            BY <3>2 DEF CoversOn
    <2>1. seq \in Seq(Sections) /\ p \in Nat /\ p <= n
        BY <1>1, <1>3 DEF IsForest
    <2>2. PICK r \in ToSet(seq) :
              r.start <= p /\ \A s \in ToSet(seq) : s.start <= p => s.start <= r.start
        BY <2>1, LastOpened
    <2> DEFINE i == r.id
    <2>3. i \in DOMAIN entries /\ r.start = entries[i].page /\ r.start \in Nat /\ r.end \in Nat
          /\ r.end = OutlineEnd(entries, i, n)
        BY <1>5
    <2> HIDE DEF i
    <2>4. p <= r.end
        <3>1. CASE later(i) = {}
            BY <1>4, <2>1, <2>3, <3>1
        <3>2. CASE later(i) # {}
            <4>1. PICK m \in later(i) : OutlineEnd(entries, i, n) = entries[m].page - 1
                BY <1>4, <2>3, <3>2
            <4>2. m \in resolved /\ entries[i].page < entries[m].page /\ entries[m].page \in Nat
                BY <1>6, <1>7, <2>3, <4>1
            <4>3. PICK s \in ToSet(seq) : s.id = m
                BY <1>2, <4>2 DEF IsEntryTree, IdsOf
            <4>4. s.start = entries[m].page
                BY <1>5, <4>3
            <4>5. ~(entries[m].page <= p)
                BY <1>6, <2>2, <2>3, <4>2, <4>4
            <4> QED
                BY <2>1, <2>3, <4>1, <4>2, <4>5
        <3> QED
            BY <3>1, <3>2
    <2> QED
        BY <2>1, <2>2, <2>3, <2>4 DEF PagesIn
<1>10. OverlapsAsRead(document, seq)
    <2> SUFFICES ASSUME NEW r \in ToSet(seq), NEW s \in ToSet(seq),
                        r.id < s.id, s.id \notin Below(seq, {r.id}),
                        NEW p \in PagesIn(r) \cap PagesIn(s),
                        \A i, j \in DOMAIN entries : i < j => ~(entries[j].page <= entries[i].page)
                 PROVE  FALSE
        BY DEF OverlapsAsRead, ReadsTwice, entries
    <2> DEFINE i == r.id
               j == s.id
    <2>1. /\ i \in DOMAIN entries /\ i \in resolved /\ i \in Nat
          /\ r.start = entries[i].page /\ r.end = OutlineEnd(entries, i, n)
        BY <1>5
    <2>2. j \in DOMAIN entries /\ j \in resolved /\ j \in Nat /\ s.start = entries[j].page
        BY <1>5
    <2>3. p \in Nat /\ s.start <= p /\ p <= r.end /\ r.end \in Nat
        BY <1>5 DEF PagesIn
    <2>4. i < j /\ j \notin Below(seq, {i})
        OBVIOUS
    <2> HIDE DEF i, j
    <2>5. PICK k \in i + 1 .. j : k \notin resolved \/ k \in Following(entries, i)
        BY <1>2, <2>1, <2>2, <2>4, SomethingBetween
    <2>6. k \in DOMAIN entries /\ k \in Nat /\ i < k /\ k <= j
        BY <1>1, <2>1, <2>2, <2>5
    <2>7. entries[i].page < entries[k].page /\ entries[k].page \in Nat /\ entries[i].page \in Nat
        BY <1>6, <2>1, <2>6
    <2>8. k \in later(i)
        BY <2>5, <2>6, <2>7
    <2>9. PICK m \in later(i) :
              (\A l \in later(i) : m <= l) /\ OutlineEnd(entries, i, n) = entries[m].page - 1
        BY <1>4, <2>1, <2>8
    <2>10. m \in DOMAIN entries /\ m \in Nat /\ m <= k /\ entries[m].page \in Nat
        BY <1>6, <1>7, <2>1, <2>8, <2>9
    <2>11. entries[m].page <= entries[j].page /\ entries[j].page \in Nat
        BY <1>6, <2>2, <2>6, <2>10
    <2> QED
        BY <2>1, <2>2, <2>3, <2>9, <2>10, <2>11
<1> QED
    BY <1>3, <1>8, <1>9, <1>10 DEF IsSectioned, seq, n

\* Headings.
LEMMA HeadingsSectioned ==
    ASSUME NEW document, IsDocument(document), document.reader = "headings",
           document.entries # <<>>
    PROVE  IsSectioned(document, HeadingSections(document))
<1> DEFINE entries == document.entries
           n == PageCount(document)
           seq == HeadingSections(document)
           present == DOMAIN entries
<1>1. n \in Nat /\ entries \in Seq(Entries) /\ \A i \in DOMAIN entries : entries[i].page <= n
    BY DocumentParts
<1>2. IsEntryTree(seq, entries, present) /\ \A r \in ToSet(seq) : r.end = HeadingEnd(entries, r.id, n)
    BY HeadingTree
<1>3. \A i, j \in DOMAIN entries :
          i <= j => 0 < entries[i].page /\ entries[i].page <= entries[j].page
    BY DEF IsDocument
<1> HIDE DEF entries, n, seq
<1>4. IsForest(seq)
    BY <1>2, EntryTreeIsForest
<1>5. Len(entries) \in Nat /\ DOMAIN entries = 1 .. Len(entries)
    BY <1>1
<1>6. \A i \in DOMAIN entries : entries[i].page \in Nat /\ 0 < entries[i].page /\ i \in Nat
    BY <1>1, <1>3, <1>5, EntryFields
<1>7. ASSUME NEW i \in DOMAIN entries
      PROVE  /\ HeadingEnd(entries, i, n) <= n
             /\ Following(entries, i) = {} => HeadingEnd(entries, i, n) = n
             /\ Following(entries, i) # {} =>
                   \E m \in Following(entries, i) :
                      /\ \A k \in Following(entries, i) : m <= k
                      /\ entries[m].page - 1 <= HeadingEnd(entries, i, n)
                      /\ \/ HeadingEnd(entries, i, n) = entries[m].page - 1
                         \/ HeadingEnd(entries, i, n) = entries[i].page
    BY <1>1, <1>6, HeadingEndFacts
<1>8. ASSUME NEW r \in ToSet(seq)
      PROVE  /\ r.id \in DOMAIN entries /\ r.id \in Nat /\ r.start \in Nat
             /\ r.end \in Nat /\ r.start = entries[r.id].page
             /\ r.end = HeadingEnd(entries, r.id, n)
    BY <1>2, TreeMember
<1>9. OnPages(seq, n)
    <2> SUFFICES ASSUME NEW r \in ToSet(seq) PROVE 1 <= r.start /\ r.end <= n
        BY DEF OnPages
    <2>1. 0 < r.start /\ r.start \in Nat
        BY <1>6, <1>8
    <2> QED
        BY <1>7, <1>8, <2>1
<1>10. CoversOn(seq, n)
    <2> SUFFICES ASSUME NEW p \in 1 .. n, \E r \in ToSet(seq) : r.start <= p
                 PROVE  \E r \in ToSet(seq) : p \in PagesIn(r)
        <3>1. present # {}
            <4>1. entries # <<>>
                BY DEF entries
            <4> HIDE DEF entries
            <4> QED
                BY <1>1, <4>1
        <3>2. ToSet(seq) # {}
            BY <1>2, <3>1 DEF IsEntryTree, IdsOf
        <3> QED
            BY <3>2 DEF CoversOn
    <2>1. seq \in Seq(Sections) /\ p \in Nat /\ p <= n
        BY <1>1, <1>4 DEF IsForest
    <2> DEFINE opened == {i \in present : entries[i].page <= p}
    <2>2. opened # {} /\ opened \in SUBSET Nat /\ \A i \in opened : i <= Len(entries)
        <3>1. PICK r \in ToSet(seq) : r.start <= p
            OBVIOUS
        <3>2. r.id \in opened
            BY <1>8, <3>1
        <3> QED
            BY <1>5, <1>6, <3>2
    <2>3. PICK i \in opened : \A k \in opened : k <= i
        <3> DEFINE gaps == {Len(entries) - i : i \in opened}
        <3> HIDE DEF opened
        <3>1. gaps \in SUBSET Nat /\ gaps # {}
            <4>1. \A k \in opened : Len(entries) - k \in Nat
                BY <1>5, <2>2
            <4> QED
                BY <2>2, <4>1
        <3>2. PICK g \in gaps : \A h \in gaps : g <= h
            BY <3>1, LeastNumber
        <3>3. PICK i \in opened : g = Len(entries) - i
            BY <3>2
        <3>4. \A k \in opened : Len(entries) - i <= Len(entries) - k
            BY <3>2, <3>3
        <3>5. \A k \in opened : k <= i
            BY <1>5, <2>2, <3>3, <3>4
        <3> QED
            BY <3>5
    <2>4. i \in DOMAIN entries /\ entries[i].page <= p /\ i \in Nat
        BY <1>6, <2>3
    <2>5. PICK r \in ToSet(seq) : r.id = i
        BY <1>2, <2>4 DEF IsEntryTree, IdsOf
    <2>6. r.start = entries[i].page /\ r.start \in Nat /\ r.end \in Nat /\ r.end = HeadingEnd(entries, i, n)
        BY <1>8, <2>5
    <2>7. p <= r.end
        <3>1. CASE Following(entries, i) = {}
            BY <1>7, <2>1, <2>4, <2>6, <3>1
        <3>2. CASE Following(entries, i) # {}
            <4>1. PICK m \in Following(entries, i) : entries[m].page - 1 <= HeadingEnd(entries, i, n)
                BY <1>7, <2>4, <3>2
            <4>2. m \in DOMAIN entries /\ i < m
                BY <1>1, <2>4, <4>1, FollowingFacts
            <4>3. entries[m].page \in Nat /\ m \in Nat
                BY <1>6, <4>2
            <4>4. m \notin opened
                BY <2>3, <2>4, <4>2, <4>3
            <4>5. ~(entries[m].page <= p)
                BY <4>2, <4>4
            <4> QED
                BY <2>1, <2>6, <4>1, <4>3, <4>5
        <3> QED
            BY <3>1, <3>2
    <2> QED
        BY <2>1, <2>4, <2>5, <2>6, <2>7 DEF PagesIn
<1>11. OverlapsAsRead(document, seq)
    <2> SUFFICES ASSUME NEW r \in ToSet(seq), NEW s \in ToSet(seq),
                        r.id < s.id, s.id \notin Below(seq, {r.id}),
                        NEW p \in PagesIn(r) \cap PagesIn(s)
                 PROVE  p = r.start
        BY DEF OverlapsAsRead, ReadsTwice
    <2> DEFINE i == r.id
               j == s.id
    <2>1. /\ i \in DOMAIN entries /\ i \in Nat
          /\ r.start = entries[i].page /\ r.end = HeadingEnd(entries, i, n)
        BY <1>8
    <2>2. j \in DOMAIN entries /\ j \in Nat /\ s.start = entries[j].page
        BY <1>8
    <2>3. /\ p \in Nat /\ s.start <= p /\ p <= r.end /\ r.end \in Nat
          /\ r.start <= p /\ r.start \in Nat
        BY <1>8 DEF PagesIn
    <2>4. i < j /\ j \notin Below(seq, {i})
        OBVIOUS
    <2> HIDE DEF i, j
    <2>5. PICK k \in i + 1 .. j : k \notin present \/ k \in Following(entries, i)
        BY <1>2, <2>1, <2>2, <2>4, SomethingBetween
    <2>6. k \in DOMAIN entries /\ k \in Nat /\ i < k /\ k <= j /\ k \in Following(entries, i)
        BY <1>5, <2>1, <2>2, <2>5
    <2>7. PICK m \in Following(entries, i) :
              /\ \A l \in Following(entries, i) : m <= l
              /\ \/ HeadingEnd(entries, i, n) = entries[m].page - 1
                 \/ HeadingEnd(entries, i, n) = entries[i].page
        BY <1>7, <2>1, <2>6
    <2>8. m \in DOMAIN entries /\ m \in Nat /\ m <= k /\ entries[m].page \in Nat
        BY <1>1, <1>6, <2>1, <2>6, <2>7, FollowingFacts
    <2>9. m <= j
        BY <2>2, <2>6, <2>8
    <2>10. entries[m].page <= entries[j].page /\ entries[j].page \in Nat
        BY <1>3, <1>6, <2>2, <2>8, <2>9
    <2>11. r.end # entries[m].page - 1
        BY <2>2, <2>3, <2>8, <2>10
    <2> QED
        BY <2>1, <2>3, <2>7, <2>11
<1> QED
    BY <1>4, <1>9, <1>10, <1>11 DEF IsSectioned, seq, n

\* Equal spans.
LEMMA ChunksSectioned ==
    ASSUME NEW document, IsDocument(document), NEW size \in Nat \ {0}
    PROVE  IsSectioned(document, Chunks(PageCount(document), size))
<1> DEFINE n == PageCount(document)
           seq == Chunks(n, size)
<1>1. n \in Nat
    BY DocumentParts
<1> HIDE DEF n
<1>2. /\ IsForest(seq) /\ OnPages(seq, n) /\ CoversOn(seq, n)
      /\ \A r, s \in ToSet(seq) : r # s => PagesIn(r) \cap PagesIn(s) = {}
    BY <1>1, ChunksFacts
<1> HIDE DEF seq
<1>3. OverlapsAsRead(document, seq)
    <2>1. \A r \in ToSet(seq) : r.id \in Nat
        BY <1>2, SectionFacts DEF IsForest
    <2>2. \A r, s \in ToSet(seq) : r.id < s.id => r # s
        BY <2>1
    <2> QED
        BY <1>2, <2>2 DEF OverlapsAsRead
<1> QED
    BY <1>2, <1>3 DEF IsSectioned, seq, n

\* Every document.
LEMMA DocumentSectioned ==
    ASSUME NEW document, IsDocument(document)
    PROVE  IsSectioned(document, SectionsOf(document))
<1> DEFINE n == PageCount(document)
           sixth == CeilDiv(n, 6)
<1>1. n \in Nat
    BY DocumentParts
<1> HIDE DEF n
<1>2. sixth \in Nat
    BY <1>1, CeilDivBounds
<1> HIDE DEF sixth
<1>3. Max({5, sixth}) \in Nat \ {0} /\ Max({1, sixth}) \in Nat \ {0}
    <2>1. Max({5, sixth}) \in Nat /\ 5 <= Max({5, sixth})
        BY <1>2, MaxOfTwo
    <2>2. Max({1, sixth}) \in Nat /\ 1 <= Max({1, sixth})
        BY <1>2, MaxOfTwo
    <2> QED
        BY <2>1, <2>2
<1>4. IsSectioned(document, Chunks(n, Max({5, sixth}))) /\ IsSectioned(document, Chunks(n, Max({1, sixth})))
    BY <1>3, ChunksSectioned DEF n
<1>5. CASE document.reader = "outline"
    <2>1. SectionsOf(document) = OutlineSections(document)
        BY <1>5 DEF SectionsOf
    <2>2. CASE \E i \in DOMAIN document.entries : document.entries[i].page # 0
        BY <1>5, <2>1, <2>2, OutlineSectioned
    <2>3. CASE \A i \in DOMAIN document.entries : document.entries[i].page = 0
        <3>1. {i \in DOMAIN document.entries : document.entries[i].page # 0} = {}
            BY <2>3
        <3>2. OutlineSections(document) = Chunks(n, Max({5, sixth}))
            BY <3>1 DEF OutlineSections, n, sixth
        <3> QED
            BY <1>4, <2>1, <3>2
    <2> QED
        BY <2>2, <2>3
<1>6. CASE document.reader = "headings"
    <2>1. SectionsOf(document) = HeadingSections(document)
        BY <1>6 DEF SectionsOf
    <2>2. CASE document.entries = <<>>
        <3>1. HeadingSections(document) = Chunks(n, Max({1, sixth}))
            BY <2>2 DEF HeadingSections, n, sixth
        <3> QED
            BY <1>4, <2>1, <3>1
    <2> QED
        BY <1>6, <2>1, <2>2, HeadingsSectioned
<1> QED
    BY <1>5, <1>6 DEF IsDocument

-----------------------------------------------------------------------------
(***************************************************************************)
(* Selections.  What a request ticks is read, and expanded to the least    *)
(* set of sections around it that has all below each.                      *)
(***************************************************************************)

\* What is below some sections depends on the rows, whatever their order.
LEMMA BelowSame ==
    ASSUME NEW seq \in Seq(Sections), NEW other \in Seq(Sections), ToSet(seq) = ToSet(other),
           NEW ids, IsFiniteSet(ids)
    PROVE  Below(seq, ids) = Below(other, ids)
<1>1. \A D : Closed(seq, D) <=> Closed(other, D)
    BY DEF Closed, Children
<1>2. /\ ids \subseteq Below(seq, ids) /\ Closed(seq, Below(seq, ids))
      /\ \A D : ids \subseteq D /\ Closed(seq, D) => Below(seq, ids) \subseteq D
    BY BelowFacts
<1>3. /\ ids \subseteq Below(other, ids) /\ Closed(other, Below(other, ids))
      /\ \A D : ids \subseteq D /\ Closed(other, D) => Below(other, ids) \subseteq D
    BY BelowFacts
<1> QED
    BY <1>1, <1>2, <1>3

\* The stored rows are the sections of the document.
LEMMA StoredSectioned ==
    ASSUME NEW document, IsDocument(document)
    PROVE  IsSectioned(document, StoredRows(document))
<1> DEFINE seq == SectionsOf(document)
           rows == StoredRows(document)
<1>1. IsSectioned(document, seq)
    BY DocumentSectioned
<1> HIDE DEF seq, rows
<1>2. IsForest(rows) /\ ToSet(rows) = ToSet(seq)
    BY <1>1, FlattenedForest DEF IsSectioned, StoredRows, rows, seq
<1>3. seq \in Seq(Sections) /\ rows \in Seq(Sections)
    BY <1>1, <1>2 DEF IsSectioned, IsForest
<1>4. \A id : IsFiniteSet({id})
    BY FS_Singleton
<1>5. \A id : Below(rows, {id}) = Below(seq, {id})
    BY <1>2, <1>3, <1>4, BelowSame
<1>6. OverlapsAsRead(document, rows)
    BY <1>1, <1>2, <1>5 DEF IsSectioned, OverlapsAsRead
<1> QED
    BY <1>1, <1>2, <1>6 DEF IsSectioned, OnPages, CoversOn, rows

\* Members that are all different are as many as there are places.
LEMMA DistinctCounts ==
    ASSUME NEW T, NEW seq \in Seq(T), Distinct(seq)
    PROVE  Cardinality(ToSet(seq)) = Len(seq)
<1> DEFINE n == Len(seq)
           f == [i \in 1 .. n |-> seq[i]]
<1>1. n \in Nat /\ DOMAIN seq = 1 .. n
    OBVIOUS
<1>2. ToSet(seq) = {f[i] : i \in 1 .. n}
    BY <1>1 DEF ToSet
<1>3. \A i, j \in 1 .. n : f[i] = f[j] => i = j
    BY <1>1 DEF Distinct
<1> HIDE DEF n
<1>4. f \in Bijection(1 .. n, ToSet(seq))
    BY <1>2, <1>3 DEF Bijection, Injection, Surjection, IsInjective
<1>5. ExistsBijection(1 .. n, ToSet(seq))
    BY <1>4 DEF ExistsBijection
<1> QED
    BY <1>1, <1>5, FS_CountingElements DEF n

\* What is read of a request names rows that are ticked, and all of them when
\* they are not too many.
LEMMA SelectedFacts ==
    ASSUME NEW rows, IsForest(rows), NEW ticked
    PROVE  /\ SelectedIds(rows, ticked) \subseteq ticked \cap IdsOf(rows)
           /\ Cardinality(ticked \cap IdsOf(rows)) <= MaxSelected
                 => SelectedIds(rows, ticked) = ticked \cap IdsOf(rows)
<1> DEFINE shown == Flattened(rows)
           places == [k \in DOMAIN shown |-> shown[k].id]
           ids == Only(ticked, places)
           n == Len(ids)
           most == Min({MaxSelected, n})
<1>1. SelectedIds(rows, ticked) = ToSet(SubSeq(ids, 1, most))
    BY DEF SelectedIds
<1>2. IsForest(shown) /\ ToSet(shown) = ToSet(rows)
    BY FlattenedForest
<1> HIDE DEF shown
<1>3. shown \in Seq(Sections) /\ Distinct(shown) /\ \A r, s \in ToSet(shown) : r.id = s.id => r = s
    BY <1>2 DEF IsForest
<1>4. Len(shown) \in Nat /\ DOMAIN shown = 1 .. Len(shown)
      /\ \A k \in DOMAIN shown : shown[k] \in ToSet(shown)
    BY <1>3 DEF ToSet
<1>5. places \in Seq(Nat)
    <2>1. \A k \in 1 .. Len(shown) : places[k] \in Nat
        BY <1>3, <1>4, SectionFacts
    <2> QED
        BY <1>4, <2>1, IsASeq
<1>6. Distinct(places)
    <2>1. \A k, l \in DOMAIN shown : places[k] = places[l] => shown[k] = shown[l]
        BY <1>3, <1>4
    <2> QED
        BY <1>3, <2>1 DEF Distinct
<1>7. ToSet(places) = IdsOf(rows)
    <2>1. ToSet(places) = {shown[k].id : k \in DOMAIN shown}
        BY DEF ToSet
    <2>2. ToSet(shown) = {shown[k] : k \in DOMAIN shown}
        BY DEF ToSet
    <2> QED
        BY <1>2, <2>1, <2>2 DEF IdsOf
<1> HIDE DEF places
<1>8. ids \in Seq(Nat) /\ Distinct(ids) /\ ToSet(ids) = ticked \cap IdsOf(rows)
    BY <1>5, <1>6, <1>7, OnlyFacts
<1> HIDE DEF ids
<1>9. n \in Nat /\ DOMAIN ids = 1 .. n /\ Cardinality(ToSet(ids)) = n
    <2>1. Len(ids) \in Nat /\ DOMAIN ids = 1 .. Len(ids)
        BY <1>8
    <2>2. Cardinality(ToSet(ids)) = Len(ids)
        BY <1>8, DistinctCounts
    <2> QED
        BY <2>1, <2>2
<1> HIDE DEF n
<1>10. MaxSelected \in Nat
    BY OutlineAssumption
<1>11. most \in Nat /\ most <= n /\ (n <= MaxSelected => most = n)
    BY <1>9, <1>10, MinOfTwo
<1> HIDE DEF most
<1>12. \A i \in 1 .. most : ids[i] \in ToSet(ids) /\ ids[i] \in Nat
    BY <1>8, <1>9, <1>11 DEF ToSet
<1>13. ToSet(SubSeq(ids, 1, most)) \subseteq ToSet(ids)
    <2> DEFINE read == SubSeq(ids, 1, most)
    <2>1. Len(read) = most /\ read \in Seq(Nat) /\ \A i \in 1 .. most : read[i] = ids[i]
        BY <1>11, <1>12, SubSeqProperties
    <2> HIDE DEF read
    <2>2. DOMAIN read = 1 .. most
        BY <2>1
    <2>3. ToSet(read) \subseteq ToSet(ids)
        BY <1>12, <2>1, <2>2 DEF ToSet
    <2> QED
        BY <2>3 DEF read
<1>14. n <= MaxSelected => SubSeq(ids, 1, most) = ids
    BY <1>8, <1>11, SubSeqFull DEF n
<1> QED
    BY <1>1, <1>8, <1>9, <1>13, <1>14

\* With a section, those below it are expanded; and what the selection
\* becomes is the least such set around it, or everything.
LEMMA ExpandedFacts ==
    ASSUME NEW rows, IsForest(rows), NEW ids \in SUBSET IdsOf(rows),
           NEW E, E = ExpandSelectedSections(rows, ids)
    PROVE  /\ E \subseteq IdsOf(rows) /\ ids \subseteq E
           /\ \A r \in ToSet(rows) : r.parent \in E => r.id \in E
           /\ ids = {} => E = IdsOf(rows)
           /\ ids # {} => \A S : ids \subseteq S /\ (\A r \in ToSet(rows) : r.parent \in S => r.id \in S)
                                    => E \subseteq S
<1>1. rows \in Seq(Sections)
    BY DEF IsForest
<1>2. IsFiniteSet(IdsOf(rows))
    BY <1>1, MembersFinite DEF IdsOf
<1>3. IsFiniteSet(ids)
    BY <1>2, FS_Subset
<1>4. \A D : Closed(rows, D) <=> \A r \in ToSet(rows) : r.parent \in D => r.id \in D
    BY DEF Closed, Children
<1>5. /\ ids \subseteq Below(rows, ids) /\ Closed(rows, Below(rows, ids))
      /\ \A D : ids \subseteq D /\ Closed(rows, D) => Below(rows, ids) \subseteq D
      /\ Below(rows, ids) \subseteq ids \cup IdsOf(rows)
    BY <1>1, <1>3, BelowFacts DEF IdsOf
<1>6. CASE ids = {}
    <2>1. E = IdsOf(rows)
        BY <1>6 DEF ExpandSelectedSections, IdsOf
    <2>2. \A r \in ToSet(rows) : r.id \in E
        BY <2>1 DEF IdsOf
    <2> QED
        BY <1>6, <2>1, <2>2
<1>7. CASE ids # {}
    <2>1. E = Below(rows, ids)
        BY <1>7 DEF ExpandSelectedSections
    <2> QED
        BY <1>4, <1>5, <1>7, <2>1
<1> QED
    BY <1>6, <1>7

-----------------------------------------------------------------------------
(***************************************************************************)
(* Scopes.  Taking from a section the pages of those below it loses no     *)
(* page: the chosen section of the greatest id that has it keeps it.       *)
(***************************************************************************)

Scopes == [id : Nat, pages : SUBSET Nat]

\* The rows of a selection, and what is left of the pages of one.
ChosenRows(rows, ids) == Only({r \in ToSet(rows) : r.id \in ids}, rows)
Claimed(chosen, row) ==
    UNION {PagesIn(r) : r \in {r \in ToSet(chosen) : r.id \in Below(chosen, {row.id}) \ {row.id}}}
ScopeOf(chosen, row) == [id |-> row.id, pages |-> PagesIn(row) \ Claimed(chosen, row)]
AllScopes(chosen) == [k \in DOMAIN chosen |-> ScopeOf(chosen, chosen[k])]

\* The rows chosen, in which more is below a section than in all rows.
LEMMA ChosenFacts ==
    ASSUME NEW rows, IsForest(rows), NEW E,
           \A r \in ToSet(rows) : r.parent \in E => r.id \in E,
           NEW chosen, chosen = ChosenRows(rows, E)
    PROVE  /\ chosen \in Seq(Sections)
           /\ ToSet(chosen) = {r \in ToSet(rows) : r.id \in E}
           /\ \A r \in ToSet(chosen) : /\ r \in Sections /\ r.id \in Nat /\ r.parent < r.id
                                       /\ r.start \in Nat /\ r.end \in Nat
           /\ \A r, s \in ToSet(chosen) : r.id = s.id => r = s
           /\ \A b \in ToSet(chosen) : Below(rows, {b.id}) \subseteq Below(chosen, {b.id})
<1>1. /\ rows \in Seq(Sections)
      /\ \A r, s \in ToSet(rows) : r.id = s.id => r = s
      /\ \A r \in ToSet(rows) : r.parent < r.id
    BY DEF IsForest
<1>2. chosen \in Seq(Sections) /\ ToSet(chosen) = {r \in ToSet(rows) : r.id \in E}
    <2> DEFINE S == {r \in ToSet(rows) : r.id \in E}
    <2>1. Only(S, rows) \in Seq(Sections) /\ ToSet(Only(S, rows)) = ToSet(rows) \cap S
        BY <1>1, OnlyFacts
    <2> QED
        BY <2>1 DEF ChosenRows
<1>3. \A r \in ToSet(rows) : r \in Sections /\ r.id \in Nat /\ r.start \in Nat /\ r.end \in Nat
    BY <1>1, SectionFacts
<1>4. ASSUME NEW b \in ToSet(chosen) PROVE Below(rows, {b.id}) \subseteq Below(chosen, {b.id})
    <2> DEFINE D == Below(chosen, {b.id})
    <2>1. IsFiniteSet({b.id}) /\ b.id \in Nat
        BY <1>2, <1>3, FS_Singleton
    <2>2. {b.id} \subseteq D /\ Closed(chosen, D) /\ D \subseteq {b.id} \cup {r.id : r \in ToSet(chosen)}
        BY <1>2, <2>1, BelowFacts
    <2> HIDE DEF D
    <2>3. D \subseteq E /\ b.id \in D
        BY <1>2, <2>2
    <2>4. ASSUME NEW r \in ToSet(rows), r.parent \in D PROVE r.id \in D
        <3>1. r \in ToSet(chosen)
            BY <1>2, <2>3, <2>4
        <3> QED
            BY <2>2, <2>4, <3>1 DEF Closed, Children
    <2>5. \A X : b.id \in X /\ (\A r \in ToSet(rows) : r.parent \in X => r.id \in X)
                    => Below(rows, {b.id}) \subseteq X
        BY <1>1, <2>1, BelowOne
    <2>6. Below(rows, {b.id}) \subseteq D
        BY <2>3, <2>4, <2>5
    <2> QED
        BY <2>6 DEF D
<1> QED
    BY <1>1, <1>2, <1>3, <1>4

\* The scopes of a selection are those of its rows that keep a page.
LEMMA ScopesListed ==
    ASSUME NEW rows, NEW E, NEW chosen, chosen = ChosenRows(rows, E), chosen \in Seq(Sections)
    PROVE  /\ BuildSectionScopes(rows, E) \in Seq(Scopes)
           /\ ToSet(BuildSectionScopes(rows, E))
                 = {s \in {ScopeOf(chosen, r) : r \in ToSet(chosen)} : s.pages # {}}
<1> DEFINE all == AllScopes(chosen)
           S == {scope \in ToSet(all) : scope.pages # {}}
<1>1. BuildSectionScopes(rows, E) = Only(S, all)
    BY DEF BuildSectionScopes, ChosenRows, AllScopes, ScopeOf, Claimed
<1>2. /\ Len(chosen) \in Nat /\ DOMAIN chosen = 1 .. Len(chosen)
      /\ \A k \in DOMAIN chosen : chosen[k] \in ToSet(chosen)
    BY DEF ToSet
<1>3. \A r \in ToSet(chosen) : r.id \in Nat /\ PagesIn(r) \subseteq Nat
    <2>1. \A r \in ToSet(chosen) : r.id \in Nat /\ r.start \in Nat /\ r.end \in Nat
        BY SectionFacts
    <2> QED
        BY <2>1 DEF PagesIn
<1>4. \A r \in ToSet(chosen) : ScopeOf(chosen, r) \in Scopes
    BY <1>3 DEF ScopeOf, Scopes
<1>5. /\ DOMAIN all = DOMAIN chosen /\ all = [k \in 1 .. Len(chosen) |-> all[k]]
      /\ \A k \in DOMAIN chosen : all[k] = ScopeOf(chosen, chosen[k])
    BY <1>2 DEF AllScopes
<1> HIDE DEF all
<1>6. \A k \in 1 .. Len(chosen) : all[k] \in Scopes
    BY <1>2, <1>4, <1>5
<1>7. all \in Seq(Scopes)
    BY <1>2, <1>5, <1>6, IsASeq
<1>8. ToSet(all) = {ScopeOf(chosen, r) : r \in ToSet(chosen)}
    <2>1. ToSet(all) = {all[k] : k \in DOMAIN chosen} /\ ToSet(chosen) = {chosen[k] : k \in DOMAIN chosen}
        BY <1>5 DEF ToSet
    <2>2. ASSUME NEW s \in ToSet(all) PROVE s \in {ScopeOf(chosen, r) : r \in ToSet(chosen)}
        <3>1. PICK k \in DOMAIN chosen : s = all[k]
            BY <2>1
        <3>2. s = ScopeOf(chosen, chosen[k]) /\ chosen[k] \in ToSet(chosen)
            BY <1>2, <1>5, <3>1
        <3> QED
            BY <3>2
    <2>3. ASSUME NEW r \in ToSet(chosen) PROVE ScopeOf(chosen, r) \in ToSet(all)
        <3>1. PICK k \in DOMAIN chosen : chosen[k] = r
            BY <2>1
        <3>2. all[k] = ScopeOf(chosen, r)
            BY <1>5, <3>1
        <3> QED
            BY <2>1, <3>2
    <2> QED
        BY <2>2, <2>3
<1>9. Only(S, all) \in Seq(Scopes) /\ ToSet(Only(S, all)) = ToSet(all) \cap S
    BY <1>7, OnlyFacts
<1> QED
    BY <1>1, <1>8, <1>9

\* The scopes carry the pages of the rows chosen, those of one row each, and
\* none of a row and of one below it.
LEMMA ScopesFacts ==
    ASSUME NEW rows, IsForest(rows), NEW E,
           \A r \in ToSet(rows) : r.parent \in E => r.id \in E,
           NEW scopes, scopes = BuildSectionScopes(rows, E)
    PROVE  /\ scopes \in Seq(Scopes)
           /\ UNION {s.pages : s \in ToSet(scopes)}
                 = UNION {PagesIn(r) : r \in {q \in ToSet(rows) : q.id \in E}}
           /\ \A s \in ToSet(scopes) : \E r \in ToSet(rows) : s.id = r.id /\ s.pages \subseteq PagesIn(r)
           /\ \A s, t \in ToSet(scopes) : s.id = t.id => s = t
           /\ \A s, t \in ToSet(scopes) :
                 s # t /\ s.id \in Below(rows, {t.id}) => s.pages \cap t.pages = {}
<1> DEFINE chosen == ChosenRows(rows, E)
           scope(r) == ScopeOf(chosen, r)
<1>1. /\ chosen \in Seq(Sections)
      /\ ToSet(chosen) = {r \in ToSet(rows) : r.id \in E}
      /\ \A r \in ToSet(chosen) : /\ r \in Sections /\ r.id \in Nat /\ r.parent < r.id
                                  /\ r.start \in Nat /\ r.end \in Nat
      /\ \A r, s \in ToSet(chosen) : r.id = s.id => r = s
      /\ \A b \in ToSet(chosen) : Below(rows, {b.id}) \subseteq Below(chosen, {b.id})
    BY ChosenFacts
<1> HIDE DEF chosen
<1>2. /\ scopes \in Seq(Scopes)
      /\ ToSet(scopes) = {s \in {scope(r) : r \in ToSet(chosen)} : s.pages # {}}
    BY <1>1, ScopesListed DEF chosen
<1>3. \A r : scope(r).id = r.id /\ scope(r).pages = PagesIn(r) \ Claimed(chosen, r)
    BY DEF ScopeOf
<1>4. \A s \in ToSet(scopes) : \E r \in ToSet(chosen) : s = scope(r)
    BY <1>2
<1> HIDE DEF scope
<1>5. \A s \in ToSet(scopes) : \E r \in ToSet(chosen) : s.id = r.id /\ s.pages \subseteq PagesIn(r)
    BY <1>3, <1>4
<1>6. \A s, t \in ToSet(scopes) : s.id = t.id => s = t
    <2> SUFFICES ASSUME NEW s \in ToSet(scopes), NEW t \in ToSet(scopes), s.id = t.id PROVE s = t
        OBVIOUS
    <2>1. PICK r \in ToSet(chosen) : s = scope(r)
        BY <1>4
    <2>2. PICK q \in ToSet(chosen) : t = scope(q)
        BY <1>4
    <2>3. r.id = q.id
        BY <1>3, <2>1, <2>2
    <2> QED
        BY <1>1, <2>1, <2>2, <2>3
<1>7. ASSUME NEW s \in ToSet(scopes), NEW t \in ToSet(scopes), s # t, s.id \in Below(rows, {t.id})
      PROVE  s.pages \cap t.pages = {}
    <2>1. PICK r \in ToSet(chosen) : s = scope(r)
        BY <1>4
    <2>2. PICK q \in ToSet(chosen) : t = scope(q)
        BY <1>4
    <2>3. r.id \in Below(chosen, {q.id}) \ {q.id}
        <3>1. s.id = r.id /\ t.id = q.id
            BY <1>3, <2>1, <2>2
        <3>2. r.id # q.id
            BY <1>6, <1>7, <3>1
        <3> QED
            BY <1>1, <1>7, <3>1, <3>2
    <2>4. PagesIn(r) \subseteq Claimed(chosen, q)
        BY <2>3 DEF Claimed
    <2> QED
        BY <1>3, <2>1, <2>2, <2>4
<1>8. ASSUME NEW r \in ToSet(chosen), NEW p \in PagesIn(r)
      PROVE  \E s \in ToSet(scopes) : p \in s.pages
    <2> DEFINE having == {q.id : q \in {q \in ToSet(chosen) : p \in PagesIn(q)}}
    <2>1. PICK n \in Nat : \A d \in {0} \cup IdsOf(chosen) : d \in Nat /\ d <= n
        BY <1>1, PlacesBounded
    <2>2. having # {} /\ \A d \in having : d \in Nat /\ d <= n
        <3>1. r.id \in having
            BY <1>8
        <3>2. \A d \in having : d \in IdsOf(chosen)
            BY DEF IdsOf
        <3> QED
            BY <2>1, <3>1, <3>2
    <2>3. PICK d \in having : \A e \in having : e <= d
        <3> DEFINE gaps == {n - e : e \in having}
        <3> HIDE DEF having
        <3>1. gaps \in SUBSET Nat /\ gaps # {}
            <4>1. \A e \in having : n - e \in Nat
                BY <2>1, <2>2
            <4> QED
                BY <2>2, <4>1
        <3>2. PICK g \in gaps : \A h \in gaps : g <= h
            BY <3>1, LeastNumber
        <3>3. PICK d \in having : g = n - d
            BY <3>2
        <3>4. \A e \in having : n - d <= n - e
            BY <3>2, <3>3
        <3>5. \A e \in having : e <= d
            BY <2>1, <2>2, <3>3, <3>4
        <3> QED
            BY <3>5
    <2>4. PICK q \in ToSet(chosen) : q.id = d /\ p \in PagesIn(q)
        BY <2>3
    <2>5. p \notin Claimed(chosen, q)
        <3> SUFFICES ASSUME NEW u \in ToSet(chosen), u.id \in Below(chosen, {q.id}) \ {q.id},
                            p \in PagesIn(u)
                     PROVE  FALSE
            BY DEF Claimed
        <3>1. u.id \in having
            OBVIOUS
        <3>2. u.id <= q.id
            BY <2>3, <2>4, <3>1
        <3>3. q.id <= u.id
            BY <1>1, BelowOne
        <3>4. u.id \in Nat /\ q.id \in Nat
            BY <1>1
        <3> QED
            BY <3>2, <3>3, <3>4
    <2>6. p \in scope(q).pages
        BY <1>3, <2>4, <2>5
    <2>7. scope(q) \in ToSet(scopes)
        BY <1>2, <2>6
    <2> QED
        BY <2>6, <2>7
<1>9. UNION {s.pages : s \in ToSet(scopes)} = UNION {PagesIn(r) : r \in ToSet(chosen)}
    BY <1>5, <1>8
<1>10. \A s \in ToSet(scopes) : \E r \in ToSet(rows) : s.id = r.id /\ s.pages \subseteq PagesIn(r)
    BY <1>1, <1>5
<1> QED
    BY <1>1, <1>2, <1>6, <1>7, <1>9, <1>10

-----------------------------------------------------------------------------
(***************************************************************************)
(* Runs.  What is sent of the sections chosen.                             *)
(***************************************************************************)

\* The pages of a scope that have text, and the scope as a call carries it.
Readable(document, scope) == {p \in scope.pages : document.chars[p] > 0}
LoadedScope(document, scope) ==
    [id         |-> scope.id,
     pages      |-> Readable(document, scope),
     characters |-> CharsOf(document, Readable(document, scope))]
WordedScopes(document, scopes) ==
    Only({scope \in ToSet(scopes) : Readable(document, scope) # {}}, scopes)
LoadedFrom(document, scopes) ==
    {LoadedScope(document, s) : s \in {s \in ToSet(scopes) : Readable(document, s) # {}}}
AllLoaded(document, worded) == [k \in DOMAIN worded |-> LoadedScope(document, worded[k])]

\* The characters on some pages.
LEMMA CharsAreNat ==
    ASSUME NEW document, document.chars \in Seq(Nat), NEW pages
    PROVE  CharsOf(document, pages) \in Nat
<1> DEFINE chars == document.chars
           sizes == [p \in DOMAIN chars |-> IF p \in pages THEN chars[p] ELSE 0]
<1>1. Len(chars) \in Nat /\ DOMAIN chars = 1 .. Len(chars) /\ \A p \in DOMAIN chars : chars[p] \in Nat
    OBVIOUS
<1>2. CharsOf(document, pages) = SumOf(sizes)
    BY DEF CharsOf
<1> HIDE DEF chars
<1>3. \A p \in 1 .. Len(chars) : sizes[p] \in Nat
    BY <1>1
<1>4. sizes \in Seq(Nat)
    BY <1>1, <1>3, IsASeq
<1> HIDE DEF sizes
<1> QED
    BY <1>2, <1>4, SumFacts

\* A plan carries what is readable of every scope that has text, and its
\* calls fit.
LEMMA PlanFacts ==
    ASSUME NEW document, document.chars \in Seq(Nat), NEW scopes \in Seq(Scopes),
           NEW plan, plan = PlanConceptBatches(document, scopes)
    PROVE  /\ UNION {ToSet(batch) : batch \in ToSet(plan)} = LoadedFrom(document, scopes)
           /\ \A batch \in ToSet(plan) : Fits(batch)
<1> DEFINE worded == WordedScopes(document, scopes)
           loaded == AllLoaded(document, worded)
           last == Packed(loaded)[Len(loaded)]
           W == {s \in ToSet(scopes) : Readable(document, s) # {}}
<1>1. plan = IF last.current = <<>> THEN last.batches ELSE Append(last.batches, last.current)
    BY DEF PlanConceptBatches, WordedScopes, AllLoaded, LoadedScope, Readable
<1>2. worded \in Seq(Scopes) /\ ToSet(worded) = W
    <2>1. Only(W, scopes) \in Seq(Scopes) /\ ToSet(Only(W, scopes)) = ToSet(scopes) \cap W
        BY OnlyFacts
    <2> QED
        BY <2>1 DEF WordedScopes
<1> HIDE DEF worded
<1>3. /\ Len(worded) \in Nat /\ DOMAIN worded = 1 .. Len(worded)
      /\ \A k \in DOMAIN worded : worded[k] \in Scopes
    BY <1>2
<1>4. ToSet(worded) = {worded[k] : k \in DOMAIN worded}
    BY DEF ToSet
<1>5. /\ DOMAIN loaded = DOMAIN worded /\ loaded = [k \in 1 .. Len(worded) |-> loaded[k]]
      /\ \A k \in DOMAIN worded : loaded[k] = LoadedScope(document, worded[k])
    BY <1>3 DEF AllLoaded
<1> HIDE DEF loaded
<1>6. \A s \in Scopes : LoadedScope(document, s) \in LoadedScopes
    <2> TAKE s \in Scopes
    <2>1. s.id \in Nat /\ Readable(document, s) \in SUBSET Nat
        BY DEF Scopes, Readable
    <2>2. CharsOf(document, Readable(document, s)) \in Nat
        BY CharsAreNat
    <2> QED
        BY <2>1, <2>2 DEF LoadedScope, LoadedScopes
<1>7. loaded \in Seq(LoadedScopes)
    <2>1. \A k \in 1 .. Len(worded) : loaded[k] \in LoadedScopes
        BY <1>3, <1>5, <1>6
    <2> QED
        BY <1>3, <1>5, <2>1, IsASeq
<1>8. ToSet(loaded) = LoadedFrom(document, scopes)
    <2>1. ToSet(loaded) = {loaded[k] : k \in DOMAIN worded}
        BY <1>5 DEF ToSet
    <2>2. ASSUME NEW k \in DOMAIN worded PROVE loaded[k] \in {LoadedScope(document, s) : s \in W}
        BY <1>2, <1>4, <1>5
    <2>3. ASSUME NEW s \in W PROVE LoadedScope(document, s) \in ToSet(loaded)
        <3>1. PICK k \in DOMAIN worded : worded[k] = s
            BY <1>2, <1>4
        <3>2. loaded[k] = LoadedScope(document, s)
            BY <1>5, <3>1
        <3> QED
            BY <2>1, <3>2
    <2>4. ToSet(loaded) = {LoadedScope(document, s) : s \in W}
        BY <2>1, <2>2, <2>3
    <2> QED
        BY <2>4 DEF LoadedFrom
<1>9. last \in Plans /\ CarriesSeen(last, ToSet(loaded))
    BY <1>7, PackedCarries
<1> HIDE DEF last
<1> DEFINE b == last.batches
           c == last.current
<1>10. b \in Seq(Seq(LoadedScopes)) /\ c \in Seq(LoadedScopes)
    BY <1>9 DEF Plans
<1>11. /\ (UNION {ToSet(batch) : batch \in ToSet(b)}) \cup ToSet(c) = ToSet(loaded)
       /\ Fits(c) /\ \A batch \in ToSet(b) : Fits(batch)
    BY <1>9 DEF CarriesSeen, Carried
<1>12. plan = IF c = <<>> THEN b ELSE Append(b, c)
    BY <1>1
<1> HIDE DEF b, c
<1>13. CASE c = <<>>
    <2>1. ToSet(c) = {}
        BY <1>13 DEF ToSet
    <2> QED
        BY <1>8, <1>11, <1>12, <1>13, <2>1
<1>14. CASE c # <<>>
    <2>1. plan = Append(b, c)
        BY <1>12, <1>14
    <2>2. ToSet(plan) = ToSet(b) \cup {c}
        BY <1>10, <2>1, AppendAdds
    <2>3. UNION {ToSet(batch) : batch \in ToSet(plan)}
             = (UNION {ToSet(batch) : batch \in ToSet(b)}) \cup ToSet(c)
        BY <2>2
    <2>4. \A batch \in ToSet(plan) : Fits(batch)
        BY <1>11, <2>2
    <2> QED
        BY <1>8, <1>11, <2>3, <2>4
<1> QED
    BY <1>13, <1>14

\* What is asked of a document, and what is said.
LEMMA PlanAsked ==
    ASSUME Asked, Answered("document")
    PROVE  /\ IsDocument(Document)
           /\ Said = PlanOf(Document, question.asked.ticked)
<1>1. /\ question \in Questions /\ question.about = "document"
      /\ Said = AnswerTo("document", question.asked)
    BY SaidOf
<1>2. question.asked \in Documents
    BY <1>1 DEF Questions
<1>3. IsDocument(Document)
    BY <1>2, DocumentsAssumption DEF IsDocument, Document
<1>4. AnswerTo("document", question.asked) = PlanOf(Document, question.asked.ticked)
    BY DEF AnswerTo, Document
<1> QED
    BY <1>1, <1>3, <1>4

\* What is sent of a document: the scopes of what its ticked sections become.
LEMMA SentFacts ==
    ASSUME Asked, Answered("document"),
           NEW rows, rows = StoredRows(Document), NEW E,
           E = ExpandSelectedSections(rows, SelectedIds(rows, question.asked.ticked)),
           NEW scopes, scopes = BuildSectionScopes(rows, E)
    PROVE  /\ IsDocument(Document) /\ IsSectioned(Document, rows) /\ Rows = ToSet(rows) /\ Ids = IdsOf(rows)
           /\ E \subseteq Ids
           /\ \A r \in ToSet(rows) : r.parent \in E => r.id \in E
           /\ SentScopes = LoadedFrom(Document, scopes)
           /\ \A batch \in ToSet(Said) : Fits(batch)
<1>1. IsDocument(Document) /\ Said = PlanOf(Document, question.asked.ticked)
    BY PlanAsked
<1>2. IsSectioned(Document, rows)
    BY <1>1, StoredSectioned
<1>3. IsForest(rows)
    BY <1>2 DEF IsSectioned
<1>4. Rows = ToSet(rows) /\ Ids = IdsOf(rows)
    BY DEF Rows, Ids, IdsOf
<1>5. SelectedIds(rows, question.asked.ticked) \in SUBSET IdsOf(rows)
    BY <1>3, SelectedFacts
<1>6. E \subseteq IdsOf(rows) /\ \A r \in ToSet(rows) : r.parent \in E => r.id \in E
    BY <1>3, <1>5, ExpandedFacts
<1>7. scopes \in Seq(Scopes)
    BY <1>3, <1>6, ScopesFacts
<1>8. Said = PlanConceptBatches(Document, scopes)
    BY <1>1 DEF PlanOf
<1>9. Document.chars \in Seq(Nat)
    BY <1>1 DEF IsDocument
<1>10. /\ UNION {ToSet(batch) : batch \in ToSet(Said)} = LoadedFrom(Document, scopes)
       /\ \A batch \in ToSet(Said) : Fits(batch)
    BY <1>7, <1>8, <1>9, PlanFacts
<1>11. SentScopes = LoadedFrom(Document, scopes)
    BY <1>10 DEF SentScopes
<1> QED
    BY <1>1, <1>2, <1>4, <1>6, <1>10, <1>11

\* A run sends the pages with text of the sections chosen, for documents of
\* any length, outline and headings, and any selection (pdfParser.ts, text.ts,
\* source.ts, batches.ts).
THEOREM SpecPlanSendsTheSelection == RulesSpec => []PlanSendsTheSelection
<1>1. Asked => PlanSendsTheSelection
  <2> SUFFICES ASSUME Asked, Answered("document"), Cardinality(Ticked) <= MaxSelected
               PROVE  /\ Sent = Worded \cap UNION {PagesIn(row) : row \in {r \in Rows : Chosen(r.id)}}
                      /\ Ticked = Ids =>
                            \A p \in Worded : p >= Min({row.start : row \in Rows}) => p \in Sent
                      /\ \A batch \in ToSet(Said) : Len(batch) > 1 =>
                            SumOf([i \in DOMAIN batch |-> batch[i].characters]) <= CharsPerCall
      BY DEF PlanSendsTheSelection
  <2> DEFINE rows == StoredRows(Document)
             n == PageCount(Document)
             chars == Document.chars
             selected == SelectedIds(rows, question.asked.ticked)
             E == ExpandSelectedSections(rows, selected)
             scopes == BuildSectionScopes(rows, E)
             kept == {r \in ToSet(rows) : r.id \in E}
  <2>1. /\ IsDocument(Document) /\ IsSectioned(Document, rows) /\ Rows = ToSet(rows) /\ Ids = IdsOf(rows)
        /\ E \subseteq Ids
        /\ \A r \in ToSet(rows) : r.parent \in E => r.id \in E
        /\ SentScopes = LoadedFrom(Document, scopes)
        /\ \A batch \in ToSet(Said) : Fits(batch)
      BY SentFacts
  <2>2. IsForest(rows) /\ OnPages(rows, n) /\ CoversOn(rows, n) /\ rows \in Seq(Sections)
      BY <2>1 DEF IsSectioned, IsForest
  <2>3. n \in Nat /\ n = Len(chars) /\ chars \in Seq(Nat) /\ DOMAIN chars = 1 .. n
      BY <2>1, DocumentParts DEF IsDocument, PageCount
  <2> HIDE DEF rows, n, E, scopes
  <2>4. selected = Ticked
    <3>1. Ticked = question.asked.ticked \cap IdsOf(rows)
        BY <2>1 DEF Ticked
    <3> QED
        BY <2>2, <3>1, SelectedFacts
  <2> HIDE DEF selected
  <2>5. /\ Ticked \subseteq E
        /\ Ticked = {} => E = Ids
        /\ Ticked # {} => \A S : Ticked \subseteq S /\ (\A r \in ToSet(rows) : r.parent \in S => r.id \in S)
                                    => E \subseteq S
    <3>1. Ticked \in SUBSET IdsOf(rows) /\ E = ExpandSelectedSections(rows, Ticked)
        BY <2>1, <2>4 DEF Ticked, E
    <3> QED
        BY <2>1, <2>2, <3>1, ExpandedFacts
  <2>6. \A id \in Ids : Chosen(id) <=> id \in E
    <3> SUFFICES ASSUME NEW id \in Ids PROVE Chosen(id) <=> id \in E
        OBVIOUS
    <3>1. CASE Ticked = {}
        BY <2>5, <3>1 DEF Chosen
    <3>2. CASE Ticked # {}
      <4>1. ASSUME Chosen(id) PROVE id \in E
          BY <2>1, <2>5, <3>2, <4>1 DEF Chosen
      <4>2. ASSUME id \in E PROVE Chosen(id)
        <5> SUFFICES ASSUME NEW S \in SUBSET Ids, Ticked \subseteq S,
                            \A row \in Rows : row.parent \in S => row.id \in S
                     PROVE  id \in S
            BY DEF Chosen
        <5> QED
            BY <2>1, <2>5, <3>2, <4>2
      <4> QED
          BY <4>1, <4>2
    <3> QED
        BY <3>1, <3>2
  <2>7. {r \in Rows : Chosen(r.id)} = kept
    <3>1. \A r \in Rows : r.id \in Ids
        BY DEF Ids
    <3> QED
        BY <2>1, <2>6, <3>1
  <2>8. /\ scopes \in Seq(Scopes)
        /\ UNION {s.pages : s \in ToSet(scopes)} = UNION {PagesIn(r) : r \in kept}
        /\ \A s \in ToSet(scopes) : \E r \in ToSet(rows) : s.id = r.id /\ s.pages \subseteq PagesIn(r)
      BY <2>1, <2>2, ScopesFacts DEF scopes
  <2>9. \A r \in ToSet(rows) : PagesIn(r) \subseteq 1 .. n
    <3> SUFFICES ASSUME NEW r \in ToSet(rows), NEW p \in PagesIn(r) PROVE p \in 1 .. n
        OBVIOUS
    <3>1. r.start \in Nat /\ r.end \in Nat /\ 1 <= r.start /\ r.end <= n
        BY <2>2, SectionFacts DEF OnPages
    <3> QED
        BY <2>3, <3>1 DEF PagesIn
  <2>10. Sent = {p \in UNION {s.pages : s \in ToSet(scopes)} : chars[p] > 0}
    <3>1. Sent = UNION {a.pages : a \in SentScopes}
        BY DEF Sent
    <3>2. \A s : LoadedScope(Document, s).pages = {p \in s.pages : chars[p] > 0}
        BY DEF LoadedScope, Readable
    <3>3. \A s : Readable(Document, s) = {p \in s.pages : chars[p] > 0}
        BY DEF Readable
    <3> HIDE DEF chars
    <3>4. ASSUME NEW p \in Sent PROVE \E s \in ToSet(scopes) : p \in s.pages /\ chars[p] > 0
      <4>1. PICK a \in SentScopes : p \in a.pages
          BY <3>1
      <4>2. PICK s \in ToSet(scopes) : a = LoadedScope(Document, s)
          BY <2>1 DEF LoadedFrom
      <4> QED
          BY <3>2, <4>1, <4>2
    <3>5. ASSUME NEW s \in ToSet(scopes), NEW p \in s.pages, chars[p] > 0 PROVE p \in Sent
      <4>1. p \in Readable(Document, s)
          BY <3>3, <3>5
      <4>2. LoadedScope(Document, s) \in SentScopes
          BY <2>1, <4>1 DEF LoadedFrom
      <4>3. p \in LoadedScope(Document, s).pages
          BY <3>2, <3>5
      <4> QED
          BY <3>1, <4>2, <4>3
    <3> QED
        BY <3>4, <3>5
  <2>11. Worded = {p \in 1 .. n : chars[p] > 0}
      BY <2>3 DEF Worded
  <2> HIDE DEF chars
  <2>12. Sent = Worded \cap UNION {PagesIn(row) : row \in kept}
    <3>1. UNION {PagesIn(row) : row \in kept} \subseteq 1 .. n
        BY <2>9
    <3> HIDE DEF kept
    <3> QED
        BY <2>8, <2>10, <2>11, <3>1
  <2>13. ASSUME Ticked = Ids, NEW p \in Worded, p >= Min({row.start : row \in Rows}) PROVE p \in Sent
    <3>1. p \in 1 .. n
        BY <2>11
    <3>2. kept = ToSet(rows)
      <4>1. E = Ids
          BY <2>1, <2>5, <2>13
      <4> QED
          BY <2>1, <4>1 DEF IdsOf
    <3>3. \E r \in ToSet(rows) : p \in PagesIn(r)
      <4>1. CASE \E r \in ToSet(rows) : r.start <= p
          BY <2>2, <3>1, <4>1 DEF CoversOn
      <4>2. CASE \A r \in ToSet(rows) : ~(r.start <= p)
        <5> DEFINE starts == {row.start : row \in Rows}
        <5>1. n # 0
            BY <2>3, <3>1
        <5>2. starts # {} /\ \A d \in starts : d \in Nat /\ ~(d <= p)
            <6>1. ToSet(rows) # {}
                BY <2>2, <5>1 DEF CoversOn
            <6>2. \A r \in ToSet(rows) : r.start \in Nat
                BY <2>2, SectionFacts
            <6> QED
                BY <2>1, <4>2, <6>1, <6>2
        <5> HIDE DEF starts
        <5>3. Min(starts) \in starts
            BY <5>2, MinOfMany
        <5> QED
            BY <2>13, <3>1, <5>2, <5>3 DEF starts
      <4> QED
          BY <4>1, <4>2
    <3> QED
        BY <2>12, <3>2, <3>3
  <2>14. \A batch \in ToSet(Said) : Len(batch) > 1 =>
             SumOf([i \in DOMAIN batch |-> batch[i].characters]) <= CharsPerCall
      BY <2>1 DEF Fits, SizesOf
  <2> QED
      BY <2>7, <2>12, <2>13, <2>14
<1> QED
    BY <1>1, SpecAsked, PTL

\* No page is sent for a section and again for one below it, and other
\* sections overlap only where the reader found them to, for documents of any
\* length, outline and headings, and any selection (source.ts:166-173).
THEOREM SpecPagesAreSentOnce == RulesSpec => []PagesAreSentOnce
<1>1. Asked => PagesAreSentOnce
  <2> SUFFICES ASSUME Asked, Answered("document"),
                      NEW a \in SentScopes, NEW b \in SentScopes, a # b, a.pages \cap b.pages # {}
               PROVE  /\ a.id \notin Below(StoredRows(Document), {b.id})
                      /\ Document.reader = "headings" =>
                            a.pages \cap b.pages \subseteq {RowOf(a.id).start, RowOf(b.id).start}
                      /\ Document.reader = "outline" =>
                            \E i, j \in DOMAIN Document.entries :
                                i < j /\ Document.entries[j].page <= Document.entries[i].page
      BY DEF PagesAreSentOnce
  <2> DEFINE rows == StoredRows(Document)
             E == ExpandSelectedSections(rows, SelectedIds(rows, question.asked.ticked))
             scopes == BuildSectionScopes(rows, E)
  <2>1. /\ IsSectioned(Document, rows) /\ Rows = ToSet(rows)
        /\ \A r \in ToSet(rows) : r.parent \in E => r.id \in E
        /\ SentScopes = LoadedFrom(Document, scopes)
      BY SentFacts
  <2> HIDE DEF rows, E
  <2>2. /\ IsForest(rows) /\ OverlapsAsRead(Document, rows) /\ rows \in Seq(Sections)
        /\ \A r, s \in ToSet(rows) : r.id = s.id => r = s
      BY <2>1 DEF IsSectioned, IsForest
  <2>3. /\ \A s \in ToSet(scopes) : \E r \in ToSet(rows) : s.id = r.id /\ s.pages \subseteq PagesIn(r)
        /\ \A s, t \in ToSet(scopes) : s.id = t.id => s = t
        /\ \A s, t \in ToSet(scopes) :
              s # t /\ s.id \in Below(rows, {t.id}) => s.pages \cap t.pages = {}
      BY <2>1, <2>2, ScopesFacts
  <2> HIDE DEF scopes
  <2>4. \A s : LoadedScope(Document, s).id = s.id /\ LoadedScope(Document, s).pages \subseteq s.pages
      BY DEF LoadedScope, Readable
  <2>5. PICK s \in ToSet(scopes) : a = LoadedScope(Document, s)
      BY <2>1 DEF LoadedFrom
  <2>6. PICK t \in ToSet(scopes) : b = LoadedScope(Document, t)
      BY <2>1 DEF LoadedFrom
  <2>7. s # t /\ a.id = s.id /\ b.id = t.id /\ a.pages \subseteq s.pages /\ b.pages \subseteq t.pages
      BY <2>4, <2>5, <2>6
  <2>8. s.pages \cap t.pages # {} /\ s.id # t.id
      BY <2>3, <2>7
  <2>9. a.id \notin Below(rows, {b.id}) /\ b.id \notin Below(rows, {a.id})
      BY <2>3, <2>7, <2>8
  <2>10. PICK r \in ToSet(rows) : s.id = r.id /\ s.pages \subseteq PagesIn(r)
      BY <2>3
  <2>11. PICK q \in ToSet(rows) : t.id = q.id /\ t.pages \subseteq PagesIn(q)
      BY <2>3
  <2>12. RowOf(a.id) = r /\ RowOf(b.id) = q
    <3>1. \A row \in Rows : row.id = a.id => row = r
        BY <2>1, <2>2, <2>7, <2>10
    <3>2. \A row \in Rows : row.id = b.id => row = q
        BY <2>1, <2>2, <2>7, <2>11
    <3> QED
        BY <2>1, <2>7, <2>10, <2>11, <3>1, <3>2 DEF RowOf
  <2>13. r.id \in Nat /\ q.id \in Nat
      BY <2>2, SectionFacts
  <2>14. \A p \in a.pages \cap b.pages : ReadsTwice(Document, r, q, p) \/ ReadsTwice(Document, q, r, p)
    <3> TAKE p \in a.pages \cap b.pages
    <3>1. p \in PagesIn(r) \cap PagesIn(q)
        BY <2>7, <2>10, <2>11
    <3>2. CASE r.id < q.id
        BY <2>2, <2>7, <2>9, <2>10, <2>11, <3>1, <3>2 DEF OverlapsAsRead
    <3>3. CASE q.id < r.id
        BY <2>2, <2>7, <2>9, <2>10, <2>11, <3>1, <3>3 DEF OverlapsAsRead
    <3> QED
        BY <2>8, <2>10, <2>11, <2>13, <3>2, <3>3
  <2>15. Document.reader = "headings" => a.pages \cap b.pages \subseteq {r.start, q.start}
      BY <2>14 DEF ReadsTwice
  <2>16. Document.reader = "outline" =>
             \E i, j \in DOMAIN Document.entries :
                 i < j /\ Document.entries[j].page <= Document.entries[i].page
    <3> HAVE Document.reader = "outline"
    <3>1. PICK p : p \in a.pages \cap b.pages
        OBVIOUS
    <3> QED
        BY <2>14, <3>1 DEF ReadsTwice
  <2> QED
      BY <2>9, <2>12, <2>15, <2>16 DEF rows
<1> QED
    BY <1>1, SpecAsked, PTL
=============================================================================
