---------------------------- MODULE OperatorProofs ----------------------------
(***************************************************************************)
(* Theorems about what the operator's wallet is used for: the script that  *)
(* seeds markets can pay for what it has planned, the scripts that provide *)
(* liquidity deposit it once, and a script that ends has brought about     *)
(* what it was run for.                                                    *)
(***************************************************************************)
EXTENDS Seeder, OperatorScripts, SequenceTheorems, SumTheorems, TLAPS

-----------------------------------------------------------------------------
(* The seeding of markets. *)

\* A run as the record that all of its steps update.
RunRecord(r) == [at |-> r.at, left |-> r.left, todo |-> r.todo, bal |-> r.bal, alone |-> r.alone]

AreRuns(f) == f = [k \in Seeders |-> RunRecord(f[k])]

\* The script's list is a sequence, of whatever the snapshot listed.
SeederTypes ==
  /\ wallet \in Nat /\ configured \in BOOLEAN
  /\ AreRuns(run)
  /\ run["script"].bal \in Nat
  /\ \E S : run["script"].todo \in Seq(S)

\* What the script has planned is covered by the wallet; on the way there the
\* wallet holds what the script has read, unless the keeper has spent from it.
PlanCovered(r) ==
  r.alone => /\ r.at \in {"claim", "afford"} => r.bal <= wallet
             /\ r.at = "send" => Len(r.todo) * Deposit["script"] <= wallet

\* The inductive invariant.
PayInv == SeederTypes /\ PlanCovered(run["script"])

\* The deposits are positive, and so is the product of a count and one of them.
LEMMA DepositsPositive == \A k \in Seeders : Deposit[k] \in Nat \ {0}
BY SeederConstants DEF Deposit, Seeders

\* A cut keeps at most n of a sequence's elements, and none of a negative number.
LEMMA CutShortens ==
  ASSUME NEW S, NEW s \in Seq(S), NEW n \in Int
  PROVE  LET c == SubSeq(s, 1, Min({n, Len(s)}))
         IN  c \in Seq(S) /\ Len(c) \in Nat /\ Len(c) <= Len(s) /\ (0 <= n => Len(c) <= n)
<1> DEFINE m == Min({n, Len(s)})
<1>1. m \in {n, Len(s)} /\ m <= n /\ m <= Len(s)
  <2>1. \E x \in {n, Len(s)} : \A y \in {n, Len(s)} : x <= y
    OBVIOUS
  <2> QED BY <2>1 DEF Min
<1>2. Len(s) \in Nat
  OBVIOUS
<1>3. \A i \in 1..m : s[i] \in S
  BY <1>1, <1>2
<1> HIDE DEF m
<1>4. m \in Int
  BY <1>1, <1>2
<1>5. SubSeq(s, 1, m) \in Seq(S) /\ Len(SubSeq(s, 1, m)) = IF 1 <= m THEN m - 1 + 1 ELSE 0
  BY <1>3, <1>4, SubSeqProperties
<1>6. Len(SubSeq(s, 1, m)) \in Nat /\ Len(SubSeq(s, 1, m)) <= Len(s) /\ (0 <= n => Len(SubSeq(s, 1, m)) <= n)
  BY <1>1, <1>2, <1>4, <1>5
<1> QED BY <1>5, <1>6 DEF m

\* What a step of the keeper's run leaves alone, as far as the script is concerned.
Untouched == wallet' = wallet /\ configured' \in BOOLEAN /\ AreRuns(run') /\ run'["script"] = run["script"]

\* A step that leaves the wallet and the script's run alone keeps the invariant.
LEMMA UntouchedKeeps == PayInv /\ Untouched => PayInv'
BY DEF PayInv, Untouched, SeederTypes, PlanCovered, Deposit

\* What the script's run has come to with the record v, from what a step makes of
\* the wallet.
ScriptReaches(v) ==
  /\ wallet' \in Nat /\ configured' \in BOOLEAN
  /\ v.bal \in Nat
  /\ \E S : v.todo \in Seq(S)
  /\ v.alone => /\ v.at \in {"claim", "afford"} => v.bal <= wallet'
                /\ v.at = "send" => Len(v.todo) * Deposit["script"] <= wallet'

\* With such a record and runs that are records, the invariant holds again.
LEMMA ScriptArrives ==
  ASSUME NEW v, ScriptReaches(v), AreRuns(run'), run'["script"] = v
  PROVE  PayInv'
BY DEF ScriptReaches, PayInv, SeederTypes, PlanCovered, Deposit

\* A step of the script's run alone.
ScriptGoes(v) == ScriptReaches(v) /\ v = RunRecord(v) /\ run' = [run EXCEPT !["script"] = v]

\* So it does when only the script's run has moved.
LEMMA ScriptKeeps == ASSUME PayInv, NEW v, ScriptGoes(v) PROVE PayInv'
<1>1. AreRuns(run') /\ run'["script"] = v
  <2>1. AreRuns(run) /\ "script" \in Seeders /\ v = RunRecord(v) /\ run' = [run EXCEPT !["script"] = v]
    BY DEF ScriptGoes, PayInv, SeederTypes, Seeders
  <2> QED BY <2>1 DEF AreRuns
<1> QED BY <1>1, ScriptArrives DEF ScriptGoes

\* A run that is over, or has just begun, has planned nothing.
Fresh(at) == [NotRunning EXCEPT !.at = at]

\* Such a record has all of its fields, and nothing planned.
LEMMA FreshRuns ==
  ASSUME NEW at
  PROVE  /\ Fresh(at) = RunRecord(Fresh(at)) /\ Fresh(at).at = at /\ Fresh(at).bal \in Nat
         /\ Fresh(at).todo \in Seq({}) /\ Len(Fresh(at).todo) = 0
<1>1. NotRunning = RunRecord(NotRunning)
  BY DEF NotRunning, RunRecord
<1>2. NotRunning.bal = 0 /\ NotRunning.todo = <<>>
  BY DEF NotRunning
<1>3. /\ Fresh(at) = RunRecord(Fresh(at)) /\ Fresh(at).at = at
      /\ Fresh(at).bal = NotRunning.bal /\ Fresh(at).todo = NotRunning.todo
  BY <1>1 DEF RunRecord, Fresh
<1>4. <<>> \in Seq({}) /\ Len(<<>>) = 0
  OBVIOUS
<1> QED BY <1>2, <1>3, <1>4

\* Starting either run keeps the invariant.
LEMMA StartKeeps == ASSUME PayInv, NEW k \in Seeders, StartRun(k) PROVE PayInv'
<1>1. CASE k = "keeper" /\ ~authorized
  BY <1>1, UntouchedKeeps DEF StartRun, Untouched, PayInv, SeederTypes
<1> DEFINE v == Fresh(IF k = "script" THEN "config" ELSE "snapshot")
<1>2. CASE k = "keeper" /\ authorized
  <2>1. run' = [run EXCEPT ![k] = v] /\ v = RunRecord(v)
    BY <1>2, FreshRuns DEF StartRun, Fresh
  <2> HIDE DEF v
  <2>2. AreRuns(run') /\ run'["script"] = run["script"]
    <3>1. AreRuns(run) /\ "script" \in Seeders /\ "script" # k
      BY <1>2 DEF PayInv, SeederTypes, Seeders
    <3> QED BY <2>1, <3>1 DEF AreRuns
  <2> QED BY <2>2, UntouchedKeeps DEF StartRun, Untouched, PayInv, SeederTypes
<1>3. CASE k = "script"
  <2>1. ScriptGoes(v)
    BY <1>3, FreshRuns DEF StartRun, Fresh, ScriptGoes, ScriptReaches, PayInv, SeederTypes
  <2> QED BY <2>1, ScriptKeeps
<1> QED BY <1>1, <1>2, <1>3 DEF Seeders

\* The keeper's run moves to the record v, and the script's is the same.
LEMMA KeeperRunMoves ==
  ASSUME PayInv, NEW v, v = RunRecord(v), run' = [run EXCEPT !["keeper"] = v],
         wallet' = wallet, configured' = configured
  PROVE  PayInv'
<1>1. AreRuns(run') /\ run'["script"] = run["script"]
  BY DEF PayInv, SeederTypes, AreRuns, Seeders
<1> QED BY <1>1, UntouchedKeeps DEF Untouched, PayInv, SeederTypes

\* The script's run ends.
LEMMA ReleasedKeeps ==
  ASSUME PayInv, run' = [run EXCEPT !["script"] = Released],
         wallet' = wallet, configured' \in BOOLEAN
  PROVE  PayInv'
<1>1. Released = RunRecord(Released) /\ Released.bal \in Nat /\ Released.todo \in Seq({})
      /\ Released.at = "off"
  BY DEF Released, NotRunning, RunRecord
<1>2. ScriptGoes(Released)
  BY <1>1 DEF ScriptGoes, ScriptReaches, PayInv, SeederTypes
<1> QED BY <1>2, ScriptKeeps

\* A step that leaves the plan and the balance read as they are, before the
\* script has come to its money.
LEMMA PlanningKeeps ==
  ASSUME PayInv, NEW v, run' = [run EXCEPT !["script"] = v], wallet' = wallet, configured' \in BOOLEAN,
         v = RunRecord(v), v.bal = run["script"].bal, \E S : v.todo \in Seq(S),
         v.at \notin {"claim", "afford", "send"}
  PROVE  PayInv'
<1>1. ScriptGoes(v)
  BY DEF ScriptGoes, ScriptReaches, PayInv, SeederTypes
<1> QED BY <1>1, ScriptKeeps

\* Every run is such a record.
LEMMA RunsAreRecords == PayInv => \A k \in Seeders : run[k] = RunRecord(run[k])
BY DEF PayInv, SeederTypes, AreRuns

\* The script's is one.
LEMMA ScriptRecord == PayInv => run["script"] = RunRecord(run["script"])
BY RunsAreRecords DEF Seeders

\* The script's config step.
LEMMA EnsureKeeps == ASSUME PayInv, EnsureConfig PROVE PayInv'
<1> DEFINE v == [run["script"] EXCEPT !.at = "snapshot"]
<1>1. CASE run' = [run EXCEPT !["script"].at = "snapshot"]
  <2>1. /\ v = RunRecord(v) /\ v.at = "snapshot" /\ v.todo = run["script"].todo
        /\ v.bal = run["script"].bal
    BY ScriptRecord DEF RunRecord
  <2>2. run' = [run EXCEPT !["script"] = v]
    BY <1>1
  <2>3. wallet' = wallet /\ configured' \in BOOLEAN /\ \E S : v.todo \in Seq(S)
    BY <2>1 DEF EnsureConfig, PayInv, SeederTypes
  <2> HIDE DEF v
  <2> QED BY <2>1, <2>2, <2>3, PlanningKeeps
<1>2. CASE run' = [run EXCEPT !["script"] = Released]
  BY <1>2, ReleasedKeeps DEF EnsureConfig, PayInv, SeederTypes
<1> QED BY <1>1, <1>2 DEF EnsureConfig

\* Listing the upcoming fixtures plans nothing yet.
LEMMA ListKeeps == ASSUME PayInv, NEW k \in Seeders, ListFuture(k) PROVE PayInv'
<1>1. wallet' = wallet /\ configured' = configured
  BY DEF ListFuture
<1>2. CASE run' = [run EXCEPT ![k] = Released]
  <2>1. Released = RunRecord(Released)
    BY DEF Released, NotRunning, RunRecord
  <2> QED BY <1>1, <1>2, <2>1, ReleasedKeeps, KeeperRunMoves DEF Seeders, PayInv, SeederTypes
<1>3. ASSUME NEW s, run' = [run EXCEPT ![k] = [@ EXCEPT !.at = "dedup", !.left = s]]
      PROVE  PayInv'
  <2>0. PICK r : r = run[k] /\ r = RunRecord(r)
    BY RunsAreRecords
  <2>v. PICK v : v = [r EXCEPT !.at = "dedup", !.left = s]
    OBVIOUS
  <2>1. v = RunRecord(v) /\ v.at = "dedup" /\ v.todo = r.todo /\ v.bal = r.bal
    BY <2>0, <2>v DEF RunRecord
  <2>2. run' = [run EXCEPT ![k] = v]
    BY <1>3, <2>0, <2>v
  <2>3. CASE k = "script"
    <3>1. \E S : v.todo \in Seq(S)
      BY <2>0, <2>1, <2>3 DEF PayInv, SeederTypes
    <3> QED BY <1>1, <2>0, <2>1, <2>2, <2>3, <3>1, PlanningKeeps DEF PayInv, SeederTypes
  <2> QED BY <1>1, <2>1, <2>2, <2>3, KeeperRunMoves DEF Seeders
<1> QED BY <1>2, <1>3 DEF ListFuture

\* What a look-up may append to the list makes a longer sequence.
LEMMA AppendSeq ==
  ASSUME NEW s, \E S : s \in Seq(S), NEW e
  PROVE  \E S : Append(s, e) \in Seq(S)
<1>1. PICK S : s \in Seq(S)
  OBVIOUS
<1>2. s \in Seq(S \cup {e})
  BY <1>1
<1>3. Append(s, e) \in Seq(S \cup {e})
  BY <1>2
<1> QED BY <1>3

\* Looking up one fixture's market.
LEMMA DedupKeeps == ASSUME PayInv, NEW k \in Seeders, Dedup(k) PROVE PayInv'
<1>0. PICK r : r = run[k] /\ r = RunRecord(r)
  BY RunsAreRecords
<1> DEFINE m == Head(r.left)
<1>a. PICK rest : rest = [r EXCEPT !.left = Tail(@)]
  OBVIOUS
<1>b. PICK more : more = [rest EXCEPT !.todo = Append(@, m)]
  OBVIOUS
<1>1. wallet' = wallet /\ configured' = configured /\ r.at = "dedup"
  BY <1>0 DEF Dedup
<1>2. CASE run' = [run EXCEPT ![k] = Released]
  <2>1. Released = RunRecord(Released)
    BY DEF Released, NotRunning, RunRecord
  <2> QED BY <1>1, <1>2, <2>1, ReleasedKeeps, KeeperRunMoves DEF Seeders, PayInv, SeederTypes
<1>3. rest = RunRecord(rest) /\ rest.at = r.at /\ rest.todo = r.todo /\ rest.bal = r.bal
  BY <1>0, <1>a DEF RunRecord
<1> HIDE DEF m
<1>4. /\ more = RunRecord(more) /\ more.at = rest.at /\ more.todo = Append(rest.todo, m)
      /\ more.bal = rest.bal
  BY <1>3, <1>b DEF RunRecord
<1>5. ASSUME NEW v \in {rest, more}, run' = [run EXCEPT ![k] = v] PROVE PayInv'
  <2>1. v = RunRecord(v) /\ v.at = "dedup" /\ v.bal = run[k].bal
    BY <1>0, <1>1, <1>3, <1>4
  <2>2. CASE k = "script"
    <3>1. \E S : run["script"].todo \in Seq(S)
      BY DEF PayInv, SeederTypes
    <3>2. \E S : Append(run["script"].todo, m) \in Seq(S)
      BY <3>1, AppendSeq
    <3>3. v.todo \in {run["script"].todo, Append(run["script"].todo, m)}
      BY <1>0, <1>3, <1>4, <2>2
    <3>4. \E S : v.todo \in Seq(S)
      BY <3>1, <3>2, <3>3
    <3> QED BY <1>1, <1>5, <2>1, <2>2, <3>4, PlanningKeeps DEF PayInv, SeederTypes
  <2> QED BY <1>1, <1>5, <2>1, <2>2, KeeperRunMoves DEF Seeders
<1>6. \/ run' = [run EXCEPT ![k] = rest] \/ run' = [run EXCEPT ![k] = more]
      \/ run' = [run EXCEPT ![k] = Released]
  BY <1>0, <1>a, <1>b DEF Dedup, m
<1> QED BY <1>2, <1>5, <1>6

\* A cut list is no longer than the number it is cut to.
LEMMA CutRecord ==
  ASSUME NEW r, r = RunRecord(r), NEW S, r.todo \in Seq(S), NEW n \in Int, NEW at,
         NEW v, v = Cut(r, n, at)
  PROVE  /\ v = RunRecord(v) /\ v.at = at /\ v.bal = r.bal /\ v.alone = r.alone
         /\ v.todo \in Seq(S) /\ Len(v.todo) \in Nat
         /\ Len(v.todo) <= Len(r.todo) /\ (0 <= n => Len(v.todo) <= n)
<1>1. PICK c : c = SubSeq(r.todo, 1, Min({n, Len(r.todo)}))
  OBVIOUS
<1>2. c \in Seq(S) /\ Len(c) \in Nat /\ Len(c) <= Len(r.todo) /\ (0 <= n => Len(c) <= n)
  BY <1>1, CutShortens
<1>3. v = [r EXCEPT !.at = at, !.todo = c]
  BY <1>1 DEF Cut
<1>4. v = RunRecord(v) /\ v.at = at /\ v.bal = r.bal /\ v.alone = r.alone /\ v.todo = c
  BY <1>3 DEF RunRecord
<1> QED BY <1>2, <1>4

\* Cutting the list to the cap: a script that goes straight on to sending has an empty one.
LEMMA CapKeeps == ASSUME PayInv, NEW k \in Seeders, Cap(k) PROVE PayInv'
<1>0. PICK r : r = run[k] /\ r = RunRecord(r)
  BY RunsAreRecords
<1>1. wallet' = wallet /\ configured' = configured
  BY DEF Cap
<1>2. CASE k = "keeper"
  <2>1. PICK v : v = Cut(r, MAX_SEED, "send")
    OBVIOUS
  <2>2. v = RunRecord(v)
    BY <1>0, <2>1 DEF RunRecord, Cut
  <2>3. run' = [run EXCEPT !["keeper"] = v]
    BY <1>0, <1>2, <2>1 DEF Cap
  <2> QED BY <1>1, <2>2, <2>3, KeeperRunMoves
<1>3. CASE k = "script"
  <2>1. PICK v : v = Cut(r, SEED_CAP, IF r.todo # <<>> THEN "fund" ELSE "send")
    OBVIOUS
  <2>2. run' = [run EXCEPT !["script"] = v]
    BY <1>0, <1>3, <2>1 DEF Cap
  <2>3. PICK S : r.todo \in Seq(S)
    BY <1>0, <1>3 DEF PayInv, SeederTypes
  <2>4. SEED_CAP \in Int
    BY SeederConstants
  <2>5. /\ v = RunRecord(v) /\ v.bal = r.bal /\ v.todo \in Seq(S) /\ Len(v.todo) \in Nat
        /\ Len(v.todo) <= Len(r.todo)
        /\ v.at = IF r.todo # <<>> THEN "fund" ELSE "send"
    BY <1>0, <2>1, <2>3, <2>4, CutRecord
  <2>6. v.at = "send" => Len(v.todo) = 0
    BY <2>3, <2>5
  <2>7. ScriptGoes(v)
    BY <1>0, <1>1, <1>3, <2>2, <2>5, <2>6, DepositsPositive
       DEF ScriptGoes, ScriptReaches, PayInv, SeederTypes, Seeders
  <2> QED BY <2>7, ScriptKeeps
<1> QED BY <1>2, <1>3 DEF Seeders

\* Reading the balance: what is read is what the wallet holds.
LEMMA ReadKeeps == ASSUME PayInv, ReadBalance PROVE PayInv'
<1>0. PICK r : r = run["script"] /\ r = RunRecord(r)
  BY ScriptRecord
<1>1. wallet' = wallet /\ configured' = configured
  BY DEF ReadBalance
<1>2. CASE run' = [run EXCEPT !["script"].at = "claim", !["script"].bal = wallet]
  <2>1. PICK v : v = [r EXCEPT !.at = "claim", !.bal = wallet]
    OBVIOUS
  <2>2. v = RunRecord(v) /\ v.at = "claim" /\ v.bal = wallet /\ v.todo = r.todo
    BY <1>0, <2>1 DEF RunRecord
  <2>3. run' = [run EXCEPT !["script"] = v]
    BY <1>0, <1>2, <2>1 DEF PayInv, SeederTypes, AreRuns, Seeders
  <2>4. ScriptGoes(v)
    BY <1>0, <1>1, <2>2, <2>3 DEF ScriptGoes, ScriptReaches, PayInv, SeederTypes
  <2> QED BY <2>4, ScriptKeeps
<1>3. CASE run' = [run EXCEPT !["script"] = Released]
  BY <1>1, <1>3, ReleasedKeeps DEF PayInv, SeederTypes
<1> QED BY <1>2, <1>3 DEF ReadBalance

\* A claim can only add to the wallet.
LEMMA ClaimKeeps == ASSUME PayInv, Claim PROVE PayInv'
<1>0. PICK r : r = run["script"] /\ r = RunRecord(r)
  BY ScriptRecord
<1>1. PICK at \in {"fund", "afford"} : run' = [run EXCEPT !["script"].at = at]
  BY DEF Claim
<1>2. wallet' \in Nat /\ wallet <= wallet' /\ configured' = configured
  <2>1. wallet' = wallet \/ wallet' = wallet + Grant
    BY DEF Claim, request_devnet_faucet
  <2>2. Grant \in Nat /\ wallet \in Nat
    BY SeederConstants DEF PayInv, SeederTypes
  <2>3. configured' = configured
    BY DEF Claim
  <2> QED BY <2>1, <2>2, <2>3
<1>3. PICK v : v = [r EXCEPT !.at = at]
  OBVIOUS
<1>4. v = RunRecord(v) /\ v.at = at /\ v.bal = r.bal /\ v.todo = r.todo /\ v.alone = r.alone
  BY <1>0, <1>3 DEF RunRecord
<1>5. run' = [run EXCEPT !["script"] = v]
  BY <1>0, <1>1, <1>3
<1>6. r.at = "claim" /\ r.bal \in Nat /\ wallet \in Nat /\ (r.alone => r.bal <= wallet)
  BY <1>0 DEF Claim, PayInv, SeederTypes, PlanCovered
<1>7. ScriptGoes(v)
  BY <1>0, <1>2, <1>4, <1>5, <1>6 DEF ScriptGoes, ScriptReaches, PayInv, SeederTypes
<1> QED BY <1>7, ScriptKeeps

\* As many deposits as the balance holds, beside the reserve, it can pay.
LEMMA Affordable ==
  ASSUME NEW bal \in Nat, NEW d \in Nat \ {0}, NEW n \in Nat, n <= (bal - Reserve) \div d
  PROVE  n * d <= bal
<1>1. Reserve \in Nat
  BY SeederConstants
<1> DEFINE q == (bal - Reserve) \div d
<1>2. q \in Int /\ q * d <= bal - Reserve
  BY <1>1
<1> HIDE DEF q
<1>3. n * d <= q * d
  BY <1>2 DEF q
<1> QED BY <1>1, <1>2, <1>3

\* The cut to what the balance can pay, which is what makes the plan covered.
LEMMA AffordKeeps == ASSUME PayInv, Afford PROVE PayInv'
<1>0. PICK r : r = run["script"] /\ r = RunRecord(r)
  BY ScriptRecord
<1>1. PICK n : n = (r.bal - Reserve) \div Deposit["script"]
  OBVIOUS
<1>2. /\ wallet' = wallet /\ configured' = configured
      /\ \/ run' = [run EXCEPT !["script"] = Released]
         \/ n > 0 /\ run' = [run EXCEPT !["script"] = Cut(r, n, "send")]
  <2>1. r.bal \in Nat /\ Reserve \in Nat /\ Deposit["script"] \in Nat \ {0}
    BY <1>0, SeederConstants, DepositsPositive DEF PayInv, SeederTypes, Seeders
  <2>2. n \in Int
    BY <1>1, <2>1
  <2>3. wallet' = wallet /\ configured' = configured
    BY DEF Afford
  <2>4. run' = [run EXCEPT !["script"] = IF n <= 0 THEN Released ELSE Cut(r, n, "send")]
    BY <1>0, <1>1 DEF Afford
  <2>5. CASE n <= 0
    BY <2>3, <2>4, <2>5
  <2>6. CASE n > 0
    <3>1. ~(n <= 0)
      BY <2>2, <2>6
    <3> QED BY <2>3, <2>4, <2>6, <3>1
  <2> QED BY <2>2, <2>5, <2>6
<1>3. CASE run' = [run EXCEPT !["script"] = Released]
  BY <1>2, <1>3, ReleasedKeeps DEF PayInv, SeederTypes
<1>4. CASE n > 0 /\ run' = [run EXCEPT !["script"] = Cut(r, n, "send")]
  <2>1. PICK S : r.todo \in Seq(S)
    BY <1>0 DEF PayInv, SeederTypes
  <2>2. r.bal \in Nat /\ Reserve \in Nat /\ Deposit["script"] \in Nat \ {0}
    BY <1>0, SeederConstants, DepositsPositive DEF PayInv, SeederTypes, Seeders
  <2>3. n \in Int
    BY <1>1, <2>2
  <2>4. PICK v : v = Cut(r, n, "send")
    OBVIOUS
  <2>5. /\ v = RunRecord(v) /\ v.at = "send" /\ v.bal = r.bal /\ v.alone = r.alone
        /\ v.todo \in Seq(S) /\ Len(v.todo) \in Nat /\ (0 <= n => Len(v.todo) <= n)
    BY <1>0, <2>1, <2>3, <2>4, CutRecord
  <2>6. Len(v.todo) * Deposit["script"] <= r.bal
    <3>1. PICK d \in Nat \ {0} : d = Deposit["script"]
      BY <2>2
    <3>2. PICK b \in Nat : b = r.bal
      BY <2>2
    <3>3. PICK l \in Nat : l = Len(v.todo)
      BY <2>5
    <3>4. l <= (b - Reserve) \div d
      BY <1>1, <1>4, <2>3, <2>5, <3>1, <3>2, <3>3
    <3>5. l * d <= b
      BY <3>4, Affordable
    <3> QED BY <3>1, <3>2, <3>3, <3>5
  <2>7. r.alone => r.bal <= wallet
    BY <1>0 DEF Afford, InBudget, PayInv, PlanCovered
  <2>8. Len(v.todo) * Deposit["script"] \in Int /\ wallet \in Nat
    BY <2>2, <2>5 DEF PayInv, SeederTypes
  <2>9. v.alone => Len(v.todo) * Deposit["script"] <= wallet'
    BY <1>2, <2>2, <2>5, <2>6, <2>7, <2>8
  <2>10. run' = [run EXCEPT !["script"] = v]
    BY <1>4, <2>4
  <2>11. ScriptGoes(v)
    BY <1>2, <2>2, <2>5, <2>9, <2>10 DEF ScriptGoes, ScriptReaches, PayInv, SeederTypes
  <2> QED BY <2>11, ScriptKeeps
<1> QED BY <1>2, <1>3, <1>4

\* The next fixture of the list is done with.
Shortened(r) == [r EXCEPT !.todo = Tail(@)]

\* The list is one shorter, and what is left of it costs a deposit less.
LEMMA OneLess ==
  ASSUME NEW r, r = RunRecord(r), NEW S, r.todo \in Seq(S), r.todo # <<>>,
         NEW v, v = Shortened(r), NEW d \in Nat
  PROVE  /\ v = RunRecord(v) /\ v.at = r.at /\ v.bal = r.bal /\ v.alone = r.alone
         /\ v.todo \in Seq(S) /\ Len(v.todo) * d + d = Len(r.todo) * d
         /\ Len(v.todo) * d \in Nat
<1>1. v = RunRecord(v) /\ v.at = r.at /\ v.bal = r.bal /\ v.alone = r.alone /\ v.todo = Tail(r.todo)
  BY DEF RunRecord, Shortened
<1>2. v.todo \in Seq(S) /\ Len(v.todo) \in Nat /\ Len(r.todo) = Len(v.todo) + 1
  BY <1>1
<1>3. ASSUME NEW n \in Nat PROVE n * d + d = (n + 1) * d /\ n * d \in Nat
  OBVIOUS
<1> QED BY <1>1, <1>2, <1>3

\* The script's turn, whether or not the market comes to be.
LEMMA ScriptTurn ==
  ASSUME PayInv, InTurn("script"), configured' = configured,
         AreRuns(run'), run'["script"] = Shortened(run["script"]),
         wallet' = wallet \/ (wallet >= Deposit["script"] /\ wallet' = wallet - Deposit["script"])
  PROVE  PayInv'
<1>0. PICK r : r = run["script"] /\ r = RunRecord(r)
  BY ScriptRecord
<1>1. PICK S : r.todo \in Seq(S)
  BY <1>0 DEF PayInv, SeederTypes
<1>2. PICK v : v = Shortened(r)
  OBVIOUS
<1>3. PICK d : d = Deposit["script"] /\ d \in Nat
  BY DepositsPositive DEF Seeders
<1>4. r.todo # <<>> /\ r.at = "send"
  BY <1>0 DEF InTurn
<1>5. /\ v = RunRecord(v) /\ v.at = r.at /\ v.bal = r.bal /\ v.alone = r.alone
      /\ v.todo \in Seq(S) /\ Len(v.todo) * d + d = Len(r.todo) * d
      /\ Len(v.todo) * d \in Nat
  <2>1. r = RunRecord(r)
    BY <1>0
  <2>2. d \in Nat
    BY <1>3
  <2>3. r.todo # <<>>
    BY <1>4
  <2> QED BY <1>1, <1>2, <2>1, <2>2, <2>3, OneLess
<1>6. wallet \in Nat /\ r.bal \in Nat /\ (r.alone => Len(r.todo) * d <= wallet)
  BY <1>0, <1>3, <1>4 DEF PayInv, SeederTypes, PlanCovered
<1>7. wallet' \in Nat /\ (wallet' = wallet \/ wallet' = wallet - d)
  BY <1>3, <1>6
<1>8. v.alone => Len(v.todo) * d <= wallet'
  BY <1>3, <1>5, <1>6, <1>7
<1>9. run'["script"] = v
  BY <1>0, <1>2
<1>10. ScriptReaches(v)
  BY <1>3, <1>4, <1>5, <1>6, <1>7, <1>8 DEF ScriptReaches, PayInv, SeederTypes
<1> QED BY <1>9, <1>10, ScriptArrives

\* A fixture that is passed over.
LEMMA SkipKeeps == ASSUME PayInv, NEW k \in Seeders, InTurn(k), Skip(k) PROVE PayInv'
<1>0. PICK r : r = run[k] /\ r = RunRecord(r)
  BY RunsAreRecords
<1>1. wallet' = wallet /\ configured' = configured
  BY DEF Skip
<1>2. PICK v : v = Shortened(r)
  OBVIOUS
<1>3. v = RunRecord(v)
  <2>1. r = RunRecord(r)
    BY <1>0
  <2> QED BY <1>2, <2>1 DEF RunRecord, Shortened
<1>4. run' = [run EXCEPT ![k] = v]
  BY <1>0, <1>2 DEF Skip, Shortened
<1>5. CASE k = "keeper"
  BY <1>1, <1>3, <1>4, <1>5, KeeperRunMoves
<1>6. CASE k = "script"
  <2>1. AreRuns(run') /\ run'["script"] = v
    BY <1>3, <1>4, <1>6 DEF PayInv, SeederTypes, AreRuns, Seeders
  <2> QED BY <1>0, <1>1, <1>2, <1>6, <2>1, ScriptTurn
<1> QED BY <1>5, <1>6 DEF Seeders

\* A market created by one is money gone for the other, which is told so.
LEMMA SpentByKeeper ==
  ASSUME PayInv, configured' = configured, NEW landed \in BOOLEAN,
         NEW r, r = RunRecord(r), r = run["script"],
         NEW v, v = [r EXCEPT !.alone = @ /\ ~landed],
         AreRuns(run'), run'["script"] = v,
         wallet' = IF landed THEN wallet - Deposit["keeper"] ELSE wallet,
         landed => wallet >= Deposit["keeper"]
  PROVE  PayInv'
<1>1. v.at = r.at /\ v.todo = r.todo /\ v.bal = r.bal /\ v.alone = (r.alone /\ ~landed)
  BY DEF RunRecord
<1>2. wallet' \in Nat
  BY DepositsPositive DEF PayInv, SeederTypes, Seeders
<1>3. v.alone => r.alone /\ wallet' = wallet
  BY <1>1
<1>4. ScriptReaches(v)
  BY <1>1, <1>2, <1>3 DEF ScriptReaches, PayInv, SeederTypes, PlanCovered
<1> QED BY <1>4, ScriptArrives

\* Creating a market, by either seeder.
LEMMA InitKeeps == ASSUME PayInv, NEW k \in Seeders, InTurn(k), init_market(k) PROVE PayInv'
<1>1. PICK tx \in sendTx :
        /\ tx.landed => wallet >= Deposit[k]
        /\ wallet' = IF tx.landed THEN wallet - Deposit[k] ELSE wallet
        /\ configured' = configured
        /\ run' = [j \in Seeders |->
             IF j # k THEN [run[j] EXCEPT !.alone = @ /\ ~tx.landed]
             ELSE [run[k] EXCEPT !.todo = Tail(@)]]
  BY DEF init_market, Accepts
<1>2. PICK landed \in BOOLEAN : landed = tx.landed
  BY DEF sendTx
<1>3. PICK rk : rk = run["keeper"] /\ rk = RunRecord(rk)
  BY RunsAreRecords DEF Seeders
<1>4. PICK rs : rs = run["script"] /\ rs = RunRecord(rs)
  BY ScriptRecord
<1>5. rk = RunRecord(rk) /\ rs = RunRecord(rs)
  BY <1>3, <1>4
<1>6. CASE k = "keeper"
  <2>1. PICK vk : vk = Shortened(rk)
    OBVIOUS
  <2>2. PICK vs : vs = [rs EXCEPT !.alone = @ /\ ~landed]
    OBVIOUS
  <2>3. vk = RunRecord(vk)
    BY <1>5, <2>1 DEF RunRecord, Shortened
  <2>4. vs = RunRecord(vs)
    BY <1>5, <2>2 DEF RunRecord
  <2>5. run' = [j \in Seeders |-> IF j = "script" THEN vs ELSE vk]
    BY <1>1, <1>2, <1>3, <1>4, <1>6, <2>1, <2>2 DEF Seeders, Shortened
  <2>6. AreRuns(run') /\ run'["script"] = vs
    BY <2>3, <2>4, <2>5 DEF AreRuns, Seeders
  <2> QED BY <1>1, <1>2, <1>4, <1>6, <2>2, <2>6, SpentByKeeper
<1>7. CASE k = "script"
  <2>1. PICK vs : vs = Shortened(rs)
    OBVIOUS
  <2>2. PICK vk : vk = [rk EXCEPT !.alone = @ /\ ~landed]
    OBVIOUS
  <2>3. vs = RunRecord(vs)
    BY <1>5, <2>1 DEF RunRecord, Shortened
  <2>4. vk = RunRecord(vk)
    BY <1>5, <2>2 DEF RunRecord
  <2>5. run' = [j \in Seeders |-> IF j = "script" THEN vs ELSE vk]
    BY <1>1, <1>2, <1>3, <1>4, <1>7, <2>1, <2>2 DEF Seeders, Shortened
  <2>6. AreRuns(run') /\ run'["script"] = vs
    BY <2>3, <2>4, <2>5 DEF AreRuns, Seeders
  <2>7. run'["script"] = Shortened(run["script"])
    BY <1>4, <2>1, <2>6
  <2> QED BY <1>1, <1>7, <2>6, <2>7, ScriptTurn
<1> QED BY <1>6, <1>7 DEF Seeders

\* The end of a run.
LEMMA EndKeeps == ASSUME PayInv, NEW k \in Seeders, EndRun(k) PROVE PayInv'
<1>1. Released = RunRecord(Released)
  BY DEF Released, NotRunning, RunRecord
<1> QED BY <1>1, ReleasedKeeps, KeeperRunMoves DEF EndRun, Seeders, PayInv, SeederTypes

\* The invariant holds before anything has run.
LEMMA PayInvInit == SeederInit => PayInv
<1> SUFFICES ASSUME SeederInit PROVE PayInv
  OBVIOUS
<1>1. wallet \in Nat
  BY SeederConstants DEF SeederInit
<1>2. NotRunning = RunRecord(NotRunning)
  BY DEF NotRunning, RunRecord
<1>3. AreRuns(run) /\ run["script"] = NotRunning
  BY <1>2 DEF SeederInit, AreRuns, Seeders
<1>4. NotRunning.bal \in Nat /\ NotRunning.at = "off" /\ NotRunning.todo \in Seq({})
  BY DEF NotRunning
<1> QED BY <1>1, <1>3, <1>4 DEF SeederInit, PayInv, SeederTypes, PlanCovered

\* Every step keeps the invariant.
LEMMA PayInvNext == PayInv /\ [SeederNext]_seederVars => PayInv'
<1> SUFFICES ASSUME PayInv, [SeederNext]_seederVars PROVE PayInv'
  OBVIOUS
<1>1. CASE FixtureNears \/ FixtureStarts \/ UNCHANGED seederVars
  BY <1>1 DEF FixtureNears, FixtureStarts, seederVars, PayInv, SeederTypes, PlanCovered, Deposit
<1>2. CASE EnsureConfig
  BY <1>2, EnsureKeeps
<1>3. CASE ReadBalance
  BY <1>3, ReadKeeps
<1>4. CASE Claim
  BY <1>4, ClaimKeeps
<1>5. CASE Afford
  BY <1>5, AffordKeeps
<1>6. ASSUME NEW k \in Seeders, StartRun(k) PROVE PayInv'
  BY <1>6, StartKeeps
<1>7. ASSUME NEW k \in Seeders, SeederStep(k) PROVE PayInv'
  <2>1. CASE ListFuture(k)
    BY <2>1, ListKeeps
  <2>2. CASE Dedup(k)
    BY <2>2, DedupKeeps
  <2>3. CASE Cap(k)
    BY <2>3, CapKeeps
  <2>4. CASE EndRun(k)
    BY <2>4, EndKeeps
  <2>5. CASE KeeperSeeds \/ ScriptSeeds
    BY <2>5, SkipKeeps, InitKeeps DEF KeeperSeeds, ScriptSeeds, Seeders
  <2> QED BY <1>7, <2>1, <2>2, <2>3, <2>4, <2>5 DEF SeederStep
<1> QED BY <1>1, <1>2, <1>3, <1>4, <1>5, <1>6, <1>7 DEF SeederNext

\* Whatever calls fail and however transactions are reported, the script that
\* seeds markets can pay for every market it still means to create, as long as the
\* keeper has not spent from the wallet they share during its run.
THEOREM ScriptAlwaysCanPay == SeederSpec => []ScriptCanPay
<1>1. PayInv => ScriptCanPay
  <2> SUFFICES ASSUME PayInv, run["script"].at = "send", run["script"].alone
               PROVE  wallet >= Len(run["script"].todo) * Deposit["script"]
    BY DEF ScriptCanPay
  <2>1. Len(run["script"].todo) * Deposit["script"] <= wallet
    BY DEF PayInv, PlanCovered
  <2>2. Len(run["script"].todo) * Deposit["script"] \in Int /\ wallet \in Int
    BY DepositsPositive DEF PayInv, SeederTypes, Seeders
  <2> QED BY <2>1, <2>2
<1> QED BY <1>1, PayInvInit, PayInvNext, PTL DEF SeederSpec

-----------------------------------------------------------------------------
(* What a transaction does: the fold over its instructions, of which there   *)
(* are two at most.                                                          *)

\* The chain a transaction lands on; its i-th instruction applied to c; the recursion of the fold.
Ground == [ok |-> TRUE, made |-> chain.made, stage |-> chain.stage, usdt |-> chain.usdt]
Applied(tx, c, i) == Run(c, tx.ixs[i], tx.w, tx.seed)
Folded(tx, g, s) == IF s = {} THEN Ground ELSE Applied(tx, g[s \ {Max(s)}], Max(s))

\* The outcome of a transaction is a solution of the recursion, at all of its instructions.
LEMMA OutcomeIsFold ==
  ASSUME NEW tx
  PROVE  Outcome(tx) = (CHOOSE g : g = [s \in SUBSET DOMAIN tx.ixs |-> Folded(tx, g, s)])[DOMAIN tx.ixs]
BY Zenon DEF Outcome, FoldLeft, MapThenFoldSet, Folded, Applied, Ground

\* The recursion over at most two instructions has a solution.
LEMMA FoldOfTwo ==
  ASSUME NEW tx, DOMAIN tx.ixs \subseteq {1, 2}
  PROVE  \E g : /\ \A s \in SUBSET DOMAIN tx.ixs : g[s] = Folded(tx, g, s)
                /\ Outcome(tx) = g[DOMAIN tx.ixs]
<1> DEFINE D == DOMAIN tx.ixs
           h == [s \in SUBSET D |->
                   IF s = {} THEN Ground
                   ELSE IF s \ {Max(s)} = {} THEN Applied(tx, Ground, Max(s))
                   ELSE Applied(tx, Applied(tx, Ground, 1), Max(s))]
<1>1. ASSUME NEW s \in SUBSET D PROVE h[s] = Folded(tx, h, s)
  <2>1. CASE s = {}
    BY <2>1 DEF Folded
  <2>2. CASE s # {}
    <3> DEFINE r == s \ {Max(s)}
    <3>1. r \in SUBSET D /\ r \in {{}, {1}} /\ Max({1}) = 1
      BY <2>2, MaxAmongTwo
    <3>2. h[r] = IF r = {} THEN Ground ELSE Applied(tx, Ground, 1)
      BY <3>1
    <3>3. h[s] = Applied(tx, IF r = {} THEN Ground ELSE Applied(tx, Ground, 1), Max(s))
      BY <2>2
    <3> HIDE DEF h
    <3> QED BY <2>2, <3>2, <3>3 DEF Folded
  <2> QED BY <2>1, <2>2
<1>2. h = [s \in SUBSET D |-> Folded(tx, h, s)]
  <2>1. h = [s \in SUBSET D |-> h[s]]
    OBVIOUS
  <2> HIDE DEF h
  <2> QED BY <1>1, <2>1
<1> HIDE DEF h
<1> DEFINE iter == CHOOSE g : g = [s \in SUBSET D |-> Folded(tx, g, s)]
<1>3. iter = [s \in SUBSET D |-> Folded(tx, iter, s)]
  BY <1>2
<1>4. Outcome(tx) = iter[D]
  BY OutcomeIsFold
<1> HIDE DEF iter
<1>5. \A s \in SUBSET D : iter[s] = Folded(tx, iter, s)
  BY <1>3
<1> QED BY <1>4, <1>5

\* One instruction: the outcome is what it does.
LEMMA OutcomeOfOne ==
  ASSUME NEW tx, NEW ix, tx.ixs = <<ix>>
  PROVE  Outcome(tx) = Run(Ground, ix, tx.w, tx.seed)
<1>1. DOMAIN tx.ixs = {1}
  OBVIOUS
<1>2. PICK g : /\ \A s \in SUBSET {1} : g[s] = Folded(tx, g, s)
               /\ Outcome(tx) = g[{1}]
  BY <1>1, FoldOfTwo
<1>3. Max({1}) = 1 /\ {1} \ {1} = {}
  BY MaxAmongTwo
<1>4. g[{}] = Ground
  BY <1>2 DEF Folded
<1>5. g[{1}] = Applied(tx, g[{}], 1)
  BY <1>2, <1>3 DEF Folded
<1> QED BY <1>2, <1>4, <1>5 DEF Applied

\* Two instructions: what the second does after the first.
LEMMA OutcomeOfTwo ==
  ASSUME NEW tx, NEW ix, NEW iy, tx.ixs = <<ix, iy>>
  PROVE  Outcome(tx) = Run(Run(Ground, ix, tx.w, tx.seed), iy, tx.w, tx.seed)
<1>1. DOMAIN tx.ixs = {1, 2}
  OBVIOUS
<1>2. PICK g : /\ \A s \in SUBSET {1, 2} : g[s] = Folded(tx, g, s)
               /\ Outcome(tx) = g[{1, 2}]
  BY <1>1, FoldOfTwo
<1>3. Max({1}) = 1 /\ {1} \ {1} = {} /\ Max({1, 2}) = 2 /\ {1, 2} \ {2} = {1}
  BY DEF Max
<1>4. g[{}] = Ground
  BY <1>2 DEF Folded
<1>5. g[{1}] = Applied(tx, g[{}], 1)
  BY <1>2, <1>3 DEF Folded
<1>6. g[{1, 2}] = Applied(tx, g[{1}], 2)
  BY <1>2, <1>3 DEF Folded
<1> QED BY <1>2, <1>4, <1>5, <1>6 DEF Applied

\* No instruction: nothing changes.
LEMMA OutcomeOfNone ==
  ASSUME NEW tx, tx.ixs = <<>>
  PROVE  Outcome(tx) = Ground
<1>1. DOMAIN tx.ixs = {}
  OBVIOUS
<1>2. PICK g : /\ \A s \in SUBSET {} : g[s] = Folded(tx, g, s)
               /\ Outcome(tx) = g[{}]
  BY <1>1, FoldOfTwo
<1> QED BY <1>2 DEF Folded


\* The scripts the module models.
ScriptNames == {"devnet-init", "enable-leverage", "full-circle", "leverage-circle", "close-market",
                "fund-usdt", "txline-token"}

\* The instructions that have nothing to do with the LP account.
OtherIxs == {"initialize_config", "create_market_config", "open_position", "init_leverage_pool",
             "open_leverage", "init_market", "activate_market", "buy", "redeem", "close_market",
             "update_leverage_params", "post_mark", "close_leverage", "faucet", "subscribe",
             "fund_temp", "farm", "sweep"}
\* The account is opened with the first deposit into it; one from which everything
\* was withdrawn is deposited into alone.
Bundle == <<"open_lp_account", "deposit_lp">>
Alone == <<"deposit_lp">>
Withdrawn == Has("emptied")

\* What a transaction may consist of: nothing, one other instruction, or a deposit.
OtherTx(ixs) == ixs = <<>> \/ \E ix \in OtherIxs : ixs = <<ix>>
Deposits == script \in {"enable-leverage", "leverage-circle"}
SafeIxs(ixs) == OtherTx(ixs) \/ (Deposits /\ (ixs = Bundle \/ (ixs = Alone /\ Withdrawn)))

\* No plan sends a deposit on its own, as long as whoever has an account has shares.
AccountHasShares == Withdrawn \/ (Has("lp_account") => Has("lp_shares"))

\* Sending nothing is safe.
LEMMA EmptyIsSafe == SafeIxs(<<>>)
BY DEF SafeIxs, OtherTx

\* So is sending one of the other instructions.
LEMMA OneIsSafe == \A ix \in OtherIxs : SafeIxs(<<ix>>)
BY DEF SafeIxs, OtherTx

\* A step that does not send is safe.
LEMMA SkipsAreSafe ==
  /\ SafeIxs(Proceed.ixs) /\ SafeIxs(Wait.ixs) /\ SafeIxs(Throw.ixs) /\ SafeIxs(Http.ixs)
  /\ \A w : SafeIxs(Do(w, <<>>).ixs)
BY EmptyIsSafe DEF Proceed, Wait, Throw, Http, Do

\* So is a step that sends another instruction.
LEMMA SendIsSafe == \A ix \in OtherIxs : SafeIxs(Send(ix).ixs)
BY OneIsSafe DEF Send, Do

\* The steps of devnet-init.
LEMMA InitStepsSafe ==
  /\ SafeIxs(InitConfig.ixs) /\ SafeIxs(InitMarketConfig.ixs) /\ SafeIxs(InitFaucet.ixs)
  /\ SafeIxs(InitMarket.ixs) /\ SafeIxs(InitPosition.ixs) /\ SafeIxs(InitActivate.ixs)
  /\ SafeIxs(InitBuy.ixs) /\ SafeIxs(InitVerify.ixs)
BY SkipsAreSafe, SendIsSafe
   DEF InitConfig, InitMarketConfig, InitFaucet, InitMarket, InitPosition, InitActivate, InitBuy,
       InitVerify, Unless, OtherIxs

\* The steps of enable-leverage: a deposit is sent with its account, or not at all.
LEMMA EnableStepsSafe ==
  ASSUME AccountHasShares
  PROVE  /\ SafeIxs(EnableParams.ixs) /\ SafeIxs(EnableLive.ixs) /\ SafeIxs(EnableBudget.ixs)
         /\ SafeIxs(EnablePool.ixs) /\ SafeIxs(EnableMark.ixs)
         /\ Deposits => SafeIxs(EnableDeposit.ixs)
<1>1. /\ SafeIxs(EnableParams.ixs) /\ SafeIxs(EnableBudget.ixs)
      /\ SafeIxs(EnablePool.ixs) /\ SafeIxs(EnableMark.ixs)
  BY SkipsAreSafe, SendIsSafe
     DEF EnableParams, EnableLive, EnableBudget, EnablePool, EnableMark, Unless, OtherIxs
<1>2. SafeIxs(EnableLive.ixs)
  BY SkipsAreSafe DEF EnableLive
<1>3. Deposits => SafeIxs(EnableDeposit.ixs)
  <2>1. Withdrawn \/ Has("lp_shares") \/ ~Has("lp_account")
    BY DEF AccountHasShares
  <2>2. ~Deposits \/ (SafeIxs(Bundle) /\ (Withdrawn => SafeIxs(Alone)))
    BY DEF SafeIxs
  <2>3. \/ EnableDeposit \in {Proceed, Do("send", Bundle)}
        \/ Withdrawn /\ EnableDeposit = Do("send", Alone)
    BY <2>1 DEF EnableDeposit, Bundle, Alone, Send
  <2>4. Do("send", Bundle).ixs = Bundle /\ Do("send", Alone).ixs = Alone
    BY DEF Do
  <2> QED BY <2>2, <2>3, <2>4, SkipsAreSafe
<1> QED BY <1>1, <1>2, <1>3

\* The steps of full-circle.
LEMMA CircleStepsSafe ==
  /\ SafeIxs(CircleFunding.ixs) /\ SafeIxs(CircleShrink.ixs) /\ SafeIxs(CircleMarket.ixs)
  /\ SafeIxs(CircleBuy.ixs) /\ SafeIxs(CircleResolved.ixs) /\ SafeIxs(CircleRedeem.ixs)
  /\ SafeIxs(CircleArtifacts.ixs) /\ SafeIxs(CircleVerify.ixs)
<1>2. /\ SafeIxs(CircleFunding.ixs) /\ SafeIxs(CircleShrink.ixs)
      /\ SafeIxs(CircleBuy.ixs) /\ SafeIxs(CircleResolved.ixs) /\ SafeIxs(CircleRedeem.ixs)
      /\ SafeIxs(CircleArtifacts.ixs) /\ SafeIxs(CircleVerify.ixs)
  BY SkipsAreSafe, SendIsSafe
     DEF CircleFunding, CircleShrink, CircleBuy, CircleResolved, CircleRedeem, CircleArtifacts,
         CircleVerify, Unless, OtherIxs
<1>3. CircleMarket.ixs = <<>> \/ CircleMarket.ixs = <<"init_market">>
  BY DEF CircleMarket, Unless, Proceed, Send, Do
<1>4. SafeIxs(CircleMarket.ixs)
  BY <1>3, EmptyIsSafe, OneIsSafe DEF OtherIxs
<1> QED BY <1>2, <1>4

\* The steps of leverage-circle, whose deposit is sent the same way.
LEMMA LevStepsSafe ==
  ASSUME AccountHasShares
  PROVE  /\ SafeIxs(LevConfig.ixs) /\ SafeIxs(LevMarket.ixs) /\ SafeIxs(LevActivate.ixs)
         /\ SafeIxs(LevFirstMark.ixs) /\ SafeIxs(LevOpen.ixs) /\ SafeIxs(LevSegment.ixs)
         /\ SafeIxs(LevClose.ixs)
         /\ Deposits => SafeIxs(LevDeposit.ixs)
<1>1. /\ SafeIxs(LevConfig.ixs) /\ SafeIxs(LevActivate.ixs)
      /\ SafeIxs(LevFirstMark.ixs) /\ SafeIxs(LevOpen.ixs) /\ SafeIxs(LevSegment.ixs)
      /\ SafeIxs(LevClose.ixs)
  BY SkipsAreSafe, SendIsSafe
     DEF LevConfig, LevActivate, LevFirstMark, LevOpen, LevSegment, LevClose, Unless, OtherIxs
<1>2. LevMarket.ixs = <<>> \/ LevMarket.ixs = <<"init_market">>
  BY DEF LevMarket, Unless, Proceed, Send, Do
<1>3. SafeIxs(LevMarket.ixs)
  BY <1>2, EmptyIsSafe, OneIsSafe DEF OtherIxs
<1>4. Deposits => SafeIxs(LevDeposit.ixs)
  <2>1. Withdrawn \/ Has("lp_shares") \/ ~Has("lp_account")
    BY DEF AccountHasShares
  <2>2. ~Deposits \/ (SafeIxs(Bundle) /\ (Withdrawn => SafeIxs(Alone)))
    BY DEF SafeIxs
  <2>3. \/ LevDeposit \in {Proceed, Do("send", Bundle)}
        \/ Withdrawn /\ LevDeposit = Do("send", Alone)
    BY <2>1 DEF LevDeposit, Bundle, Alone, Send
  <2>4. Do("send", Bundle).ixs = Bundle /\ Do("send", Alone).ixs = Alone
    BY DEF Do
  <2> QED BY <2>2, <2>3, <2>4, SkipsAreSafe
<1> QED BY <1>1, <1>3, <1>4

\* The steps of the scripts that do not drive a market.
LEMMA OtherStepsSafe ==
  /\ SafeIxs(CloseMarket.ixs) /\ SafeIxs(FundPlan.ixs) /\ SafeIxs(FundSweep.ixs)
  /\ SafeIxs(TokenGuest.ixs) /\ SafeIxs(TokenProbe.ixs) /\ SafeIxs(TokenSubscribe.ixs)
  /\ SafeIxs(TokenActivate.ixs) /\ SafeIxs(TokenVerify.ixs) /\ SafeIxs(Do("write", <<>>).ixs)
  /\ SafeIxs(Send("fund_temp").ixs) /\ SafeIxs(Send("farm").ixs)
BY SkipsAreSafe, SendIsSafe
   DEF CloseMarket, FundPlan, FundSweep, TokenGuest, TokenProbe, TokenSubscribe, TokenActivate,
       TokenVerify, Unless, OtherIxs


\* How many steps the plan of a script has.
Length ==
  CASE script = "devnet-init" -> 8
    [] script = "enable-leverage" -> 6
    [] script = "full-circle" -> 9
    [] script = "leverage-circle" -> 10
    [] script = "close-market" -> 1
    [] script = "fund-usdt" -> 4
    [] script = "txline-token" -> 6

\* Every plan has as many steps as Length says.
LEMMA PlanLength ==
  ASSUME script \in ScriptNames
  PROVE  Len(Plan) = Length /\ Length \in Nat \ {0} /\ (script = "fund-usdt" => Length = 4)
BY DEF Plan, Length, ScriptNames

\* No step of any plan sends anything but the bundle or other instructions.
LEMMA PlanSafe ==
  ASSUME script \in ScriptNames, AccountHasShares, NEW pc \in 1..Length
  PROVE  SafeIxs(Plan[pc].ixs)
<1>1. CASE script = "devnet-init"
  <2>1. Plan[pc] \in {InitConfig, InitMarketConfig, InitFaucet, InitMarket, InitPosition,
                      InitActivate, InitBuy, InitVerify}
    BY <1>1 DEF Plan, Length
  <2> QED BY <2>1, InitStepsSafe
<1>2. CASE script = "enable-leverage"
  <2>1. Plan[pc] \in {EnableParams, EnableLive, EnableBudget, EnablePool, EnableDeposit, EnableMark}
    BY <1>2 DEF Plan, Length
  <2> QED BY <1>2, <2>1, EnableStepsSafe DEF Deposits
<1>3. CASE script = "full-circle"
  <2>1. Plan[pc] \in {CircleFunding, CircleShrink, CircleMarket, InitPosition, CircleBuy,
                      CircleResolved, CircleRedeem, CircleArtifacts, CircleVerify}
    BY <1>3 DEF Plan, Length
  <2> QED BY <2>1, CircleStepsSafe, InitStepsSafe
<1>4. CASE script = "leverage-circle"
  <2>1. Plan[pc] \in {LevConfig, LevMarket, LevActivate, EnablePool, LevDeposit, LevFirstMark,
                      LevOpen, LevSegment, LevClose}
    BY <1>4 DEF Plan, Length
  <2> QED BY <1>4, <2>1, LevStepsSafe, EnableStepsSafe DEF Deposits
<1>5. CASE script = "close-market"
  <2>1. Plan[pc] = CloseMarket
    BY <1>5 DEF Plan, Length
  <2> QED BY <2>1, OtherStepsSafe
<1>6. CASE script = "fund-usdt"
  <2>1. Plan[pc] \in {FundPlan, Send("fund_temp"), Send("farm"), FundSweep}
    BY <1>6 DEF Plan, Length
  <2> QED BY <2>1, OtherStepsSafe
<1>7. CASE script = "txline-token"
  <2>1. Plan[pc] \in {TokenGuest, TokenProbe, TokenSubscribe, TokenActivate, TokenVerify,
                      Do("write", <<>>)}
    BY <1>7 DEF Plan, Length
  <2> QED BY <2>1, OtherStepsSafe
<1> QED BY <1>1, <1>2, <1>3, <1>4, <1>5, <1>6, <1>7 DEF ScriptNames

-----------------------------------------------------------------------------
(* A run, a transaction and the chain. *)

\* Records with all of their fields.
TxRecord(tx) == [ixs |-> tx.ixs, w |-> tx.w, seed |-> tx.seed, id |-> tx.id]
ExecRecord(e) == [at |-> e.at, pc |-> e.pc, attempt |-> e.attempt, have |-> e.have,
                  paid |-> e.paid, tx |-> e.tx, result |-> e.result]
ChainRecord(c) == [made |-> c.made, stage |-> c.stage, usdt |-> c.usdt]

\* A deposit is sent by the operator, who is wallet 0.
SafeTx(tx) == tx = TxRecord(tx) /\ SafeIxs(tx.ixs) /\ (tx.ixs \in {Bundle, Alone} => tx.w = 0)

\* A run that is somewhere in its plan and has sent nothing unsafe.
GoodExec(e) == e = ExecRecord(e) /\ e.pc \in 1..Length /\ SafeTx(e.tx)

\* Unless the liquidity was withdrawn before: nothing on its way deposits by itself, an
\* account has its shares, and a deposit has left its account.
DepositInv ==
  /\ script \in ScriptNames /\ chain = ChainRecord(chain)
  /\ GoodExec(exec) /\ \A tx \in flying : SafeTx(tx)
  /\ AccountHasShares
  /\ Withdrawn \/ (deposits \in {0, 1} /\ (deposits = 1 => Has("lp_account")))

\* A run that has sent nothing yet.
LEMMA NoTxSafe == SafeTx(NoTx)
BY EmptyIsSafe DEF NoTx, SafeTx, TxRecord

\* The fields a step replaces leave a run good.
LEMMA ExecFields ==
  ASSUME NEW e, GoodExec(e), NEW v,
         \/ \E x : v = [e EXCEPT !.at = x]
         \/ \E x : v = [e EXCEPT !.have = x]
         \/ \E x : v = [e EXCEPT !.result = x]
         \/ \E x, y : v = [e EXCEPT !.at = x, !.attempt = y]
         \/ \E x, y : v = [e EXCEPT !.have = x, !.paid = y]
         \/ \E x \in 1..Length : v = [e EXCEPT !.pc = x]
         \/ \E x, y : v = [e EXCEPT !.at = x, !.tx = y] /\ SafeTx(y)
  PROVE  GoodExec(v)
<1>1. e = ExecRecord(e) /\ e.pc \in 1..Length /\ SafeTx(e.tx)
  BY DEF GoodExec
<1>2. ASSUME NEW x, v = [e EXCEPT !.at = x] PROVE GoodExec(v)
  BY <1>1, <1>2 DEF GoodExec, ExecRecord
<1>3. ASSUME NEW x, v = [e EXCEPT !.have = x] PROVE GoodExec(v)
  BY <1>1, <1>3 DEF GoodExec, ExecRecord
<1>4. ASSUME NEW x, v = [e EXCEPT !.result = x] PROVE GoodExec(v)
  BY <1>1, <1>4 DEF GoodExec, ExecRecord
<1>5. ASSUME NEW x, NEW y, v = [e EXCEPT !.at = x, !.attempt = y] PROVE GoodExec(v)
  BY <1>1, <1>5 DEF GoodExec, ExecRecord
<1>6. ASSUME NEW x, NEW y, v = [e EXCEPT !.have = x, !.paid = y] PROVE GoodExec(v)
  BY <1>1, <1>6 DEF GoodExec, ExecRecord
<1>7. ASSUME NEW x \in 1..Length, v = [e EXCEPT !.pc = x] PROVE GoodExec(v)
  BY <1>1, <1>7 DEF GoodExec, ExecRecord
<1>8. ASSUME NEW x, NEW y, v = [e EXCEPT !.at = x, !.tx = y], SafeTx(y) PROVE GoodExec(v)
  BY <1>1, <1>8 DEF GoodExec, ExecRecord
<1> QED BY <1>2, <1>3, <1>4, <1>5, <1>6, <1>7, <1>8

\* A run that is over or has not begun is good.
LEMMA IdleGood ==
  ASSUME script \in ScriptNames
  PROVE  GoodExec(Idle) /\ \A e : GoodExec(Done(e))
<1>1. Idle = ExecRecord(Idle) /\ Idle.pc = 1 /\ Idle.tx = NoTx
  BY DEF Idle, ExecRecord
<1>2. GoodExec(Idle)
  BY <1>1, NoTxSafe, PlanLength DEF GoodExec
<1>3. ASSUME NEW e PROVE GoodExec(Done(e))
  <2>1. PICK v : v = Done(e)
    OBVIOUS
  <2>2. v = ExecRecord(v) /\ v.pc = Idle.pc /\ v.tx = Idle.tx
    BY <1>1, <2>1 DEF Done, ExecRecord
  <2> QED BY <1>1, <2>1, <2>2, NoTxSafe, PlanLength DEF GoodExec
<1> QED BY <1>2, <1>3

\* So is one at any step of its plan.
LEMMA AtGood ==
  ASSUME NEW e, GoodExec(e), NEW pc \in 1..Length
  PROVE  GoodExec(At(e, pc))
<1>1. PICK v : v = At(e, pc)
  OBVIOUS
<1>2. e = ExecRecord(e)
  BY DEF GoodExec
<1>3. v = ExecRecord(v) /\ v.pc = pc /\ v.tx = NoTx
  BY <1>1, <1>2 DEF At, ExecRecord
<1> QED BY <1>1, <1>3, NoTxSafe DEF GoodExec

\* And one that goes on to the next step.
LEMMA AdvanceGood ==
  ASSUME script \in ScriptNames, NEW e, GoodExec(e)
  PROVE  GoodExec(Advance(e))
<1>1. Len(Plan) = Length /\ Length \in Nat \ {0} /\ e.pc \in 1..Length
  BY PlanLength DEF GoodExec
<1>2. CASE e.pc < Len(Plan)
  <2>1. e.pc + 1 \in 1..Length
    BY <1>1, <1>2
  <2> QED BY <1>2, <2>1, AtGood DEF Advance
<1>3. CASE ~(e.pc < Len(Plan)) /\ script = "fund-usdt" /\ e.have > 1
  <2>1. 2 \in 1..Length
    BY <1>3, PlanLength
  <2>2. GoodExec(At(e, 2))
    BY <2>1, AtGood
  <2>3. \E x : Advance(e) = [At(e, 2) EXCEPT !.have = x]
    BY <1>3 DEF Advance
  <2> HIDE DEF At
  <2> QED BY <2>2, <2>3, ExecFields
<1>4. CASE ~(e.pc < Len(Plan)) /\ ~(script = "fund-usdt" /\ e.have > 1)
  BY <1>4, IdleGood DEF Advance
<1> QED BY <1>2, <1>3, <1>4

\* And one a step of which has thrown.
LEMMA ThrownGood ==
  ASSUME script \in ScriptNames, NEW e, GoodExec(e)
  PROVE  GoodExec(Thrown(e))
<1>1. CASE Farming
  <2>1. Len(Plan) \in 1..Length
    BY PlanLength
  <2>2. PICK v : v = [e EXCEPT !.pc = Len(Plan)]
    OBVIOUS
  <2>3. GoodExec(v)
    BY <2>1, <2>2, ExecFields
  <2> QED BY <1>1, <2>2, <2>3, AdvanceGood DEF Thrown
<1> QED BY <1>1, AdvanceGood, IdleGood DEF Thrown


-----------------------------------------------------------------------------
(* The steps of a run. *)

\* A step that leaves the chain alone, from the run it goes on with and what it
\* leaves on its way.
LEMMA RunMoves ==
  ASSUME DepositInv, UNCHANGED <<script, chain, deposits>>, NEW v, exec' = v, GoodExec(v),
         NEW f, flying' = f, \A tx \in f : SafeTx(tx)
  PROVE  DepositInv'
<1>1. GoodExec(v)' /\ \A tx \in f : SafeTx(tx)'
  BY DEF GoodExec, SafeTx, SafeIxs, Deposits, Length, Withdrawn, Has
<1> QED BY <1>1 DEF DepositInv, AccountHasShares, Withdrawn, Has, GoodExec

\* What the invariant says of the run and of what is flying.
LEMMA GoodNow ==
  DepositInv => /\ script \in ScriptNames /\ GoodExec(exec) /\ AccountHasShares
                /\ \A tx \in flying : SafeTx(tx)
BY DEF DepositInv

\* Starting a script.
LEMMA StartGood == ASSUME DepositInv, Start PROVE DepositInv'
<1>1. PICK v : v = [Idle EXCEPT !.at = "look"]
  OBVIOUS
<1>2. GoodExec(v)
  BY <1>1, GoodNow, IdleGood, ExecFields
<1> QED BY <1>1, <1>2, GoodNow, RunMoves DEF Start

\* Looking at the chain and deciding what to send.
LEMMA LookGood == ASSUME DepositInv, Look PROVE DepositInv'
<1>1. PICK e : e = [exec EXCEPT !.have = Kept]
  OBVIOUS
<1>2. GoodExec(e)
  BY <1>1, GoodNow, ExecFields
<1>3. UNCHANGED <<script, chain, flying, deposits>>
  BY DEF Look
<1>4. CASE exec' = Advance(e) \/ exec' = Done(e) \/ exec' = Thrown(e)
  <2>1. GoodExec(Advance(e)) /\ GoodExec(Done(e)) /\ GoodExec(Thrown(e))
    BY <1>2, GoodNow, AdvanceGood, IdleGood, ThrownGood
  <2> QED BY <1>3, <1>4, <2>1, GoodNow, RunMoves
<1> DEFINE d == Plan[exec.pc]
<1>5. CASE exec' = [e EXCEPT !.at = "send",
                     !.tx = [ixs |-> d.ixs, w |-> Wallet, seed |-> d.seed, id |-> failures]]
  <2>1. SafeIxs(d.ixs)
    BY GoodNow, PlanSafe DEF GoodExec
  <2>2. d.ixs \in {Bundle, Alone} => Wallet = 0
    <3>1. d.ixs \in {Bundle, Alone} => Deposits
      BY <2>1 DEF SafeIxs, OtherTx, OtherIxs, Bundle, Alone
    <3> QED BY <3>1 DEF Deposits, Wallet, Farming
  <2>3. PICK tx : tx = [ixs |-> d.ixs, w |-> Wallet, seed |-> d.seed, id |-> failures]
    OBVIOUS
  <2>4. SafeTx(tx)
    <3> HIDE DEF d
    <3> QED BY <2>1, <2>2, <2>3 DEF SafeTx, TxRecord
  <2>5. PICK v : v = [e EXCEPT !.at = "send", !.tx = tx]
    OBVIOUS
  <2>6. GoodExec(v)
    BY <1>2, <2>4, <2>5, ExecFields
  <2>7. exec' = v
    BY <1>5, <2>3, <2>5
  <2> QED BY <1>3, <2>6, <2>7, GoodNow, RunMoves
<1> QED BY <1>1, <1>4, <1>5 DEF Look

\* Failing calls, waits given up and kills.
LEMMA ThrowGood ==
  ASSUME DepositInv, TireOfWaiting \/ RpcFails \/ Crash
  PROVE  DepositInv'
<1>1. exec' = Thrown(exec) \/ exec' = Idle
  BY DEF TireOfWaiting, RpcFails, Crash
<1>2. UNCHANGED <<script, chain, flying, deposits>>
  BY DEF TireOfWaiting, RpcFails, Crash
<1>3. GoodExec(Thrown(exec)) /\ GoodExec(Idle)
  BY GoodNow, ThrownGood, IdleGood
<1> QED BY <1>1, <1>2, <1>3, GoodNow, RunMoves

\* The calls of txline-token.
LEMMA CallGood == ASSUME DepositInv, CallApi PROVE DepositInv'
<1>1. GoodExec(Advance(exec)) /\ GoodExec(Idle)
  BY GoodNow, AdvanceGood, IdleGood
<1>2. PICK a : a = Advance(exec)
  OBVIOUS
<1>3. exec' = Idle \/ \E x : exec' = [a EXCEPT !.have = x]
  BY <1>2 DEF CallApi
<1>4. \A x : GoodExec([a EXCEPT !.have = x])
  BY <1>1, <1>2, ExecFields
<1>5. UNCHANGED <<script, chain, flying, deposits>>
  BY DEF CallApi
<1> QED BY <1>1, <1>3, <1>4, <1>5, GoodNow, RunMoves

\* What is tried again is the transaction that was tried before.
LEMMA AttemptSafe == ASSUME DepositInv PROVE SafeTx(Attempt)
<1>1. PICK t : t = exec.tx /\ SafeTx(t)
  BY GoodNow DEF GoodExec
<1>2. PICK a : a = [t EXCEPT !.id = failures]
  OBVIOUS
<1>3. t = TxRecord(t)
  BY <1>1 DEF SafeTx
<1>4. a = TxRecord(a) /\ a.ixs = t.ixs /\ a.w = t.w
  BY <1>2, <1>3 DEF TxRecord
<1>5. SafeTx(a)
  BY <1>1, <1>4 DEF SafeTx
<1> QED BY <1>1, <1>2, <1>5 DEF Attempt

\* A run that tries again is good.
LEMMA AgainGood == ASSUME DepositInv PROVE GoodExec(Again)
<1>1. CASE exec.attempt < 3
  <2>1. PICK x : x = exec.attempt + 1
    OBVIOUS
  <2>2. PICK v : v = [exec EXCEPT !.at = "send", !.attempt = x]
    OBVIOUS
  <2>3. GoodExec(v)
    BY <2>2, GoodNow, ExecFields
  <2> QED BY <1>1, <2>1, <2>2, <2>3 DEF Again
<1> QED BY <1>1, GoodNow, ThrownGood DEF Again

\* Sending a transaction, which may get through although the call failed.
LEMMA SubmitGood == ASSUME DepositInv, Submit PROVE DepositInv'
<1>1. UNCHANGED <<script, chain, deposits>>
  BY DEF Submit
<1>2. SafeTx(Attempt) /\ GoodExec(Again) /\ GoodExec(Thrown(exec))
  BY AttemptSafe, AgainGood, ThrownGood, GoodNow
<1>3. \A tx \in flying \cup {Attempt} : SafeTx(tx)
  BY <1>2, GoodNow
<1>4. CASE Accepted
  <2>1. PICK v : v = [exec EXCEPT !.at = "poll", !.tx = Attempt]
    OBVIOUS
  <2>2. GoodExec(v)
    BY <1>2, <2>1, GoodNow, ExecFields
  <2>3. exec' = v /\ flying' = flying \cup {Attempt}
    BY <1>4, <2>1 DEF Accepted
  <2> QED BY <1>1, <1>3, <2>2, <2>3, RunMoves
<1>5. CASE Refused
  BY <1>1, <1>2, <1>5, GoodNow, RunMoves DEF Refused
<1>6. CASE Unsent
  <2>1. flying' = flying \/ flying' = flying \cup {Attempt}
    BY <1>6 DEF Unsent
  <2>2. exec' = Thrown(exec) \/ exec' = Again
    BY <1>6 DEF Unsent
  <2> QED BY <1>1, <1>2, <1>3, <2>1, <2>2, GoodNow, RunMoves
<1> QED BY <1>4, <1>5, <1>6 DEF Submit

\* Polling for a transaction, and its expiry.
LEMMA PollGood ==
  ASSUME DepositInv, Confirm \/ Timeout \/ \E tx \in flying : Expire(tx)
  PROVE  DepositInv'
<1>1. UNCHANGED <<script, chain, deposits>> /\ flying' \subseteq flying
  BY DEF Confirm, Timeout, Expire
<1>2. \A tx \in flying' : SafeTx(tx)
  BY <1>1, GoodNow
<1>3. CASE Confirm
  <2>1. PICK p : p = exec.paid + Paid
    OBVIOUS
  <2>2. PICK e : e = [exec EXCEPT !.have = Kept, !.paid = p]
    OBVIOUS
  <2>3. GoodExec(e)
    BY <2>2, GoodNow, ExecFields
  <2>4. GoodExec(Advance(e)) /\ GoodExec(Thrown(exec))
    BY <2>3, GoodNow, AdvanceGood, ThrownGood
  <2>5. exec' = Advance(e) \/ exec' = Thrown(exec)
    BY <1>3, <2>1, <2>2 DEF Confirm
  <2> QED BY <1>1, <1>2, <2>4, <2>5, RunMoves
<1>4. CASE Timeout
  BY <1>1, <1>2, <1>4, AgainGood, RunMoves DEF Timeout
<1>5. CASE \E tx \in flying : Expire(tx)
  <2>1. exec' = exec
    BY <1>5 DEF Expire
  <2> QED BY <1>1, <1>2, <2>1, GoodNow, RunMoves
<1> QED BY <1>3, <1>4, <1>5


-----------------------------------------------------------------------------
(* What changes the chain. *)

\* A step that changes the chain, from what the chain says of the account afterwards.
LEMMA ChainMoves ==
  ASSUME DepositInv, script' = script, NEW v, exec' = v, GoodExec(v),
         flying' \subseteq flying,
         NEW c, chain' = c, c = ChainRecord(c),
         <<"emptied", 0>> \in c.made <=> <<"emptied", 0>> \in chain.made,
         \/ <<"emptied", 0>> \in c.made
         \/ /\ <<"lp_account", 0>> \in c.made => <<"lp_shares", 0>> \in c.made
            /\ deposits' \in {0, 1} /\ (deposits' = 1 => <<"lp_account", 0>> \in c.made)
  PROVE  DepositInv'
<1>1. Withdrawn' <=> Withdrawn
  BY DEF Withdrawn, Has
<1>2. GoodExec(v)' /\ \A tx \in flying : SafeTx(tx)'
  BY <1>1 DEF DepositInv, GoodExec, SafeTx, SafeIxs, Deposits, Length
<1> QED BY <1>2 DEF DepositInv, AccountHasShares, Withdrawn, Has, GoodExec

\* A change that touches neither the account nor the shares.
LEMMA MadeElsewhere ==
  ASSUME DepositInv, UNCHANGED <<script, flying, deposits>>, NEW v, exec' = v, GoodExec(v),
         NEW c, chain' = c, c = ChainRecord(c),
         \A f \in {"lp_account", "emptied"} : <<f, 0>> \in c.made <=> <<f, 0>> \in chain.made,
         <<"lp_shares", 0>> \in chain.made => <<"lp_shares", 0>> \in c.made
  PROVE  DepositInv'
BY ChainMoves DEF DepositInv, AccountHasShares, Withdrawn, Has

\* Writing the token.
LEMMA PersistGood == ASSUME DepositInv, persistEnv PROVE DepositInv'
<1>1. PICK c : c = [chain EXCEPT !.made = @ \cup Facts({"token", "valid"})]
  OBVIOUS
<1>2. chain = ChainRecord(chain)
  BY DEF DepositInv
<1>3. c = ChainRecord(c) /\ c.made = chain.made \cup Facts({"token", "valid"})
  BY <1>1, <1>2 DEF ChainRecord
<1>4. <<"lp_account", 0>> \notin Facts({"token", "valid"}) /\ <<"emptied", 0>> \notin Facts({"token", "valid"})
  BY DEF Facts
<1>5. GoodExec(Done(exec))
  BY GoodNow, IdleGood
<1>6. chain' = c /\ exec' = Done(exec) /\ UNCHANGED <<script, flying, deposits>>
  BY <1>1 DEF persistEnv
<1> QED BY <1>3, <1>4, <1>5, <1>6, MadeElsewhere

\* Time and the keeper change other facts.
LEMMA BecomesGood ==
  ASSUME DepositInv, NEW made, NEW stage, Becomes(made, stage),
         \A f \in {"lp_account", "emptied"} : <<f, 0>> \in made <=> <<f, 0>> \in chain.made,
         <<"lp_shares", 0>> \in chain.made => <<"lp_shares", 0>> \in made
  PROVE  DepositInv'
<1>1. PICK c : c = [chain EXCEPT !.made = made, !.stage = stage]
  OBVIOUS
<1>2. chain = ChainRecord(chain)
  BY DEF DepositInv
<1>3. c = ChainRecord(c) /\ c.made = made
  BY <1>1, <1>2 DEF ChainRecord
<1>4. chain' = c /\ exec' = exec /\ UNCHANGED <<script, flying, deposits>>
  BY <1>1 DEF Becomes
<1> QED BY <1>3, <1>4, GoodNow, MadeElsewhere

\* Each of the environment's steps is such a change.
LEMMA WorldGood ==
  ASSUME DepositInv,
         \/ Kickoff \/ KeeperMoves \/ GraceElapses
         \/ \E fact \in {"claimed", "fresh", "valid"} : Passes(fact)
  PROVE  DepositInv'
<1>1. \A f \in {"claimed", "fresh", "valid", "kicked", "grace"} :
        \A g \in {"lp_account", "emptied", "lp_shares"} : <<g, 0>> \notin Facts({f})
  BY DEF Facts
<1>2. CASE Kickoff
  BY <1>1, <1>2, BecomesGood DEF Kickoff
<1>3. CASE KeeperMoves
  BY <1>3, BecomesGood DEF KeeperMoves
<1>4. CASE GraceElapses
  BY <1>1, <1>4, BecomesGood DEF GraceElapses
<1>5. ASSUME NEW fact \in {"claimed", "fresh", "valid"}, Passes(fact) PROVE DepositInv'
  BY <1>1, <1>5, BecomesGood DEF Passes
<1> QED BY <1>2, <1>3, <1>4, <1>5

\* No other instruction touches the LP account or takes its shares away.
LEMMA OthersSpare ==
  ASSUME NEW ix \in OtherIxs, NEW seed
  PROVE  \A f \in {"lp_account", "emptied"} :
           /\ f \notin Instruction(ix, seed).makes /\ f \notin Instruction(ix, seed).drops
           /\ "lp_shares" \notin Instruction(ix, seed).drops
<1>1. CASE ix = "initialize_config"
  BY <1>1 DEF Instruction, initialize_config, Creates, Op
<1>2. CASE ix = "create_market_config"
  BY <1>2 DEF Instruction, create_market_config, Creates, Op
<1>3. CASE ix \in {"open_position", "init_leverage_pool", "open_leverage"}
  BY <1>3 DEF Instruction, open_position, init_leverage_pool, open_leverage, Creates, Op
<1>4. CASE ix \in {"init_market", "activate_market", "buy", "redeem", "close_market"}
  BY <1>4 DEF Instruction, init_market_ix, activate_market, buy, redeem, close_market, Op
<1>5. CASE ix \in {"update_leverage_params", "post_mark", "close_leverage", "faucet", "subscribe"}
  BY <1>5 DEF Instruction, update_leverage_params, post_mark, close_leverage, faucet, subscribe, Op
<1>6. CASE ix \in {"fund_temp", "sweep"}
  BY <1>6 DEF Instruction, fund_temp, sweep, Op
<1>7. CASE ix = "farm"
  BY <1>7 DEF Instruction, farm, faucet, Op
<1> QED BY <1>1, <1>2, <1>3, <1>4, <1>5, <1>6, <1>7 DEF OtherIxs

\* One of the other instructions leaves the account as it was, and its shares.
LEMMA OtherRun ==
  ASSUME NEW ix \in OtherIxs, NEW w, NEW seed, NEW after, after = Run(Ground, ix, w, seed)
  PROVE  /\ \A f \in {"lp_account", "emptied"} : <<f, 0>> \in after.made <=> <<f, 0>> \in chain.made
         /\ <<"lp_shares", 0>> \in chain.made => <<"lp_shares", 0>> \in after.made
<1> DEFINE i == Instruction(ix, seed)
           Of(facts) == {<<f, w>> : f \in facts}
<1>1. Ground.made = chain.made
  BY DEF Ground
<1>2. after.made = chain.made \/ after.made = (chain.made \cup Of(i.makes)) \ Of(i.drops)
  BY <1>1 DEF Run, Ground
<1>3. /\ \A f \in {"lp_account", "emptied"} : <<f, 0>> \notin Of(i.makes) /\ <<f, 0>> \notin Of(i.drops)
      /\ <<"lp_shares", 0>> \notin Of(i.drops)
  BY OthersSpare
<1> HIDE DEF Of, i
<1> QED BY <1>2, <1>3

\* A deposit with its account lands only where there was no account, and leaves
\* both the account and its shares.
LEMMA BundleRun ==
  ASSUME NEW seed, NEW mid, mid = Run(Ground, "open_lp_account", 0, seed),
         NEW after, after = Run(mid, "deposit_lp", 0, seed), after.ok
  PROVE  /\ <<"lp_account", 0>> \notin chain.made
         /\ <<"lp_account", 0>> \in after.made /\ <<"lp_shares", 0>> \in after.made
         /\ <<"emptied", 0>> \in after.made <=> <<"emptied", 0>> \in chain.made
<1>1. PICK o : o = Instruction("open_lp_account", seed)
  OBVIOUS
<1>2. /\ o.absent = {"lp_account"} /\ o.makes = {"lp_account"} /\ o.drops = {}
  BY <1>1 DEF Instruction, open_lp_account, Creates, Op
<1>3. PICK d : d = Instruction("deposit_lp", seed)
  OBVIOUS
<1>4. d.makes = {"lp_shares"} /\ d.drops = {}
  BY <1>3 DEF Instruction, deposit_lp, Op
<1>5. Ground = [ok |-> TRUE, made |-> chain.made, stage |-> chain.stage, usdt |-> chain.usdt]
  BY DEF Ground
<1>6. mid.ok => /\ <<"lp_account", 0>> \notin chain.made
                /\ <<"lp_account", 0>> \in mid.made
                /\ <<"emptied", 0>> \in mid.made <=> <<"emptied", 0>> \in chain.made
  <2> DEFINE Of(facts) == {<<f, 0>> : f \in facts}
  <2>1. mid.ok => /\ Of(o.absent) \cap chain.made = {}
                  /\ mid.made = (chain.made \cup Of(o.makes)) \ Of(o.drops)
    BY <1>1, <1>5 DEF Run
  <2>2. Of({"lp_account"}) = {<<"lp_account", 0>>} /\ Of({}) = {}
    OBVIOUS
  <2> HIDE DEF Of
  <2> QED BY <1>2, <2>1, <2>2
<1>7. "made" \in DOMAIN mid /\ "ok" \in DOMAIN mid
  BY <1>5 DEF Run
<1>8. mid.ok /\ after.made = (mid.made \cup {<<f, 0>> : f \in {"lp_shares"}}) \ {<<f, 0>> : f \in {}}
  BY <1>3, <1>4, <1>7 DEF Run
<1> QED BY <1>6, <1>8

\* A deposit by itself leaves the shares, and the account as it is.
LEMMA AloneRun ==
  ASSUME NEW seed, NEW after, after = Run(Ground, "deposit_lp", 0, seed), after.ok
  PROVE  after.made = chain.made \cup {<<"lp_shares", 0>>} /\ after.stage = chain.stage
<1>1. PICK d : d = Instruction("deposit_lp", seed)
  OBVIOUS
<1>2. d.makes = {"lp_shares"} /\ d.drops = {} /\ d.to = "same"
  BY <1>1 DEF Instruction, deposit_lp, Op
<1>3. Ground = [ok |-> TRUE, made |-> chain.made, stage |-> chain.stage, usdt |-> chain.usdt]
  BY DEF Ground
<1>4. /\ after.made = (chain.made \cup {<<f, 0>> : f \in d.makes}) \ {<<f, 0>> : f \in d.drops}
      /\ after.stage = IF d.to = "same" THEN chain.stage ELSE d.to
  BY <1>1, <1>3 DEF Run
<1> QED BY <1>2, <1>4

\* A transaction lands: the bundle only once.
LEMMA LandGood == ASSUME DepositInv, NEW tx \in flying, Land(tx) PROVE DepositInv'
<1>1. SafeTx(tx)
  BY GoodNow
<1>2. PICK after : after = Outcome(tx)
  OBVIOUS
<1>3. script' = script /\ flying' \subseteq flying
  BY DEF Land
<1>4. PICK v : v = IF exec.at = "poll" /\ exec.tx = tx
                   THEN [exec EXCEPT !.result = IF after.ok THEN "ok" ELSE "err"] ELSE exec
  OBVIOUS
<1>5. exec' = v
  BY <1>2, <1>4 DEF Land
<1>6. GoodExec(v)
  <2>1. \A x : GoodExec([exec EXCEPT !.result = x])
    BY GoodNow, ExecFields
  <2> QED BY <1>4, <2>1, GoodNow
<1>7. PICK c : c = IF after.ok THEN [made |-> after.made, stage |-> after.stage, usdt |-> after.usdt]
                   ELSE chain
  OBVIOUS
<1>8. chain' = c /\ c = ChainRecord(c)
  BY <1>2, <1>7 DEF Land, DepositInv, ChainRecord
<1>9. /\ deposits' = IF after.ok /\ "deposit_lp" \in ToSet(tx.ixs) THEN AtMost(deposits + 1, 2) ELSE deposits
      /\ \/ <<"emptied", 0>> \in chain.made
         \/ /\ deposits \in {0, 1} /\ (deposits = 1 => <<"lp_account", 0>> \in chain.made)
            /\ (<<"lp_account", 0>> \in chain.made => <<"lp_shares", 0>> \in chain.made)
  BY <1>2 DEF Land, DepositInv, AccountHasShares, Withdrawn, Has
<1>10. CASE ~after.ok
  BY <1>3, <1>5, <1>6, <1>7, <1>8, <1>9, <1>10, ChainMoves
<1>11. CASE after.ok /\ OtherTx(tx.ixs)
  <2>1. "deposit_lp" \notin ToSet(tx.ixs)
    <3>1. CASE tx.ixs = <<>>
      BY <3>1 DEF ToSet
    <3>2. CASE \E ix \in OtherIxs : tx.ixs = <<ix>>
      BY <3>2 DEF ToSet, OtherIxs
    <3> QED BY <1>11, <3>1, <3>2 DEF OtherTx
  <2>2. /\ \A f \in {"lp_account", "emptied"} : <<f, 0>> \in after.made <=> <<f, 0>> \in chain.made
        /\ <<"lp_shares", 0>> \in chain.made => <<"lp_shares", 0>> \in after.made
    <3>1. CASE tx.ixs = <<>>
      <4>1. after = Ground
        BY <1>2, <3>1, OutcomeOfNone
      <4> QED BY <4>1 DEF Ground
    <3>2. ASSUME NEW ix \in OtherIxs, tx.ixs = <<ix>>
          PROVE  /\ \A f \in {"lp_account", "emptied"} : <<f, 0>> \in after.made <=> <<f, 0>> \in chain.made
                 /\ <<"lp_shares", 0>> \in chain.made => <<"lp_shares", 0>> \in after.made
      <4>1. after = Run(Ground, ix, tx.w, tx.seed)
        BY <1>2, <3>2, OutcomeOfOne
      <4> QED BY <4>1, OtherRun
    <3> QED BY <1>11, <3>1, <3>2 DEF OtherTx
  <2>3. c.made = after.made
    BY <1>7, <1>11
  <2> QED BY <1>3, <1>5, <1>6, <1>8, <1>9, <2>1, <2>2, <2>3, ChainMoves
<1>12. CASE after.ok /\ tx.ixs = Bundle
  <2>1. tx.w = 0
    BY <1>1, <1>12 DEF SafeTx
  <2>2. PICK mid : mid = Run(Ground, "open_lp_account", 0, tx.seed)
    OBVIOUS
  <2>3. after = Run(mid, "deposit_lp", 0, tx.seed)
    BY <1>2, <1>12, <2>1, <2>2, OutcomeOfTwo DEF Bundle
  <2>4. /\ <<"lp_account", 0>> \notin chain.made
        /\ <<"lp_account", 0>> \in after.made /\ <<"lp_shares", 0>> \in after.made
        /\ <<"emptied", 0>> \in after.made <=> <<"emptied", 0>> \in chain.made
    BY <1>12, <2>2, <2>3, BundleRun
  <2>5. <<"emptied", 0>> \in chain.made \/ deposits' \in {0, 1}
    BY <1>9, <2>4 DEF AtMost
  <2>6. c.made = after.made
    BY <1>7, <1>12
  <2> QED BY <1>3, <1>5, <1>6, <1>8, <2>4, <2>5, <2>6, ChainMoves
<1>13. CASE after.ok /\ tx.ixs = Alone /\ Withdrawn
  <2>1. tx.w = 0
    BY <1>1, <1>13 DEF SafeTx
  <2>2. after = Run(Ground, "deposit_lp", 0, tx.seed)
    BY <1>2, <1>13, <2>1, OutcomeOfOne DEF Alone
  <2>3. c.made = chain.made \cup {<<"lp_shares", 0>>}
    BY <1>7, <1>13, <2>2, AloneRun
  <2>4. <<"emptied", 0>> \in chain.made
    BY <1>13 DEF Withdrawn, Has
  <2> QED BY <1>3, <1>5, <1>6, <1>8, <2>3, <2>4, ChainMoves
<1> QED BY <1>1, <1>10, <1>11, <1>12, <1>13 DEF SafeTx, SafeIxs

\* The invariant holds when a script is first run.
LEMMA DepositInit == ScriptsInit => DepositInv
<1> SUFFICES ASSUME ScriptsInit PROVE DepositInv
  OBVIOUS
<1>1. script \in ScriptNames
  BY DEF ScriptsInit, ScriptNames
<1>2. PICK names \in {{}, {"token", "valid"}, {"config"}, Configs, Emptied, Emptied \cup {"kicked"}} :
        \E stage, usdt : chain = Begun(names, stage, usdt)
  BY DEF ScriptsInit
<1>3. chain = ChainRecord(chain) /\ chain.made = Facts(names)
  BY <1>2 DEF Begun, ChainRecord
<1>4. <<"lp_account", 0>> \in Facts(names) => <<"emptied", 0>> \in Facts(names)
  BY DEF Facts, Configs, Emptied
<1>5. GoodExec(exec) /\ flying = {} /\ deposits = 0
  BY <1>1, IdleGood DEF ScriptsInit
<1> QED BY <1>1, <1>3, <1>4, <1>5 DEF DepositInv, AccountHasShares, Withdrawn, Has

\* Every step keeps the invariant.
LEMMA DepositNext == DepositInv /\ [ScriptsNext]_scriptVars => DepositInv'
<1> SUFFICES ASSUME DepositInv, [ScriptsNext]_scriptVars PROVE DepositInv'
  OBVIOUS
<1>1. CASE UNCHANGED scriptVars
  BY <1>1, GoodNow, RunMoves DEF scriptVars
<1>2. CASE Start
  BY <1>2, StartGood
<1>3. CASE RunStep
  BY <1>3, LookGood, CallGood, PersistGood, SubmitGood, PollGood DEF RunStep
<1>4. CASE TireOfWaiting \/ RpcFails \/ Crash
  BY <1>4, ThrowGood
<1>5. CASE Landing
  BY <1>5, LandGood DEF Landing
<1>6. CASE \E tx \in flying : Expire(tx)
  BY <1>6, PollGood
<1>7. CASE Kickoff \/ KeeperMoves \/ GraceElapses
           \/ \E fact \in {"claimed", "fresh", "valid"} : Passes(fact)
  BY <1>7, WorldGood
<1> QED BY <1>1, <1>2, <1>3, <1>4, <1>5, <1>6, <1>7 DEF ScriptsNext

\* Whatever fails, lands late or twice or is run again: the scripts that provide
\* liquidity deposit it once, because the account is opened with the first deposit
\* and no step deposits into an account that exists, unless one was emptied before.
THEOREM DepositedOnce == ScriptsSpec => []DepositsOnce
<1>1. DepositInv => DepositsOnce
  BY DEF DepositInv, DepositsOnce, Withdrawn
<1> QED BY <1>1, DepositInit, DepositNext, PTL DEF ScriptsSpec

-----------------------------------------------------------------------------
(* That a script which ends has brought about what it was run for: every step *)
(* it passes leaves a mark on the chain that nothing on its way can undo.     *)

\* A run under way, and one that sends.
Active(e) == e.at \in {"look", "send", "poll"}
Underway(e) == e.at \in {"send", "poll"}

\* The instruction a step sends, if it sends one; a deposit comes with its account.
Names ==
  CASE script = "devnet-init" ->
         <<"initialize_config", "create_market_config", "faucet", "init_market", "open_position",
           "activate_market", "buy", "none">>
    [] script = "enable-leverage" ->
         <<"update_leverage_params", "none", "faucet", "init_leverage_pool", "deposit_lp", "post_mark">>
    [] script = "full-circle" ->
         <<"faucet", "none", "init_market", "open_position", "buy", "none", "redeem", "none", "none">>
    [] script = "leverage-circle" ->
         <<"create_market_config", "init_market", "activate_market", "init_leverage_pool", "deposit_lp",
           "post_mark", "open_leverage", "post_mark", "post_mark", "close_leverage">>
    [] script = "close-market" -> <<"close_market">>
    [] script = "fund-usdt" -> <<"none", "fund_temp", "farm", "sweep">>
    [] script = "txline-token" -> <<"none", "none", "subscribe", "none", "none", "none">>
Sends(n, ixs) == ixs = <<Names[n]>> \/ (Names[n] = "deposit_lp" /\ ixs = Bundle)

\* What holds once a step has been passed.
Goal(n) ==
  /\ script = "devnet-init" =>
       /\ n = 1 => Has("config")
       /\ n = 2 => Has("market_config")
       /\ n = 4 => Exists
       /\ n = 5 => Has("position")
       /\ n = 6 => chain.stage \notin {"Absent", "Open"}
  /\ script = "enable-leverage" =>
       /\ n = 1 => Has("leverage")
       /\ n = 4 => Has("pool")
       /\ n = 6 => Has("marks")
  /\ script = "full-circle" => (n = 7 => Has("redeemed"))
  /\ script = "leverage-circle" =>
       /\ n = 5 => Has("lp_shares")
       /\ n = 10 => ~Has("lev_position")
  /\ script = "close-market" => (n = 1 => ~Exists)

\* What holds when all of them have: DoneMeansReady, without the claims of fund-usdt.
Ready ==
  /\ script = "devnet-init" =>
       /\ chain.stage \notin {"Absent", "Open"}
       /\ Has("config") /\ Has("market_config") /\ Has("position")
  /\ script = "enable-leverage" =>
       chain.stage = "Frozen" \/ (Has("leverage") /\ Has("pool") /\ Has("marks"))
  /\ script = "full-circle" => Has("redeemed")
  /\ script = "leverage-circle" => Has("lp_shares") /\ ~Has("lev_position")
  /\ script = "close-market" => ~Exists
  /\ script = "txline-token" => Has("token") /\ Has("valid")

\* leverage-circle, from the second segment, which it waits out: no open_leverage
\* is on its way any more.
Settled(e) ==
  /\ script = "leverage-circle"
  /\ e.at = "done" \/ (Active(e) /\ e.pc > 9) \/ (Underway(e) /\ e.pc = 9)

\* What would undo what a step has brought about, and is never on its way.
Banned(e) ==
  IF script = "devnet-init" THEN {"close_market"}
  ELSE IF script = "enable-leverage" THEN {"init_market", "activate_market", "close_market"}
  ELSE IF script = "close-market" THEN {"init_market"}
  ELSE IF Settled(e) THEN {"open_leverage"} ELSE {}
\* None of it is on its way.
Quiet(e) == \A tx \in flying : \A ix \in Banned(e) : tx.ixs # <<ix>>

\* A run, from what it has passed and what it is about to send.
ReadyExec(e) ==
  /\ e.at \in {"off", "look", "send", "poll", "done"}
  /\ e.at # "poll" => e.result = "none"
  /\ script # "fund-usdt" => e.tx.w = 0
  /\ Active(e) => \A n \in 1..(e.pc - 1) : Goal(n)
  /\ Underway(e) => Sends(e.pc, e.tx.ixs)
  /\ e.at = "poll" /\ e.result = "ok" => Goal(e.pc)
  /\ e.at = "done" => Ready

\* enable-leverage is run for a market that is live (or has just frozen).
LiveStages == script = "enable-leverage" => chain.stage \in {"Open", "Trading", "Frozen"}
ReadyInv == LiveStages /\ Quiet(exec) /\ ReadyExec(exec)

-----------------------------------------------------------------------------
(* What a transaction that lands leaves on the chain. *)

\* One instruction that succeeds.
LEMMA Effect ==
  ASSUME NEW ix, NEW w, NEW seed, NEW i, i = Instruction(ix, seed),
         NEW after, after = Run(Ground, ix, w, seed), after.ok
  PROVE  /\ after.made = (chain.made \cup {<<f, w>> : f \in i.makes}) \ {<<f, w>> : f \in i.drops}
         /\ chain.stage \in i.stages
         /\ after.stage = IF i.to = "same" THEN chain.stage ELSE i.to
         /\ after.usdt = chain.usdt - i.pays
         /\ \A f \in i.needs : <<f, w>> \in chain.made
         /\ \A f \in i.absent : <<f, w>> \notin chain.made
<1>1. Ground = [ok |-> TRUE, made |-> chain.made, stage |-> chain.stage, usdt |-> chain.usdt]
  BY DEF Ground
<1>2. PICK good \in BOOLEAN :
        good <=> /\ {<<f, w>> : f \in i.needs} \subseteq chain.made
                 /\ {<<f, w>> : f \in i.absent} \cap chain.made = {}
                 /\ chain.stage \in i.stages /\ chain.usdt >= i.pays
  OBVIOUS
<1>3. after = IF good
              THEN [Ground EXCEPT
                      !.made = (@ \cup {<<f, w>> : f \in i.makes}) \ {<<f, w>> : f \in i.drops},
                      !.usdt = @ - i.pays,
                      !.stage = IF i.to = "same" THEN @ ELSE i.to]
              ELSE [Ground EXCEPT !.ok = FALSE]
  BY <1>1, <1>2 DEF Run
<1>4. good
  BY <1>1, <1>3
<1>5. \A f \in i.needs : <<f, w>> \in chain.made
  BY <1>2, <1>4
<1>6. \A f \in i.absent : <<f, w>> \notin chain.made
  BY <1>2, <1>4
<1>7. /\ after.made = (chain.made \cup {<<f, w>> : f \in i.makes}) \ {<<f, w>> : f \in i.drops}
      /\ after.usdt = chain.usdt - i.pays
      /\ after.stage = IF i.to = "same" THEN chain.stage ELSE i.to
  BY <1>1, <1>3, <1>4
<1> QED BY <1>2, <1>4, <1>5, <1>6, <1>7

\* The deposit with its account.
LEMMA BundleEffect ==
  ASSUME NEW seed, NEW mid, mid = Run(Ground, "open_lp_account", 0, seed),
         NEW after, after = Run(mid, "deposit_lp", 0, seed), after.ok
  PROVE  /\ after.made = chain.made \cup {<<"lp_account", 0>>, <<"lp_shares", 0>>}
         /\ after.stage = chain.stage
<1>1. PICK o : o = Instruction("open_lp_account", seed)
  OBVIOUS
<1>2. o.makes = {"lp_account"} /\ o.drops = {} /\ o.to = "same"
  BY <1>1 DEF Instruction, open_lp_account, Creates, Op
<1>3. PICK d : d = Instruction("deposit_lp", seed)
  OBVIOUS
<1>4. d.makes = {"lp_shares"} /\ d.drops = {} /\ d.to = "same"
  BY <1>3 DEF Instruction, deposit_lp, Op
<1>5. Ground = [ok |-> TRUE, made |-> chain.made, stage |-> chain.stage, usdt |-> chain.usdt]
  BY DEF Ground
<1>6. DOMAIN mid = {"ok", "made", "stage", "usdt"}
  BY <1>5 DEF Run
<1>7. /\ mid.ok
      /\ after.made = (mid.made \cup {<<f, 0>> : f \in {"lp_shares"}}) \ {<<f, 0>> : f \in {}}
      /\ after.stage = mid.stage
  BY <1>3, <1>4, <1>6 DEF Run
<1>8. /\ mid.made = (chain.made \cup {<<f, 0>> : f \in {"lp_account"}}) \ {<<f, 0>> : f \in {}}
      /\ mid.stage = chain.stage
  BY <1>1, <1>2, <1>7, Effect
<1> QED BY <1>7, <1>8

\* The facts no instruction and no time takes back, and what an instruction leaves of them.
Lasting == {"config", "market_config", "position", "leverage", "pool", "marks", "lp_shares", "redeemed",
            "token"}
Steady == Lasting \cup {"valid", "claimed"}   \* and those no instruction does
Leaves(ix) ==
  CASE ix = "initialize_config" -> {"config"}
    [] ix = "create_market_config" -> {"market_config"}
    [] ix = "open_position" -> {"position"}
    [] ix = "init_leverage_pool" -> {"pool"}
    [] ix = "update_leverage_params" -> {"leverage"}
    [] ix = "post_mark" -> {"marks"}
    [] ix = "redeem" -> {"redeemed"}
    [] OTHER -> {}

StageIxs == {"init_market", "activate_market", "close_market"}

\* What each instruction may do to them, and to the market's stage.
IxFacts(ix, i) ==
  /\ \A f \in Steady : f \notin i.drops
  /\ Leaves(ix) \subseteq i.makes
  /\ ix # "open_leverage" => "lev_position" \notin i.makes
  /\ ix = "close_leverage" => "lev_position" \in i.drops
  /\ ix \notin StageIxs => i.to = "same"
  /\ ix = "init_market" => i.to = "Open" /\ i.stages \subseteq {"Absent"}
  /\ ix = "activate_market" => i.to = "Trading" /\ i.stages = {"Open"}
  /\ ix = "close_market" => i.to = "Absent" /\ i.stages = {"Resolved"}

\* Each instruction but the deposit, from its definition.
LEMMA IxFactsHold ==
  ASSUME NEW ix \in OtherIxs, NEW seed, NEW i, i = Instruction(ix, seed)
  PROVE  IxFacts(ix, i)
<1> USE DEF IxFacts, Leaves, Lasting, Steady, StageIxs
<1>1. CASE ix = "initialize_config"
  BY <1>1 DEF Instruction, initialize_config, Creates, Op
<1>2. CASE ix = "create_market_config"
  <2>1. /\ i.drops = {} /\ i.to = "same"
        /\ "market_config" \in i.makes /\ "lev_position" \notin i.makes
    BY <1>2 DEF Instruction, create_market_config, Creates, Op
  <2> QED BY <1>2, <2>1
<1>3. CASE ix = "open_position"
  BY <1>3 DEF Instruction, open_position, Creates, Op
<1>4. CASE ix = "init_leverage_pool"
  BY <1>4 DEF Instruction, init_leverage_pool, Creates, Op
<1>5. CASE ix = "open_leverage"
  BY <1>5 DEF Instruction, open_leverage, Creates, Op
<1>6. CASE ix = "init_market"
  BY <1>6 DEF Instruction, init_market_ix, Op
<1>7. CASE ix = "activate_market"
  BY <1>7 DEF Instruction, activate_market, Op
<1>8. CASE ix = "buy"
  BY <1>8 DEF Instruction, buy, Op
<1>9. CASE ix = "redeem"
  BY <1>9 DEF Instruction, redeem, Op
<1>10. CASE ix = "close_market"
  BY <1>10 DEF Instruction, close_market, Op
<1>11. CASE ix = "update_leverage_params"
  BY <1>11 DEF Instruction, update_leverage_params, Op
<1>12. CASE ix = "post_mark"
  BY <1>12 DEF Instruction, post_mark, Op
<1>13. CASE ix = "close_leverage"
  BY <1>13 DEF Instruction, close_leverage, Op
<1>14. CASE ix = "faucet"
  BY <1>14 DEF Instruction, faucet, Op
<1>15. CASE ix = "farm"
  BY <1>15 DEF Instruction, farm, faucet, Op
<1>16. CASE ix \in {"subscribe", "fund_temp", "sweep"}
  BY <1>16 DEF Instruction, subscribe, fund_temp, sweep, Op
<1> QED BY <1>1, <1>2, <1>3, <1>4, <1>5, <1>6, <1>7, <1>8, <1>9, <1>10, <1>11, <1>12, <1>13, <1>14,
           <1>15, <1>16 DEF OtherIxs

\* A transaction that lands takes no lasting fact back, and none reopens a leveraged
\* position or moves the market but by the instruction for it.
StagesMove(ixs, from, to) ==
  \/ to = from
  \/ ixs = <<"init_market">> /\ from = "Absent" /\ to = "Open"
  \/ ixs = <<"activate_market">> /\ from = "Open" /\ to = "Trading"
  \/ ixs = <<"close_market">> /\ from = "Resolved" /\ to = "Absent"

\* What a transaction that succeeds does to the facts and to the stage.
LEMMA LandKeeps ==
  ASSUME NEW tx, SafeTx(tx), NEW after, after = Outcome(tx), after.ok
  PROVE  /\ \A w : \A f \in Steady : <<f, w>> \in chain.made => <<f, w>> \in after.made
         /\ tx.ixs # <<"open_leverage">> /\ <<"lev_position", 0>> \notin chain.made =>
              <<"lev_position", 0>> \notin after.made
         /\ StagesMove(tx.ixs, chain.stage, after.stage)
<1>1. CASE tx.ixs = <<>>
  <2>1. after = Ground
    BY <1>1, OutcomeOfNone
  <2> QED BY <2>1 DEF Ground, StagesMove
<1>2. ASSUME NEW ix \in OtherIxs, tx.ixs = <<ix>>
      PROVE  /\ \A w : \A f \in Steady : <<f, w>> \in chain.made => <<f, w>> \in after.made
             /\ tx.ixs # <<"open_leverage">> /\ <<"lev_position", 0>> \notin chain.made =>
                  <<"lev_position", 0>> \notin after.made
             /\ StagesMove(tx.ixs, chain.stage, after.stage)
  <2>1. after = Run(Ground, ix, tx.w, tx.seed)
    BY <1>2, OutcomeOfOne
  <2>2. PICK i : i = Instruction(ix, tx.seed)
    OBVIOUS
  <2>3. IxFacts(ix, i)
    BY <2>2, IxFactsHold
  <2>4. /\ after.made = (chain.made \cup {<<f, tx.w>> : f \in i.makes}) \ {<<f, tx.w>> : f \in i.drops}
        /\ chain.stage \in i.stages
        /\ after.stage = IF i.to = "same" THEN chain.stage ELSE i.to
    BY <2>1, <2>2, Effect
  <2>5. \A w : \A f \in Steady : <<f, w>> \notin {<<g, tx.w>> : g \in i.drops}
    BY <2>3 DEF IxFacts
  <2>6. tx.ixs # <<"open_leverage">> => <<"lev_position", 0>> \notin {<<g, tx.w>> : g \in i.makes}
    BY <1>2, <2>3 DEF IxFacts
  <2>7. StagesMove(tx.ixs, chain.stage, after.stage)
    BY <1>2, <2>3, <2>4 DEF IxFacts, StagesMove, StageIxs
  <2> QED BY <2>4, <2>5, <2>6, <2>7
<1>3. CASE tx.ixs = Bundle
  <2>1. tx.w = 0
    BY <1>3 DEF SafeTx
  <2>2. PICK mid : mid = Run(Ground, "open_lp_account", 0, tx.seed)
    OBVIOUS
  <2>3. after = Run(mid, "deposit_lp", 0, tx.seed)
    BY <1>3, <2>1, <2>2, OutcomeOfTwo DEF Bundle
  <2>4. /\ after.made = chain.made \cup {<<"lp_account", 0>>, <<"lp_shares", 0>>}
        /\ after.stage = chain.stage
    BY <2>2, <2>3, BundleEffect
  <2> QED BY <2>4 DEF StagesMove
<1>4. CASE tx.ixs = Alone
  <2>1. after = Run(Ground, "deposit_lp", 0, tx.seed)
    BY <1>4, OutcomeOfOne DEF SafeTx, Alone
  <2>2. after.made = chain.made \cup {<<"lp_shares", 0>>} /\ after.stage = chain.stage
    BY <2>1, AloneRun
  <2> QED BY <2>2 DEF StagesMove
<1> QED BY <1>1, <1>2, <1>3, <1>4 DEF SafeTx, SafeIxs, OtherTx

\* What one of the operator's own leaves behind.
LEMMA LandLeaves ==
  ASSUME NEW tx, SafeTx(tx), tx.w = 0, NEW after, after = Outcome(tx), after.ok
  PROVE  /\ \A ix \in OtherIxs : tx.ixs = <<ix>> =>
              /\ \A f \in Leaves(ix) : <<f, 0>> \in after.made
              /\ ix = "close_leverage" => <<"lev_position", 0>> \notin after.made
              /\ ix = "init_market" => after.stage = "Open"
              /\ ix = "activate_market" => after.stage = "Trading"
              /\ ix = "close_market" => after.stage = "Absent"
         /\ tx.ixs \in {Bundle, Alone} => <<"lp_shares", 0>> \in after.made
<1>1. ASSUME NEW ix \in OtherIxs, tx.ixs = <<ix>>
      PROVE  /\ \A f \in Leaves(ix) : <<f, 0>> \in after.made
             /\ ix = "close_leverage" => <<"lev_position", 0>> \notin after.made
             /\ ix = "init_market" => after.stage = "Open"
             /\ ix = "activate_market" => after.stage = "Trading"
             /\ ix = "close_market" => after.stage = "Absent"
  <2>1. after = Run(Ground, ix, 0, tx.seed)
    BY <1>1, OutcomeOfOne
  <2>2. PICK i : i = Instruction(ix, tx.seed)
    OBVIOUS
  <2>3. IxFacts(ix, i) /\ Leaves(ix) \subseteq Lasting
    BY <2>2, IxFactsHold DEF Leaves, Lasting
  <2>4. /\ after.made = (chain.made \cup {<<f, 0>> : f \in i.makes}) \ {<<f, 0>> : f \in i.drops}
        /\ after.stage = IF i.to = "same" THEN chain.stage ELSE i.to
    BY <2>1, <2>2, Effect
  <2>5. \A f \in Leaves(ix) : f \in i.makes /\ f \notin i.drops
    BY <2>3 DEF IxFacts, Steady
  <2>6. \A f \in Leaves(ix) : <<f, 0>> \in after.made
    BY <2>4, <2>5
  <2>7. ix = "close_leverage" => <<"lev_position", 0>> \notin after.made
    BY <2>3, <2>4 DEF IxFacts
  <2>8. /\ ix = "init_market" => after.stage = "Open"
        /\ ix = "activate_market" => after.stage = "Trading"
        /\ ix = "close_market" => after.stage = "Absent"
    BY <2>3, <2>4 DEF IxFacts
  <2> QED BY <2>6, <2>7, <2>8
<1>2. CASE tx.ixs = Bundle
  <2>1. PICK mid : mid = Run(Ground, "open_lp_account", 0, tx.seed)
    OBVIOUS
  <2>2. after = Run(mid, "deposit_lp", 0, tx.seed)
    BY <1>2, <2>1, OutcomeOfTwo DEF Bundle
  <2>3. after.made = chain.made \cup {<<"lp_account", 0>>, <<"lp_shares", 0>>}
    BY <2>1, <2>2, BundleEffect
  <2> QED BY <1>1, <2>3
<1>3. CASE tx.ixs = Alone
  <2>1. after = Run(Ground, "deposit_lp", 0, tx.seed)
    BY <1>3, OutcomeOfOne DEF Alone
  <2> QED BY <1>1, <2>1, AloneRun
<1> QED BY <1>1, <1>2, <1>3

-----------------------------------------------------------------------------
(* The chain moves on, and takes nothing back that a step has brought about. *)

Onward(made, stage) ==
  /\ \A f \in Lasting : <<f, 0>> \in chain.made => <<f, 0>> \in made
  /\ Settled(exec) /\ <<"lev_position", 0>> \notin chain.made => <<"lev_position", 0>> \notin made
  /\ script = "devnet-init" =>
       /\ chain.stage # "Absent" => stage # "Absent"
       /\ chain.stage \notin {"Absent", "Open"} => stage \notin {"Absent", "Open"}
  /\ script = "enable-leverage" => stage = chain.stage
  /\ script = "close-market" => (chain.stage = "Absent" => stage = "Absent")
  /\ script = "txline-token" /\ exec.at # "off" /\ <<"valid", 0>> \in chain.made =>
       <<"valid", 0>> \in made

\* Goals stay reached.
LEMMA GoalKept ==
  ASSUME script' = script, Onward(chain'.made, chain'.stage), NEW n, Goal(n),
         script = "leverage-circle" /\ n = 10 => Settled(exec)
  PROVE  Goal(n)'
BY DEF Goal, Onward, Lasting, Has, Exists

\* Nor is what a finished script has brought about taken back.
LEMMA ReadyKept ==
  ASSUME script' = script, Onward(chain'.made, chain'.stage), Ready, exec.at = "done"
  PROVE  Ready'
<1>1. script = "leverage-circle" => Settled(exec)
  BY DEF Settled
<1> QED BY <1>1 DEF Ready, Onward, Lasting, Has, Exists

\* No transaction on its way takes back what the script at hand has passed.
LEMMA LandOnward ==
  ASSUME DepositInv, ReadyInv, NEW tx \in flying, Land(tx)
  PROVE  Onward(chain'.made, chain'.stage)
<1>1. PICK after : after = Outcome(tx)
  OBVIOUS
<1>2. CASE ~after.ok
  BY <1>1, <1>2 DEF Land, Onward
<1>3. CASE after.ok
  <2>1. chain'.made = after.made /\ chain'.stage = after.stage
    BY <1>1, <1>3 DEF Land
  <2>2. /\ \A w : \A f \in Steady : <<f, w>> \in chain.made => <<f, w>> \in after.made
        /\ tx.ixs # <<"open_leverage">> /\ <<"lev_position", 0>> \notin chain.made =>
             <<"lev_position", 0>> \notin after.made
        /\ StagesMove(tx.ixs, chain.stage, after.stage)
    BY <1>1, <1>3, GoodNow, LandKeeps
  <2>3. \A ix \in Banned(exec) : tx.ixs # <<ix>>
    BY DEF ReadyInv, Quiet
  <2>4. Settled(exec) => tx.ixs # <<"open_leverage">>
    BY <2>3 DEF Banned, Settled
  <2>5. script = "devnet-init" => tx.ixs # <<"close_market">>
    BY <2>3 DEF Banned
  <2>6. script = "enable-leverage" => after.stage = chain.stage
    BY <2>2, <2>3 DEF Banned, StagesMove
  <2>7. script = "close-market" => tx.ixs # <<"init_market">>
    BY <2>3 DEF Banned
  <2> QED BY <2>1, <2>2, <2>4, <2>5, <2>6, <2>7 DEF Onward, StagesMove, Steady
<1> QED BY <1>2, <1>3

\* Nor does what the others do: kickoff, the keeper, time.
LEMMA WorldOnward ==
  ASSUME DepositInv,
         \/ Kickoff \/ KeeperMoves \/ GraceElapses
         \/ \E fact \in {"claimed", "fresh", "valid"} : Passes(fact)
  PROVE  Onward(chain'.made, chain'.stage)
<1>1. chain = ChainRecord(chain)
  BY DEF DepositInv
<1>2. ASSUME NEW made, NEW stage, Becomes(made, stage) PROVE chain'.made = made /\ chain'.stage = stage
  BY <1>1, <1>2 DEF Becomes, ChainRecord
<1>3. CASE Kickoff
  <2>1. chain'.made = chain.made \cup Facts({"kicked"}) /\ chain'.stage = chain.stage
    BY <1>2, <1>3 DEF Kickoff
  <2>2. <<"lev_position", 0>> \notin Facts({"kicked"})
    BY DEF Facts
  <2> QED BY <2>1, <2>2 DEF Onward
<1>4. CASE KeeperMoves
  <2>1. /\ script \in {"devnet-init", "full-circle"} /\ chain'.made = chain.made
        /\ chain.stage # "Absent" /\ chain'.stage \in {"Trading", "Frozen", "Resolved"}
    BY <1>2, <1>4 DEF KeeperMoves
  <2> QED BY <2>1 DEF Onward
<1>5. CASE GraceElapses
  <2>1. chain'.made = chain.made \cup Facts({"grace"}) /\ chain'.stage = chain.stage
    BY <1>2, <1>5 DEF GraceElapses
  <2>2. <<"lev_position", 0>> \notin Facts({"grace"})
    BY DEF Facts
  <2> QED BY <2>1, <2>2 DEF Onward
<1>6. ASSUME NEW fact \in {"claimed", "fresh", "valid"}, Passes(fact)
      PROVE  Onward(chain'.made, chain'.stage)
  <2>1. chain'.made = chain.made \ Facts({fact}) /\ chain'.stage = chain.stage /\ exec.at = "off"
    BY <1>2, <1>6 DEF Passes
  <2>2. \A f \in Lasting : <<f, 0>> \notin Facts({fact})
    BY <1>6 DEF Lasting, Facts
  <2> QED BY <2>1, <2>2 DEF Onward
<1> QED BY <1>3, <1>4, <1>5, <1>6

\* The step that sent the transaction which lands has reached its goal.
LEMMA SentReaches ==
  ASSUME DepositInv, ReadyInv, Underway(exec), exec.tx \in flying, Land(exec.tx),
         Outcome(exec.tx).ok, NEW n, n = exec.pc
  PROVE  Goal(n)'
<1>1. PICK after : after = Outcome(exec.tx)
  OBVIOUS
<1>2. chain'.made = after.made /\ chain'.stage = after.stage /\ script' = script
  BY <1>1 DEF Land
<1>6. SafeTx(exec.tx) /\ Sends(n, exec.tx.ixs) /\ (script # "fund-usdt" => exec.tx.w = 0)
  BY GoodNow DEF ReadyInv, ReadyExec
<1>7. ASSUME script # "fund-usdt"
      PROVE  Goal(n)'
  <2>1. /\ \A ix \in OtherIxs : exec.tx.ixs = <<ix>> =>
             /\ \A f \in Leaves(ix) : <<f, 0>> \in after.made
             /\ ix = "close_leverage" => <<"lev_position", 0>> \notin after.made
             /\ ix = "init_market" => after.stage = "Open"
             /\ ix = "activate_market" => after.stage = "Trading"
             /\ ix = "close_market" => after.stage = "Absent"
        /\ exec.tx.ixs \in {Bundle, Alone} => <<"lp_shares", 0>> \in after.made
    BY <1>1, <1>6, <1>7, LandLeaves
  <2>2. CASE script = "devnet-init"
    BY <1>2, <1>6, <2>1, <2>2 DEF Goal, Sends, Names, OtherIxs, Leaves, Has, Exists
  <2>3. CASE script = "enable-leverage"
    BY <1>2, <1>6, <2>1, <2>3 DEF Goal, Sends, Names, OtherIxs, Leaves, Has, Exists
  <2>4. CASE script = "full-circle"
    BY <1>2, <1>6, <2>1, <2>4 DEF Goal, Sends, Names, OtherIxs, Leaves, Has, Exists
  <2>5. CASE script = "leverage-circle"
    <3>1. CASE n = 5
      BY <1>2, <1>6, <2>1, <2>5, <3>1 DEF Goal, Sends, Names, Alone, Has
    <3>2. CASE n = 10
      BY <1>2, <1>6, <2>1, <2>5, <3>2 DEF Goal, Sends, Names, OtherIxs, Has
    <3> QED BY <1>2, <2>5, <3>1, <3>2 DEF Goal
  <2>6. CASE script = "close-market"
    BY <1>2, <1>6, <2>1, <2>6 DEF Goal, Sends, Names, OtherIxs, Leaves, Has, Exists
  <2>7. CASE script = "txline-token"
    BY <1>2, <2>7 DEF Goal
  <2> QED BY <1>7, <2>2, <2>3, <2>4, <2>5, <2>6, <2>7 DEF DepositInv, ScriptNames
<1>8. script = "fund-usdt" => Goal(n)'
  BY <1>2 DEF Goal
<1> QED BY <1>7, <1>8

-----------------------------------------------------------------------------
(* What a look at the chain tells the script: a step that goes on has its goal, *)
(* and one that sends sends what brings it about.                               *)

StepMeans(n, d) ==
  /\ d.do = "skip" => Goal(n)
  /\ d.do = "finish" => Ready /\ script # "leverage-circle"
  /\ d.do = "send" => Sends(n, d.ixs)
  /\ d.do = "write" => script = "txline-token"
  /\ d.do = "http" => script = "txline-token"
  /\ script = "txline-token" /\ n = 6 => d.do = "write"
  /\ script = "leverage-circle" /\ n = 9 => d.do # "skip" /\ (d.do = "send" => flying = {})

\* The steps of the scripts, one after the other.
LEMMA InitStepsMean ==
  ASSUME script = "devnet-init", NEW n \in 1..8, \A m \in 1..(n - 1) : Goal(m)
  PROVE  StepMeans(n, Plan[n])
<1> USE DEF StepMeans, Goal, Sends, Names, Has, Exists, Unless, Proceed, Send, Wait, Throw, Do
<1>1. CASE n = 1
  <2>1. Plan[n] = InitConfig
    BY <1>1 DEF Plan
  <2> QED BY <1>1, <2>1 DEF InitConfig
<1>2. CASE n = 2
  <2>1. Plan[n] = InitMarketConfig
    BY <1>2 DEF Plan
  <2> QED BY <1>2, <2>1 DEF InitMarketConfig
<1>3. CASE n = 3
  <2>1. Plan[n] = InitFaucet
    BY <1>3 DEF Plan
  <2> QED BY <1>3, <2>1 DEF InitFaucet
<1>4. CASE n = 4
  <2>1. Plan[n] = InitMarket
    BY <1>4 DEF Plan
  <2> QED BY <1>4, <2>1 DEF InitMarket
<1>5. CASE n = 5
  <2>1. Plan[n] = InitPosition
    BY <1>5 DEF Plan
  <2> QED BY <1>5, <2>1 DEF InitPosition
<1>6. CASE n = 6
  <2>1. Plan[n] = InitActivate
    BY <1>6 DEF Plan
  <2>2. Goal(4)
    BY <1>6
  <2> QED BY <1>6, <2>1, <2>2 DEF InitActivate
<1>7. CASE n = 7
  <2>1. Plan[n] = InitBuy
    BY <1>7 DEF Plan
  <2> QED BY <1>7, <2>1 DEF InitBuy
<1>8. CASE n = 8
  <2>1. Plan[n] = InitVerify
    BY <1>8 DEF Plan
  <2> QED BY <1>8, <2>1 DEF InitVerify
<1> QED BY <1>1, <1>2, <1>3, <1>4, <1>5, <1>6, <1>7, <1>8

\* The steps of enable-leverage pass with their goals, or send for them.
LEMMA EnableStepsMean ==
  ASSUME AccountHasShares, LiveStages, script = "enable-leverage", NEW n \in 1..6, \A m \in 1..(n - 1) : Goal(m)
  PROVE  StepMeans(n, Plan[n])
<1> USE DEF StepMeans, Goal, Sends, Names, Has, Exists, Unless, Proceed, Send, Wait, Throw, Do
<1>1. CASE n = 1
  <2>1. Plan[n] = EnableParams
    BY <1>1 DEF Plan
  <2> QED BY <1>1, <2>1 DEF EnableParams
<1>2. CASE n = 2
  <2>1. Plan[n] = EnableLive
    BY <1>2 DEF Plan
  <2> QED BY <1>2, <2>1 DEF EnableLive, Ready, LiveStages
<1>3. CASE n = 3
  <2>1. Plan[n] = EnableBudget
    BY <1>3 DEF Plan
  <2> QED BY <1>3, <2>1 DEF EnableBudget
<1>4. CASE n = 4
  <2>1. Plan[n] = EnablePool
    BY <1>4 DEF Plan
  <2> QED BY <1>4, <2>1 DEF EnablePool
<1>5. CASE n = 5
  <2>1. Plan[n] = EnableDeposit
    BY <1>5 DEF Plan
  <2> QED BY <1>5, <2>1 DEF EnableDeposit, Bundle
<1>6. CASE n = 6
  <2>1. Plan[n] = EnableMark
    BY <1>6 DEF Plan
  <2>2. Goal(4)
    BY <1>6
  <2> QED BY <1>6, <2>1, <2>2 DEF EnableMark
<1> QED BY <1>1, <1>2, <1>3, <1>4, <1>5, <1>6

\* The steps of full-circle likewise.
LEMMA CircleStepsMean ==
  ASSUME script = "full-circle", NEW n \in 1..9, \A m \in 1..(n - 1) : Goal(m)
  PROVE  StepMeans(n, Plan[n])
<1> USE DEF StepMeans, Goal, Sends, Names, Has, Exists, Unless, Proceed, Send, Wait, Throw, Do
<1>1. CASE n = 1
  <2>1. Plan[n] = CircleFunding
    BY <1>1 DEF Plan
  <2> QED BY <1>1, <2>1 DEF CircleFunding
<1>2. CASE n = 2
  <2>1. Plan[n] = CircleShrink
    BY <1>2 DEF Plan
  <2> QED BY <1>2, <2>1 DEF CircleShrink
<1>3. CASE n = 3
  <2>1. Plan[n] = CircleMarket
    BY <1>3 DEF Plan
  <2> QED BY <1>3, <2>1 DEF CircleMarket
<1>4. CASE n = 4
  <2>1. Plan[n] = InitPosition
    BY <1>4 DEF Plan
  <2> QED BY <1>4, <2>1 DEF InitPosition
<1>5. CASE n = 5
  <2>1. Plan[n] = CircleBuy
    BY <1>5 DEF Plan
  <2> QED BY <1>5, <2>1 DEF CircleBuy
<1>6. CASE n = 6
  <2>1. Plan[n] = CircleResolved
    BY <1>6 DEF Plan
  <2> QED BY <1>6, <2>1 DEF CircleResolved
<1>7. CASE n = 7
  <2>1. Plan[n] = CircleRedeem
    BY <1>7 DEF Plan
  <2> QED BY <1>7, <2>1 DEF CircleRedeem
<1>8. CASE n = 8
  <2>1. Plan[n] = CircleArtifacts
    BY <1>8 DEF Plan
  <2> QED BY <1>8, <2>1 DEF CircleArtifacts
<1>9. CASE n = 9
  <2>1. Plan[n] = CircleVerify
    BY <1>9 DEF Plan
  <2> QED BY <1>9, <2>1 DEF CircleVerify
<1> QED BY <1>1, <1>2, <1>3, <1>4, <1>5, <1>6, <1>7, <1>8, <1>9

\* The steps of leverage-circle likewise; the close needs the account's shares.
LEMMA LevStepsMean ==
  ASSUME AccountHasShares, script = "leverage-circle", NEW n \in 1..10, n = exec.pc, \A m \in 1..(n - 1) : Goal(m)
  PROVE  StepMeans(n, Plan[n])
<1> USE DEF StepMeans, Goal, Sends, Names, Has, Exists, Unless, Proceed, Send, Wait, Throw, Do
<1>1. CASE n = 1
  <2>1. Plan[n] = LevConfig
    BY <1>1 DEF Plan
  <2> QED BY <1>1, <2>1 DEF LevConfig
<1>2. CASE n = 2
  <2>1. Plan[n] = LevMarket
    BY <1>2 DEF Plan
  <2> QED BY <1>2, <2>1 DEF LevMarket
<1>3. CASE n = 3
  <2>1. Plan[n] = LevActivate
    BY <1>3 DEF Plan
  <2> QED BY <1>3, <2>1 DEF LevActivate
<1>4. CASE n = 4
  <2>1. Plan[n] = EnablePool
    BY <1>4 DEF Plan
  <2> QED BY <1>4, <2>1 DEF EnablePool
<1>5. CASE n = 5
  <2>1. Plan[n] = LevDeposit
    BY <1>5 DEF Plan
  <2> QED BY <1>5, <2>1 DEF LevDeposit, Bundle
<1>6. CASE n = 6
  <2>1. Plan[n] = LevFirstMark
    BY <1>6 DEF Plan
  <2> QED BY <1>6, <2>1 DEF LevFirstMark
<1>7. CASE n = 7
  <2>1. Plan[n] = LevOpen
    BY <1>7 DEF Plan
  <2> QED BY <1>7, <2>1 DEF LevOpen
<1>8. CASE n = 8
  <2>1. Plan[n] = LevSegment
    BY <1>8 DEF Plan
  <2> QED BY <1>8, <2>1 DEF LevSegment
<1>9. CASE n = 9
  <2>1. Plan[n] = LevSegment
    BY <1>9 DEF Plan
  <2>2. LevSegment \in {Throw, Wait, Send("post_mark")}
    BY DEF LevSegment
  <2>3. flying # {} => LevSegment \in {Throw, Wait}
    BY <1>9 DEF LevSegment
  <2> QED BY <1>9, <2>1, <2>2, <2>3
<1>10. CASE n = 10
  <2>1. Plan[n] = LevClose
    BY <1>10 DEF Plan
  <2> QED BY <1>10, <2>1 DEF LevClose
<1> QED BY <1>1, <1>2, <1>3, <1>4, <1>5, <1>6, <1>7, <1>8, <1>9, <1>10

\* The steps of fund-usdt likewise; it may end at once with its target met.
LEMMA FundStepsMean ==
  ASSUME script = "fund-usdt", NEW n \in 1..4, \A m \in 1..(n - 1) : Goal(m)
  PROVE  StepMeans(n, Plan[n])
<1> USE DEF StepMeans, Goal, Sends, Names, Has, Exists, Unless, Proceed, Send, Wait, Throw, Do
<1>1. CASE n = 1
  <2>1. Plan[n] = FundPlan
    BY <1>1 DEF Plan
  <2> QED BY <1>1, <2>1 DEF FundPlan, Ready
<1>2. CASE n = 2
  <2>1. Plan[n] = Send("fund_temp")
    BY <1>2 DEF Plan
  <2> QED BY <1>2, <2>1 DEF Send
<1>3. CASE n = 3
  <2>1. Plan[n] = Send("farm")
    BY <1>3 DEF Plan
  <2> QED BY <1>3, <2>1 DEF Send
<1>4. CASE n = 4
  <2>1. Plan[n] = FundSweep
    BY <1>4 DEF Plan
  <2> QED BY <1>4, <2>1 DEF FundSweep
<1> QED BY <1>1, <1>2, <1>3, <1>4

\* The steps of txline-token likewise.
LEMMA TokenStepsMean ==
  ASSUME script = "txline-token", NEW n \in 1..6, \A m \in 1..(n - 1) : Goal(m)
  PROVE  StepMeans(n, Plan[n])
<1> USE DEF StepMeans, Goal, Sends, Names, Has, Exists, Unless, Proceed, Send, Wait, Throw, Do
<1>1. CASE n = 1
  <2>1. Plan[n] = TokenGuest
    BY <1>1 DEF Plan
  <2> QED BY <1>1, <2>1 DEF TokenGuest, Http
<1>2. CASE n = 2
  <2>1. Plan[n] = TokenProbe
    BY <1>2 DEF Plan
  <2> QED BY <1>2, <2>1 DEF TokenProbe, Http
<1>3. CASE n = 3
  <2>1. Plan[n] = TokenSubscribe
    BY <1>3 DEF Plan
  <2> QED BY <1>3, <2>1 DEF TokenSubscribe
<1>4. CASE n = 4
  <2>1. Plan[n] = TokenActivate
    BY <1>4 DEF Plan
  <2> QED BY <1>4, <2>1 DEF TokenActivate, Http
<1>5. CASE n = 5
  <2>1. Plan[n] = TokenVerify
    BY <1>5 DEF Plan
  <2> QED BY <1>5, <2>1 DEF TokenVerify, Http
<1>6. CASE n = 6
  <2>1. Plan[n] = Do("write", <<>>)
    BY <1>6 DEF Plan
  <2> QED BY <1>6, <2>1 DEF Do
<1> QED BY <1>1, <1>2, <1>3, <1>4, <1>5, <1>6

\* close-market sends what has been simulated without an error.
LEMMA CloseStepMeans ==
  ASSUME script = "close-market", NEW n \in 1..1
  PROVE  StepMeans(n, Plan[n])
<1>1. Plan[n] = CloseMarket
  BY DEF Plan
<1> QED BY <1>1 DEF CloseMarket, StepMeans, Goal, Sends, Names, Send, Throw, Do

\* So it is for every script.
LEMMA LookMeans ==
  ASSUME DepositInv, ReadyInv, exec.at = "look"
  PROVE  StepMeans(exec.pc, Plan[exec.pc])
<1>1. PICK n : n = exec.pc
  OBVIOUS
<1>2. n \in 1..Length /\ script \in ScriptNames /\ AccountHasShares /\ LiveStages
  BY <1>1, GoodNow DEF GoodExec, ReadyInv
<1>3. \A m \in 1..(n - 1) : Goal(m)
  BY <1>1 DEF ReadyInv, ReadyExec, Active
<1> QED BY <1>1, <1>2, <1>3, InitStepsMean, EnableStepsMean, CircleStepsMean, LevStepsMean, CloseStepMeans,
           FundStepsMean, TokenStepsMean DEF Length, ScriptNames

-----------------------------------------------------------------------------
(* The run goes on, on a chain as it was. *)

\* A run for which the invariant holds, whatever is left on its way.
LEMMA RunReady ==
  ASSUME ReadyInv, UNCHANGED <<script, chain>>, NEW v, exec' = v, ReadyExec(v),
         NEW f, flying' = f, \A tx \in f : \A ix \in Banned(v) : tx.ixs # <<ix>>
  PROVE  ReadyInv'
<1>0. /\ \A n : Goal(n) => Goal(n)'
      /\ Ready => Ready'
      /\ \A n, ixs : Sends(n, ixs) => Sends(n, ixs)'
  <2>1. \A n : Goal(n) => Goal(n)'
    BY DEF Goal, Has, Exists
  <2>2. Ready => Ready'
    BY DEF Ready, Has, Exists
  <2>3. \A n, ixs : Sends(n, ixs) => Sends(n, ixs)'
    BY DEF Sends, Names
  <2> QED BY <2>1, <2>2, <2>3
<1>1. ReadyExec(v)' /\ LiveStages'
  BY <1>0 DEF ReadyExec, ReadyInv, LiveStages, Active, Underway
<1>2. Quiet(v)'
  BY DEF Quiet, Banned, Settled, Active, Underway
<1> QED BY <1>1, <1>2 DEF ReadyInv, ReadyExec, Quiet, Banned, Settled, Active, Underway, Sends

\* Nothing more is on its way, and it has not just come to the second segment.
LEMMA CalmReady ==
  ASSUME ReadyInv, UNCHANGED <<script, chain>>, NEW v, exec' = v, ReadyExec(v),
         Settled(v) => Settled(exec), flying' \subseteq flying
  PROVE  ReadyInv'
<1>1. PICK f : f = flying'
  OBVIOUS
<1>2. \A tx \in f : \A ix \in Banned(v) : tx.ixs # <<ix>>
  <2>1. Banned(v) \subseteq Banned(exec)
    BY DEF Banned
  <2> QED BY <1>1, <2>1 DEF ReadyInv, Quiet
<1> QED BY <1>1, <1>2, RunReady

\* What idles or is about to begin has passed nothing.
LEMMA IdleReady ==
  ASSUME NEW v, v \in {Idle, [Idle EXCEPT !.at = "look"]}
  PROVE  ReadyExec(v) /\ ~Settled(v)
<1>1. v.at \in {"off", "look"} /\ v.pc = 1 /\ v.tx = NoTx /\ v.result = "none"
  BY DEF Idle
<1>2. NoTx.w = 0
  BY DEF NoTx
<1> QED BY <1>1, <1>2 DEF ReadyExec, Settled, Active, Underway

\* A run that is over, when the chain is ready.
LEMMA DoneReady ==
  ASSUME Ready, NEW e
  PROVE  ReadyExec(Done(e))
<1>1. PICK v : v = Done(e)
  OBVIOUS
<1>2. v.at = "done" /\ v.tx = NoTx /\ v.result = "none"
  BY <1>1 DEF Done, Idle
<1>3. NoTx.w = 0
  BY DEF NoTx
<1> QED BY <1>1, <1>2, <1>3 DEF ReadyExec, Active, Underway

\* A run that looks at the chain again, all steps before having their goals.
LEMMA LooksReady ==
  ASSUME NEW v, v.at = "look", v.tx = NoTx, v.result = "none", \A m \in 1..(v.pc - 1) : Goal(m)
  PROVE  ReadyExec(v)
<1>1. NoTx.w = 0
  BY DEF NoTx
<1> QED BY <1>1 DEF ReadyExec, Active, Underway

\* What it looks like, whatever it keeps.
LEMMA AtFields ==
  ASSUME NEW e, e = ExecRecord(e), NEW n
  PROVE  /\ At(e, n).at = "look" /\ At(e, n).pc = n /\ At(e, n).tx = NoTx /\ At(e, n).result = "none"
         /\ \A h : /\ [At(e, n) EXCEPT !.have = h].at = "look"
                  /\ [At(e, n) EXCEPT !.have = h].pc = n
                  /\ [At(e, n) EXCEPT !.have = h].tx = NoTx
                  /\ [At(e, n) EXCEPT !.have = h].result = "none"
<1>1. PICK a : a = At(e, n)
  OBVIOUS
<1>2. a.at = "look" /\ a.pc = n /\ a.tx = NoTx /\ a.result = "none" /\ a = ExecRecord(a)
  BY <1>1 DEF At, ExecRecord
<1>3. ASSUME NEW h
      PROVE  /\ [a EXCEPT !.have = h].at = "look"
             /\ [a EXCEPT !.have = h].pc = n
             /\ [a EXCEPT !.have = h].tx = NoTx
             /\ [a EXCEPT !.have = h].result = "none"
  BY <1>2 DEF ExecRecord
<1> QED BY <1>1, <1>2, <1>3

\* All goals together are what the script was run for.
LEMMA GoalsMakeReady ==
  ASSUME script \in ScriptNames, script # "txline-token", \A n \in 1..Length : Goal(n)
  PROVE  Ready
<1>1. CASE script = "devnet-init"
  <2>1. Goal(1) /\ Goal(2) /\ Goal(5) /\ Goal(6)
    BY <1>1 DEF Length
  <2> QED BY <1>1, <2>1 DEF Ready, Goal
<1>2. CASE script = "enable-leverage"
  <2>1. Goal(1) /\ Goal(4) /\ Goal(6)
    BY <1>2 DEF Length
  <2> QED BY <1>2, <2>1 DEF Ready, Goal
<1>3. CASE script = "full-circle"
  <2>1. Goal(7)
    BY <1>3 DEF Length
  <2> QED BY <1>3, <2>1 DEF Ready, Goal
<1>4. CASE script = "leverage-circle"
  <2>1. Goal(5) /\ Goal(10)
    BY <1>4 DEF Length
  <2> QED BY <1>4, <2>1 DEF Ready, Goal
<1>5. CASE script = "close-market"
  <2>1. Goal(1)
    BY <1>5 DEF Length
  <2> QED BY <1>5, <2>1 DEF Ready, Goal
<1>6. CASE script = "fund-usdt"
  BY <1>6 DEF Ready
<1> QED BY <1>1, <1>2, <1>3, <1>4, <1>5, <1>6 DEF ScriptNames

\* The next step of a run that has reached the goals so far.
LEMMA AdvanceReady ==
  ASSUME script \in ScriptNames, NEW e, GoodExec(e), \A n \in 1..e.pc : Goal(n),
         script = "txline-token" => e.pc # 6
  PROVE  /\ ReadyExec(Advance(e))
         /\ Settled(Advance(e)) => e.pc > 8
<1>1. Len(Plan) = Length /\ Length \in Nat \ {0} /\ e.pc \in 1..Length /\ e = ExecRecord(e)
  BY PlanLength DEF GoodExec
<1>2. CASE e.pc < Len(Plan)
  <2>1. PICK v : v = At(e, e.pc + 1)
    OBVIOUS
  <2>2. v.at = "look" /\ v.pc = e.pc + 1 /\ v.tx = NoTx /\ v.result = "none"
    BY <1>1, <2>1, AtFields
  <2>3. \A m \in 1..(v.pc - 1) : Goal(m)
    BY <1>1, <2>2
  <2>4. ReadyExec(v) /\ (Settled(v) => e.pc > 8)
    BY <1>1, <2>2, <2>3, LooksReady DEF Settled, Active, Underway
  <2>5. Advance(e) = v
    BY <1>2, <2>1 DEF Advance
  <2> QED BY <2>4, <2>5
<1>3. CASE ~(e.pc < Len(Plan)) /\ script = "fund-usdt" /\ e.have > 1
  <2>1. PICK v : v = Advance(e)
    OBVIOUS
  <2>2. \E h : v = [At(e, 2) EXCEPT !.have = h]
    <3> HIDE DEF At
    <3> QED BY <1>3, <2>1 DEF Advance
  <2>3. v.at = "look" /\ v.pc = 2 /\ v.tx = NoTx /\ v.result = "none"
    BY <1>1, <2>2, AtFields
  <2>4. \A m \in 1..(v.pc - 1) : Goal(m)
    BY <1>3 DEF Goal
  <2>5. ReadyExec(v)
    BY <2>3, <2>4, LooksReady
  <2> QED BY <1>3, <2>1, <2>5 DEF Settled
<1>4. CASE ~(e.pc < Len(Plan)) /\ ~(script = "fund-usdt" /\ e.have > 1)
  <2>1. e.pc = Length
    BY <1>1, <1>4
  <2>2. script # "txline-token"
    BY <2>1 DEF Length
  <2>3. Ready
    BY <2>1, <2>2, GoalsMakeReady
  <2>4. Settled(Advance(e)) => e.pc > 8
    BY <2>1 DEF Settled, Length
  <2> QED BY <1>4, <2>3, <2>4, DoneReady DEF Advance
<1> QED BY <1>2, <1>3, <1>4

\* What the invariants say of a run under way.
LEMMA UnderReady ==
  ASSUME DepositInv, ReadyInv, Active(exec)
  PROVE  /\ script \in ScriptNames /\ GoodExec(exec) /\ ReadyExec(exec)
         /\ \A n \in 1..(exec.pc - 1) : Goal(n)
BY GoodNow DEF ReadyInv, ReadyExec

\* A step that has thrown ends the run, or had no goal of its own.
LEMMA ThrownReady ==
  ASSUME DepositInv, ReadyInv, Active(exec), NEW e, GoodExec(e), e.pc = exec.pc
  PROVE  ReadyExec(Thrown(e)) /\ ~Settled(Thrown(e))
<1>1. CASE Farming
  <2>1. PICK v : v = [e EXCEPT !.pc = Len(Plan)]
    OBVIOUS
  <2>0. Len(Plan) \in 1..Length
    BY GoodNow, PlanLength
  <2>2. GoodExec(v)
    BY <2>0, <2>1, ExecFields
  <2>3. \A n : Goal(n)
    BY <1>1 DEF Farming, Goal
  <2>4. ReadyExec(Advance(v))
    BY <1>1, <2>2, <2>3, GoodNow, AdvanceReady DEF Farming
  <2> QED BY <1>1, <2>1, <2>4 DEF Thrown, Farming, Settled
<1>2. CASE ~Farming /\ Tolerated
  <2>1. Goal(e.pc) /\ script \notin {"txline-token", "leverage-circle"}
    BY <1>2 DEF Tolerated, Goal
  <2>2. \A n \in 1..e.pc : Goal(n)
    BY <2>1, UnderReady DEF GoodExec
  <2>3. ReadyExec(Advance(e))
    BY <2>1, <2>2, GoodNow, AdvanceReady
  <2> QED BY <1>2, <2>1, <2>3 DEF Thrown, Settled
<1>3. CASE ~Farming /\ ~Tolerated
  BY <1>3, IdleReady DEF Thrown
<1> QED BY <1>1, <1>2, <1>3

\* What is sent again is what was sent before.
LEMMA AgainReady ==
  ASSUME DepositInv, ReadyInv, Underway(exec), exec.result = "none"
  PROVE  ReadyExec(Again) /\ (Settled(Again) => Settled(exec))
<1>1. Active(exec)
  BY DEF Active, Underway
<1>2. CASE exec.attempt < 3
  <2>1. PICK v : v = Again
    OBVIOUS
  <2>2. exec = ExecRecord(exec)
    BY GoodNow DEF GoodExec
  <2>3. v.at = "send" /\ v.pc = exec.pc /\ v.tx = exec.tx /\ v.result = exec.result
    BY <1>2, <2>1, <2>2 DEF Again, ExecRecord
  <2>4. ReadyExec(v)
    BY <1>1, <2>3, UnderReady DEF ReadyExec, Active, Underway
  <2>5. Settled(v) => Settled(exec)
    BY <2>3 DEF Settled, Active, Underway
  <2> QED BY <2>1, <2>4, <2>5
<1>3. CASE ~(exec.attempt < 3)
  BY <1>1, <1>3, GoodNow, ThrownReady DEF Again
<1> QED BY <1>2, <1>3

\* No step sends what would undo the goals before it.
LEMMA SentIsCalm ==
  ASSUME script \in ScriptNames, NEW v, v.pc \in 1..Length, Underway(v), Sends(v.pc, v.tx.ixs)
  PROVE  \A ix \in Banned(v) : v.tx.ixs # <<ix>>
<1>1. CASE script = "devnet-init"
  BY <1>1 DEF Banned, Sends, Names, Length
<1>2. CASE script = "enable-leverage"
  BY <1>2 DEF Banned, Sends, Names, Length, Bundle
<1>3. CASE script = "close-market"
  BY <1>3 DEF Banned, Sends, Names, Length
<1>4. CASE script = "leverage-circle"
  <2>1. Settled(v) => v.pc \in {9, 10}
    BY <1>4 DEF Settled, Underway, Length
  <2>2. v.pc \in {9, 10} => v.tx.ixs \in {<<"post_mark">>, <<"close_leverage">>}
    BY <1>4 DEF Sends, Names
  <2> QED BY <1>4, <2>1, <2>2 DEF Banned
<1>5. CASE script \in {"full-circle", "fund-usdt", "txline-token"}
  BY <1>5 DEF Banned, Settled
<1> QED BY <1>1, <1>2, <1>3, <1>4, <1>5 DEF ScriptNames

\* Starting a script.
LEMMA StartReady == ASSUME ReadyInv, Start PROVE ReadyInv'
<1>1. PICK v : v = [Idle EXCEPT !.at = "look"]
  OBVIOUS
<1>2. exec' = v /\ UNCHANGED <<script, chain, flying>>
  BY <1>1 DEF Start
<1> QED BY <1>1, <1>2, IdleReady, CalmReady

\* Looking at the chain.
LEMMA LookReady == ASSUME DepositInv, ReadyInv, Look PROVE ReadyInv'
<1>1. PICK e : e = [exec EXCEPT !.have = Kept]
  OBVIOUS
<1>2. exec = ExecRecord(exec) /\ script \in ScriptNames /\ exec.pc \in 1..Length
  BY GoodNow DEF GoodExec
<1>3. GoodExec(e) /\ e.pc = exec.pc /\ e.at = exec.at /\ e.result = exec.result
  <2>1. GoodExec(e)
    BY <1>1, GoodNow, ExecFields
  <2> QED BY <1>1, <1>2, <2>1 DEF ExecRecord
<1>4. UNCHANGED <<script, chain, flying>> /\ exec.at = "look" /\ Active(exec)
  BY DEF Look, Active
<1>5. PICK d : d = Plan[exec.pc]
  OBVIOUS
<1>6. StepMeans(exec.pc, d)
  BY <1>4, <1>5, LookMeans
<1>7. \A n \in 1..(exec.pc - 1) : Goal(n)
  BY <1>4, UnderReady
<1>8. CASE d.do = "skip" /\ exec' = Advance(e)
  <2>1. Goal(exec.pc) /\ (script = "txline-token" => exec.pc # 6)
        /\ (script = "leverage-circle" => exec.pc # 9)
    BY <1>6, <1>8 DEF StepMeans
  <2>2. \A n \in 1..e.pc : Goal(n)
    BY <1>2, <1>3, <1>7, <2>1
  <2>3. ReadyExec(Advance(e)) /\ (Settled(Advance(e)) => e.pc > 8)
    BY <1>2, <1>3, <2>1, <2>2, AdvanceReady
  <2>4. Settled(Advance(e)) => Settled(exec)
    BY <1>2, <1>3, <1>4, <2>1, <2>3 DEF Settled
  <2> QED BY <1>4, <1>8, <2>3, <2>4, CalmReady
<1>9. CASE d.do = "finish" /\ exec' = Done(e)
  <2>1. Ready /\ script # "leverage-circle"
    BY <1>6, <1>9 DEF StepMeans
  <2>2. ~Settled(Done(e))
    BY <2>1 DEF Settled
  <2> QED BY <1>4, <1>9, <2>1, <2>2, DoneReady, CalmReady
<1>10. CASE exec' = Thrown(e)
  BY <1>3, <1>4, <1>10, ThrownReady, CalmReady
<1>11. CASE /\ d.do = "send"
            /\ exec' = [e EXCEPT !.at = "send",
                                 !.tx = [ixs |-> d.ixs, w |-> Wallet, seed |-> d.seed, id |-> failures]]
  <2>1. PICK tx : tx = [ixs |-> d.ixs, w |-> Wallet, seed |-> d.seed, id |-> failures]
    OBVIOUS
  <2>2. PICK v : v = [e EXCEPT !.at = "send", !.tx = tx]
    OBVIOUS
  <2>3. e = ExecRecord(e)
    BY <1>3 DEF GoodExec
  <2>4. v.at = "send" /\ v.pc = exec.pc /\ v.tx = tx /\ v.result = exec.result
    BY <1>3, <2>2, <2>3 DEF ExecRecord
  <2>5. tx.ixs = d.ixs /\ (script # "fund-usdt" => tx.w = 0)
    BY <2>1 DEF Wallet, Farming
  <2>6. Sends(v.pc, v.tx.ixs)
    BY <1>6, <1>11, <2>4, <2>5 DEF StepMeans
  <2>7. exec.result = "none"
    BY <1>4 DEF ReadyInv, ReadyExec
  <2>8. ReadyExec(v)
    BY <1>7, <2>4, <2>5, <2>6, <2>7 DEF ReadyExec, Active, Underway
  <2>9. Settled(v) => Settled(exec) \/ flying = {}
    BY <1>2, <1>4, <1>6, <1>11, <2>4 DEF Settled, Active, Underway, StepMeans
  <2>10. \A t \in flying : \A ix \in Banned(v) : t.ixs # <<ix>>
    BY <2>9 DEF Banned, ReadyInv, Quiet
  <2>11. exec' = v /\ flying' = flying
    BY <1>4, <1>11, <2>1, <2>2
  <2> QED BY <1>4, <2>8, <2>10, <2>11, RunReady
<1> QED BY <1>1, <1>5, <1>8, <1>9, <1>10, <1>11 DEF Look

\* Calls that fail, waits given up and kills.
LEMMA ThrowReady ==
  ASSUME DepositInv, ReadyInv, TireOfWaiting \/ RpcFails \/ Crash
  PROVE  ReadyInv'
<1>1. UNCHANGED <<script, chain, flying>> /\ exec.at \notin {"off", "done"}
  BY DEF TireOfWaiting, RpcFails, Crash, waiting
<1>2. Active(exec)
  BY <1>1 DEF Active, ReadyInv, ReadyExec
<1>3. exec' = Thrown(exec) \/ exec' = Idle
  BY DEF TireOfWaiting, RpcFails, Crash
<1>4. ReadyExec(Thrown(exec)) /\ ~Settled(Thrown(exec)) /\ ReadyExec(Idle) /\ ~Settled(Idle)
  BY <1>2, GoodNow, ThrownReady, IdleReady
<1> QED BY <1>1, <1>3, <1>4, CalmReady

\* The calls of txline-token, none of which is its last step.
LEMMA CallReady == ASSUME DepositInv, ReadyInv, CallApi PROVE ReadyInv'
<1>1. UNCHANGED <<script, chain, flying>> /\ exec.at = "look" /\ Active(exec)
  BY DEF CallApi, Active
<1>2. script = "txline-token" /\ exec.pc # 6
  <2>1. Plan[exec.pc].do = "http"
    BY DEF CallApi
  <2> QED BY <1>1, <2>1, LookMeans DEF StepMeans
<1>3. PICK a : a = Advance(exec)
  OBVIOUS
<1>4. /\ GoodExec(exec) /\ exec = ExecRecord(exec) /\ exec.pc \in 1..Length
      /\ Length = 6 /\ Len(Plan) = 6
  BY <1>2, GoodNow, PlanLength DEF GoodExec, Length
<1>5. a = At(exec, exec.pc + 1)
  BY <1>2, <1>3, <1>4 DEF Advance
<1>6. exec' = Idle \/ \E x : exec' = [a EXCEPT !.have = x]
  BY <1>3 DEF CallApi
<1>7. ASSUME NEW x, exec' = [a EXCEPT !.have = x]
      PROVE  ReadyInv'
  <2>1. PICK v : v = [a EXCEPT !.have = x]
    OBVIOUS
  <2>2. v.at = "look" /\ v.tx = NoTx /\ v.result = "none"
    BY <1>4, <1>5, <2>1, AtFields
  <2>3. \A n \in 1..(v.pc - 1) : Goal(n)
    BY <1>2 DEF Goal
  <2>4. ReadyExec(v) /\ ~Settled(v)
    BY <1>2, <2>2, <2>3, LooksReady DEF Settled
  <2> QED BY <1>1, <1>7, <2>1, <2>4, CalmReady
<1> QED BY <1>1, <1>6, <1>7, IdleReady, CalmReady

\* The token gets into .env.
LEMMA PersistReady == ASSUME DepositInv, ReadyInv, persistEnv PROVE ReadyInv'
<1>1. /\ exec.at = "look" /\ exec' = Done(exec) /\ script' = script /\ flying' = flying
      /\ Plan[exec.pc].do = "write"
  BY DEF persistEnv
<1>2. script = "txline-token"
  BY <1>1, LookMeans DEF StepMeans
<1>3. chain = ChainRecord(chain)
  BY DEF DepositInv
<1>4. chain'.made = chain.made \cup Facts({"token", "valid"})
  BY <1>3 DEF persistEnv, ChainRecord
<1>5. Ready'
  BY <1>1, <1>2, <1>4 DEF Ready, Has, Facts
<1>6. PICK v : v = Done(exec)
  OBVIOUS
<1>7. v.at = "done" /\ v.tx.w = 0 /\ v.result = "none"
  BY <1>6 DEF Done, Idle, NoTx
<1>8. ReadyExec(v)'
  BY <1>5, <1>7 DEF ReadyExec, Active, Underway
<1>9. Quiet(v)' /\ LiveStages'
  BY <1>1, <1>2 DEF Quiet, Banned, Settled, LiveStages
<1> QED BY <1>1, <1>6, <1>8, <1>9 DEF ReadyInv, ReadyExec, Quiet, Banned, Settled, Active, Underway, Sends

\* The transaction of an attempt is the one of the step.
LEMMA AttemptSame ==
  ASSUME DepositInv
  PROVE  /\ Attempt.ixs = exec.tx.ixs /\ Attempt.w = exec.tx.w /\ Attempt.id = failures
         /\ Attempt = TxRecord(Attempt)
<1>1. PICK t : t = exec.tx /\ t = TxRecord(t)
  BY GoodNow DEF GoodExec, SafeTx
<1>2. PICK a : a = Attempt
  OBVIOUS
<1>3. a = [t EXCEPT !.id = failures]
  BY <1>1, <1>2 DEF Attempt
<1>4. a.ixs = t.ixs /\ a.w = t.w /\ a.id = failures /\ a = TxRecord(a)
  BY <1>1, <1>3 DEF TxRecord
<1> QED BY <1>1, <1>2, <1>4

\* Sending a transaction.
LEMMA SubmitReady == ASSUME DepositInv, ReadyInv, Submit PROVE ReadyInv'
<1>1. UNCHANGED <<script, chain>> /\ exec.at = "send" /\ Active(exec) /\ Underway(exec)
  BY DEF Submit, Active, Underway
<1>2. exec.result = "none" /\ Sends(exec.pc, exec.tx.ixs) /\ script \in ScriptNames
      /\ exec.pc \in 1..Length /\ exec = ExecRecord(exec)
  BY <1>1, GoodNow DEF ReadyInv, ReadyExec, GoodExec
<1>3. PICK a : a = Attempt
  OBVIOUS
<1>4. a.ixs = exec.tx.ixs /\ a.w = exec.tx.w
  BY <1>3, AttemptSame
<1>5. \A v : (Settled(v) => Settled(exec)) =>
             \A tx \in flying \cup {a} : \A ix \in Banned(v) : tx.ixs # <<ix>>
  <2>1. \A ix \in Banned(exec) : exec.tx.ixs # <<ix>>
    BY <1>1, <1>2, SentIsCalm
  <2>2. \A v : (Settled(v) => Settled(exec)) => Banned(v) \subseteq Banned(exec)
    BY DEF Banned
  <2> QED BY <1>4, <2>1, <2>2 DEF ReadyInv, Quiet
<1>6. PICK f : f = flying' /\ f \subseteq flying \cup {a}
  BY <1>3 DEF Submit, Accepted, Refused, Unsent
<1>7. CASE exec' = Thrown(exec)
  <2>1. ReadyExec(Thrown(exec)) /\ ~Settled(Thrown(exec))
    BY <1>1, GoodNow, ThrownReady
  <2> QED BY <1>1, <1>5, <1>6, <1>7, <2>1, RunReady
<1>8. CASE exec' = Again
  <2>1. ReadyExec(Again) /\ (Settled(Again) => Settled(exec))
    BY <1>1, <1>2, AgainReady
  <2> QED BY <1>1, <1>5, <1>6, <1>8, <2>1, RunReady
<1>9. CASE Accepted
  <2>1. PICK v : v = [exec EXCEPT !.at = "poll", !.tx = a]
    OBVIOUS
  <2>2. v.at = "poll" /\ v.pc = exec.pc /\ v.tx = a /\ v.result = "none"
    BY <1>2, <2>1 DEF ExecRecord
  <2>3. exec' = v
    BY <1>3, <1>9, <2>1 DEF Accepted
  <2>4. ReadyExec(v)
    BY <1>1, <1>2, <1>4, <2>2, UnderReady DEF ReadyExec, Active, Underway
  <2>5. Settled(v) => Settled(exec)
    BY <1>1, <2>2 DEF Settled, Active, Underway
  <2> QED BY <1>1, <1>5, <1>6, <2>3, <2>4, <2>5, RunReady
<1> QED BY <1>7, <1>8, <1>9 DEF Submit, Refused, Unsent

\* A step that sends nothing has sent nothing.
LEMMA NoneIsUnsafe == ~SafeIxs(<<"none">>)
<1>1. <<"none">> # Bundle /\ <<"none">> # Alone /\ <<"none">> # <<>>
  BY DEF Bundle, Alone
<1>2. \A ix \in OtherIxs : <<"none">> # <<ix>>
  BY DEF OtherIxs
<1> QED BY <1>1, <1>2 DEF SafeIxs, OtherTx

\* Polling for it, and its expiry.
LEMMA PollReady ==
  ASSUME DepositInv, ReadyInv, Confirm \/ Timeout \/ \E tx \in flying : Expire(tx)
  PROVE  ReadyInv'
<1>1. UNCHANGED <<script, chain>> /\ flying' \subseteq flying
  BY DEF Confirm, Timeout, Expire
<1>2. CASE \E tx \in flying : Expire(tx)
  <2>1. exec' = exec
    BY <1>2 DEF Expire
  <2> QED BY <1>1, <2>1, CalmReady DEF ReadyInv
<1>3. CASE Timeout
  <2>1. exec' = Again /\ Underway(exec) /\ exec.result = "none"
    BY <1>3 DEF Timeout, Underway
  <2> QED BY <1>1, <2>1, AgainReady, CalmReady
<1>4. CASE Confirm /\ exec.result = "ok"
  <2>1. PICK p : p = exec.paid + Paid
    OBVIOUS
  <2>2. PICK e : e = [exec EXCEPT !.have = Kept, !.paid = p]
    OBVIOUS
  <2>3. exec = ExecRecord(exec) /\ GoodExec(exec) /\ exec.pc \in 1..Length /\ SafeTx(exec.tx)
    BY GoodNow DEF GoodExec
  <2>4. GoodExec(e) /\ e.pc = exec.pc
    <3>1. GoodExec(e)
      BY <2>2, <2>3, ExecFields
    <3> QED BY <2>2, <2>3, <3>1 DEF ExecRecord
  <2>5. exec' = Advance(e) /\ exec.at = "poll" /\ Active(exec) /\ Underway(exec)
    BY <1>4, <2>1, <2>2 DEF Confirm, Active, Underway
  <2>6. \A n \in 1..e.pc : Goal(n)
    <3>1. Goal(exec.pc) /\ \A n \in 1..(exec.pc - 1) : Goal(n)
      BY <1>4, <2>5 DEF ReadyInv, ReadyExec
    <3> QED BY <2>3, <2>4, <3>1
  <2>7. script = "txline-token" => e.pc # 6
    <3>1. Sends(exec.pc, exec.tx.ixs)
      BY <2>5 DEF ReadyInv, ReadyExec
    <3>2. exec.tx.ixs # <<"none">>
      BY <2>3, NoneIsUnsafe DEF SafeTx
    <3> QED BY <2>4, <3>1, <3>2 DEF Sends, Names
  <2>8. ReadyExec(Advance(e)) /\ (Settled(Advance(e)) => e.pc > 8)
    BY <2>4, <2>6, <2>7, GoodNow, AdvanceReady
  <2>9. Settled(Advance(e)) => Settled(exec)
    BY <2>3, <2>4, <2>5, <2>8 DEF Settled
  <2> QED BY <1>1, <2>5, <2>8, <2>9, CalmReady
<1>5. CASE Confirm /\ exec.result # "ok"
  <2>1. exec' = Thrown(exec) /\ Active(exec)
    BY <1>5 DEF Confirm, Active
  <2> QED BY <1>1, <2>1, GoodNow, ThrownReady, CalmReady
<1> QED BY <1>2, <1>3, <1>4, <1>5

\* What the steps passed have brought about is there when the chain has moved on.
LEMMA GoalsKept ==
  ASSUME DepositInv, script' = script, Onward(chain'.made, chain'.stage), NEW n, Goal(n),
         n \in 1..(exec.pc - 1) \/ (n = exec.pc /\ exec.at = "poll")
  PROVE  Goal(n)'
<1>1. exec.pc \in 1..Length
  BY GoodNow DEF GoodExec
<1>2. script = "leverage-circle" /\ n = 10 => Settled(exec)
  BY <1>1 DEF Settled, Active, Underway, Length
<1> QED BY <1>2, GoalKept

\* The chain has moved on, and the run knows at most that its transaction has landed.
LEMMA ChainReady ==
  ASSUME DepositInv, ReadyInv, script' = script, flying' \subseteq flying,
         Onward(chain'.made, chain'.stage), NEW v, exec' = v,
         \/ v = exec
         \/ /\ exec.at = "poll"
            /\ \E x : v = [exec EXCEPT !.result = x] /\ (x = "ok" => \A n : n = exec.pc => Goal(n)')
  PROVE  ReadyInv'
<1>1. exec = ExecRecord(exec) /\ ReadyExec(exec) /\ LiveStages
  BY GoodNow DEF GoodExec, ReadyInv
<1>2. /\ v.at = exec.at /\ v.pc = exec.pc /\ v.tx = exec.tx
      /\ v.result = exec.result
         \/ (v.at = "poll" /\ (v.result = "ok" => \A n : n = exec.pc => Goal(n)'))
  BY <1>1 DEF ExecRecord
<1>3. LiveStages'
  BY <1>1 DEF LiveStages, Onward
<1>4. Quiet(v)'
  BY <1>2 DEF ReadyInv, Quiet, Banned, Settled, Active, Underway
<1>5. \A n \in 1..(v.pc - 1) : Active(v) => Goal(n)'
  BY <1>1, <1>2, GoalsKept DEF ReadyExec, Active
<1>6. v.at = "poll" /\ v.result = "ok" => \A n : n = v.pc => Goal(n)'
  BY <1>1, <1>2, GoalsKept DEF ReadyExec
<1>7. v.at = "done" => Ready'
  BY <1>1, <1>2, ReadyKept DEF ReadyExec
<1>8. \A n, ixs : Sends(n, ixs) => Sends(n, ixs)'
  BY DEF Sends, Names
<1>9. ReadyExec(v)'
  BY <1>1, <1>2, <1>5, <1>6, <1>7, <1>8 DEF ReadyExec, Active, Underway
<1> QED BY <1>3, <1>4, <1>9 DEF ReadyInv, ReadyExec, Quiet, Banned, Settled, Active, Underway, Sends

\* A transaction lands.
LEMMA LandReady == ASSUME DepositInv, ReadyInv, NEW tx \in flying, Land(tx) PROVE ReadyInv'
<1>1. Onward(chain'.made, chain'.stage) /\ script' = script /\ flying' \subseteq flying
  BY LandOnward DEF Land
<1>2. PICK x : x = IF Outcome(tx).ok THEN "ok" ELSE "err"
  OBVIOUS
<1>3. PICK v : v = IF exec.at = "poll" /\ exec.tx = tx THEN [exec EXCEPT !.result = x] ELSE exec
  OBVIOUS
<1>4. exec' = v
  BY <1>2, <1>3 DEF Land
<1>5. exec.at = "poll" /\ exec.tx = tx /\ x = "ok" => \A n : n = exec.pc => Goal(n)'
  BY <1>2, SentReaches DEF Underway
<1> QED BY <1>1, <1>3, <1>4, <1>5, ChainReady

\* Time passes, or the keeper acts.
LEMMA WorldReady ==
  ASSUME DepositInv, ReadyInv,
         \/ Kickoff \/ KeeperMoves \/ GraceElapses
         \/ \E fact \in {"claimed", "fresh", "valid"} : Passes(fact)
  PROVE  ReadyInv'
<1>1. Onward(chain'.made, chain'.stage)
  BY WorldOnward
<1>2. script' = script /\ exec' = exec /\ flying' \subseteq flying
  BY DEF Kickoff, KeeperMoves, GraceElapses, Passes, Becomes
<1> QED BY <1>1, <1>2, ChainReady

\* Nothing has been done when a script is first run.
LEMMA ReadyInit == ScriptsInit => ReadyInv
<1> SUFFICES ASSUME ScriptsInit PROVE ReadyInv
  OBVIOUS
<1>1. exec = Idle /\ flying = {}
  BY DEF ScriptsInit
<1>2. LiveStages
  BY DEF ScriptsInit, LiveStages, Begun
<1> QED BY <1>1, <1>2, IdleReady DEF ReadyInv, Quiet

\* Every step keeps the invariant.
LEMMA ReadyNext == DepositInv /\ ReadyInv /\ [ScriptsNext]_scriptVars => ReadyInv'
<1> SUFFICES ASSUME DepositInv, ReadyInv, [ScriptsNext]_scriptVars PROVE ReadyInv'
  OBVIOUS
<1>1. CASE UNCHANGED scriptVars
  BY <1>1, CalmReady DEF scriptVars, ReadyInv
<1>2. CASE Start
  BY <1>2, StartReady
<1>3. CASE RunStep
  BY <1>3, LookReady, CallReady, PersistReady, SubmitReady, PollReady DEF RunStep
<1>4. CASE TireOfWaiting \/ RpcFails \/ Crash
  BY <1>4, ThrowReady
<1>5. CASE Landing
  BY <1>5, LandReady DEF Landing
<1>6. CASE \E tx \in flying : Expire(tx)
  BY <1>6, PollReady
<1>7. CASE Kickoff \/ KeeperMoves \/ GraceElapses
           \/ \E fact \in {"claimed", "fresh", "valid"} : Passes(fact)
  BY <1>7, WorldReady
<1> QED BY <1>1, <1>2, <1>3, <1>4, <1>5, <1>6, <1>7 DEF ScriptsNext

-----------------------------------------------------------------------------
(* fund-usdt counts no claim that has not reached the operator. *)

\* The wallets, up to the k-th, that have claimed; those whose claims are counted.
Claimed(k) == {w \in 1..k : <<"claimed", w>> \in chain.made}
\* The wallets whose claims may be counted: not the one still being farmed.
Counted == IF exec.pc = 3 \/ (exec.pc = 2 /\ Underway(exec)) THEN wallets - 1 ELSE wallets

\* No more claims are counted than wallets have made, and the wallet at hand is the last.
PaidInv ==
  /\ wallets \in Nat /\ exec.paid \in Nat
  /\ exec.paid <= Cardinality(Claimed(Counted))
  /\ Underway(exec) => exec.tx.w = wallets
  /\ exec.pc > 2 \/ Underway(exec) => wallets > 0
  /\ exec.at = "poll" /\ exec.pc = 3 /\ exec.result = "ok" => <<"claimed", wallets>> \in chain.made

\* Claims add up, as wallets and claims do.
LEMMA ClaimedGrows ==
  ASSUME NEW k \in Int, NEW l \in Int, k <= l,
         \A w \in Nat : w > 0 /\ <<"claimed", w>> \in chain.made => <<"claimed", w>> \in chain'.made,
         NEW p \in Nat, p <= Cardinality(Claimed(k)),
         NEW s, s = {w \in 1..l : <<"claimed", w>> \in chain'.made}
  PROVE  p <= Cardinality(s)
<1>1. IsFiniteSet(1..l) /\ IsFiniteSet(1..k)
  BY FS_Interval
<1>2. s \in SUBSET (1..l) /\ Claimed(k) \in SUBSET s /\ Claimed(k) \in SUBSET (1..k)
  BY DEF Claimed
<1>3. IsFiniteSet(s) /\ IsFiniteSet(Claimed(k))
  BY <1>1, <1>2, FS_Subset
<1>4. Cardinality(Claimed(k)) <= Cardinality(s)
  BY <1>2, <1>3, FS_Subset
<1>5. Cardinality(Claimed(k)) \in Nat /\ Cardinality(s) \in Nat
  BY <1>3, FS_CardinalityType
<1> QED BY <1>4, <1>5

\* One more claim is one more wallet.
LEMMA OneMoreClaimed ==
  ASSUME NEW k \in Nat, k > 0, <<"claimed", k>> \in chain.made
  PROVE  /\ Cardinality(Claimed(k)) = Cardinality(Claimed(k - 1)) + 1
         /\ Cardinality(Claimed(k - 1)) \in Nat
<1>1. IsFiniteSet(1..(k - 1))
  BY FS_Interval
<1>2. Claimed(k - 1) \in SUBSET (1..(k - 1)) /\ Claimed(k) = Claimed(k - 1) \cup {k} /\ k \notin Claimed(k - 1)
  BY DEF Claimed
<1>3. IsFiniteSet(Claimed(k - 1))
  BY <1>1, <1>2, FS_Subset
<1> QED BY <1>2, <1>3, FS_AddElement, FS_CardinalityType

\* The next step of fund-usdt: the wallets are farmed one after the other.
LEMMA FundAdvances ==
  ASSUME script = "fund-usdt", NEW e, GoodExec(e), NEW v, v = Advance(e)
  PROVE  /\ v.paid = e.paid /\ v.result = "none" /\ v = ExecRecord(v)
         /\ e.pc < 4 => v.at = "look" /\ v.pc = e.pc + 1 /\ v.have = e.have
         /\ e.pc = 4 /\ e.have > 1 => v.at = "look" /\ v.pc = 2 /\ v.have = e.have - 1
         /\ e.pc = 4 /\ ~(e.have > 1) => v.at = "done" /\ v.pc = 1
<1>1. Len(Plan) = 4 /\ Length = 4 /\ e.pc \in 1..4 /\ e = ExecRecord(e)
  BY PlanLength DEF GoodExec, ScriptNames
<1>2. CASE e.pc < 4
  <2>1. v = At(e, e.pc + 1)
    BY <1>1, <1>2 DEF Advance
  <2>2. PICK n : n = e.pc + 1
    OBVIOUS
  <2>3. /\ v.at = "look" /\ v.pc = n /\ v.have = e.have /\ v.paid = e.paid /\ v.result = "none"
        /\ v = ExecRecord(v)
    BY <1>1, <2>1, <2>2 DEF At, ExecRecord
  <2> QED BY <1>2, <2>2, <2>3
<1>3. CASE e.pc = 4 /\ e.have > 1
  <2>1. PICK a : a = At(e, 2)
    OBVIOUS
  <2>2. /\ a.at = "look" /\ a.pc = 2 /\ a.have = e.have /\ a.paid = e.paid /\ a.result = "none"
        /\ a = ExecRecord(a)
    BY <1>1, <2>1 DEF At, ExecRecord
  <2>3. PICK h : h = a.have - 1
    OBVIOUS
  <2>4. v = [a EXCEPT !.have = h]
    BY <1>1, <1>3, <2>1, <2>3 DEF Advance
  <2>5. v.paid = a.paid /\ v.result = a.result /\ v = ExecRecord(v) /\ v.at = a.at /\ v.pc = a.pc /\ v.have = h
    BY <2>2, <2>4 DEF ExecRecord
  <2> QED BY <1>3, <2>2, <2>3, <2>5
<1>4. CASE e.pc = 4 /\ ~(e.have > 1)
  <2>1. v = Done(e)
    BY <1>1, <1>4 DEF Advance
  <2>2. v.at = "done" /\ v.pc = 1 /\ v.paid = e.paid /\ v.result = "none" /\ v = ExecRecord(v)
    BY <2>1 DEF Done, Idle, ExecRecord
  <2> QED BY <1>4, <2>2
<1> QED BY <1>1, <1>2, <1>3, <1>4

\* A run that rests: it is not counting on a wallet.
Rests(v) == v.at \in {"off", "look", "done"} /\ v.pc \in {1, 2} /\ v.paid \in {0, exec.paid}

\* Starting over or ending leaves every counted claim behind.
LEMMA RestKeeps ==
  ASSUME PaidInv, NEW v, exec' = v, Rests(v), wallets' = wallets,
         \A w \in Nat : w > 0 /\ <<"claimed", w>> \in chain.made => <<"claimed", w>> \in chain'.made
  PROVE  PaidInv'
<1>1. ~Underway(v)
  BY DEF Rests, Underway
<1>2. PICK k \in Int : k = wallets
  BY DEF PaidInv
<1>3. Counted \in Int /\ Counted <= k
  BY <1>2 DEF PaidInv, Counted
<1>4. PICK s : s = {w \in 1..k : <<"claimed", w>> \in chain'.made}
  OBVIOUS
<1>5. v.paid \in Nat /\ v.paid <= Cardinality(s)
  <2>1. exec.paid <= Cardinality(s) /\ exec.paid \in Nat
    BY <1>2, <1>3, <1>4, ClaimedGrows DEF PaidInv
  <2>2. Cardinality(s) \in Nat
    <3>1. IsFiniteSet(1..k) /\ s \in SUBSET (1..k)
      BY <1>4, FS_Interval
    <3> QED BY <3>1, FS_Subset, FS_CardinalityType
  <2> QED BY <2>1, <2>2 DEF Rests
<1>6. Counted' = k
  BY <1>1, <1>2 DEF Counted, Rests, Underway
<1>7. Claimed(Counted)' = s
  BY <1>4, <1>6 DEF Claimed
<1> QED BY <1>1, <1>2, <1>5, <1>7 DEF PaidInv, Rests, Underway

\* One that is farming the last wallet, as far as it was or one step further.
LEMMA FarmKeeps ==
  ASSUME PaidInv, NEW v, exec' = v, NEW k \in Nat, wallets' = k, Counted <= Counted', Counted' \in Int,
         v.paid = exec.paid,
         \A w \in Nat : w > 0 /\ <<"claimed", w>> \in chain.made => <<"claimed", w>> \in chain'.made,
         Underway(v) => v.tx.w = k,
         v.pc > 2 \/ Underway(v) => k > 0,
         v.at = "poll" /\ v.pc = 3 /\ v.result = "ok" => <<"claimed", k>> \in chain'.made
  PROVE  PaidInv'
<1>1. PICK l \in Int : l = Counted'
  OBVIOUS
<1>2. PICK s : s = {w \in 1..l : <<"claimed", w>> \in chain'.made}
  OBVIOUS
<1>3. Counted \in Int
  BY DEF Counted, PaidInv
<1>4. exec.paid <= Cardinality(s) /\ exec.paid \in Nat
  BY <1>1, <1>2, <1>3, ClaimedGrows DEF PaidInv
<1>5. Claimed(Counted)' = s
  BY <1>1, <1>2 DEF Claimed
<1> QED BY <1>4, <1>5 DEF PaidInv, Underway

\* The plan of fund-usdt, and what it sends on the way.
LEMMA FundSteps ==
  ASSUME script = "fund-usdt"
  PROVE  /\ Plan[1] = FundPlan /\ Plan[1].do \in {"skip", "finish"}
         /\ Plan[2].do = "send" /\ Plan[3].do = "send" /\ Plan[4].do \in {"skip", "send"}
         /\ Len(Plan) = 4 /\ Length = 4 /\ script \in ScriptNames
BY DEF Plan, FundPlan, FundSweep, Unless, Proceed, Send, Do, Length, ScriptNames

\* What fund-usdt has on its way is the transaction of its step.
LEMMA FundUnder ==
  ASSUME DepositInv, ReadyInv, script = "fund-usdt", Underway(exec)
  PROVE  exec.pc \in {2, 3, 4} /\ exec.tx.ixs = <<Names[exec.pc]>>
<1>1. exec.pc \in 1..4 /\ SafeIxs(exec.tx.ixs)
  BY FundSteps, GoodNow DEF GoodExec, SafeTx
<1>2. Sends(exec.pc, exec.tx.ixs)
  BY DEF ReadyInv, ReadyExec
<1>3. exec.tx.ixs = <<Names[exec.pc]>>
  BY <1>1, <1>2 DEF Sends, Names
<1>4. exec.pc # 1
  BY <1>1, <1>3, NoneIsUnsafe DEF Names
<1> QED BY <1>1, <1>3, <1>4

\* A throwaway wallet that fails is passed over, any other failure ends the run; neither counts a claim.
LEMMA FundThrown ==
  ASSUME DepositInv, script = "fund-usdt", NEW e, GoodExec(e), e.paid = exec.paid, e.pc = exec.pc
  PROVE  Rests(Thrown(e))
<1>1. CASE Farming
  <2>1. PICK v : v = [e EXCEPT !.pc = Len(Plan)]
    OBVIOUS
  <2>2. Len(Plan) = 4 /\ 4 \in 1..Length
    BY FundSteps
  <2>3. GoodExec(v)
    BY <2>1, <2>2, ExecFields
  <2>4. v.pc = 4 /\ v.paid = e.paid
    BY <2>1, <2>2 DEF GoodExec, ExecRecord
  <2>5. PICK a : a = Advance(v)
    OBVIOUS
  <2>6. a.paid = exec.paid /\ a.at \in {"look", "done"} /\ a.pc \in {1, 2}
    BY <2>3, <2>4, <2>5, FundAdvances
  <2> QED BY <1>1, <2>1, <2>5, <2>6 DEF Thrown, Rests
<1>2. CASE ~Farming
  <2>1. ~Tolerated
    BY DEF Tolerated
  <2> QED BY <1>2, <2>1 DEF Thrown, Rests, Idle
<1> QED BY <1>1, <1>2

\* Looking at the chain, with the next wallet generated before it is funded.
LEMMA LookPaid ==
  ASSUME DepositInv, ReadyInv, PaidInv, script = "fund-usdt", Look
  PROVE  PaidInv'
<1>1. PICK e : e = [exec EXCEPT !.have = Kept]
  OBVIOUS
<1>2. exec = ExecRecord(exec) /\ exec.pc \in 1..4
  BY GoodNow, FundSteps DEF GoodExec
<1>3. GoodExec(e) /\ e.pc = exec.pc /\ e.paid = exec.paid
  <2>1. GoodExec(e)
    BY <1>1, GoodNow, ExecFields
  <2> QED BY <1>1, <1>2, <2>1 DEF ExecRecord
<1>4. UNCHANGED <<script, chain>> /\ exec.at = "look" /\ ~Underway(exec)
  BY DEF Look, Underway
<1>5. wallets' = IF exec.pc = 2 THEN wallets + 1 ELSE wallets
  BY DEF Look, Farming
<1>6. PICK d : d = Plan[exec.pc]
  OBVIOUS
<1>7. d.do \in {"skip", "finish"} => exec.pc \in {1, 4}
  BY <1>2, <1>6, FundSteps
<1>8. CASE d.do = "skip" /\ exec' = Advance(e)
  <2>1. PICK a : a = Advance(e)
    OBVIOUS
  <2>2. Rests(a)
    BY <1>3, <1>7, <1>8, <2>1, FundAdvances DEF Rests
  <2> QED BY <1>4, <1>5, <1>7, <1>8, <2>1, <2>2, RestKeeps
<1>9. CASE d.do = "finish" /\ exec' = Done(e)
  <2>1. PICK a : a = Done(e)
    OBVIOUS
  <2>2. Rests(a)
    BY <1>3, <2>1 DEF Rests, Done, Idle
  <2> QED BY <1>4, <1>5, <1>7, <1>9, <2>1, <2>2, RestKeeps
<1>10. CASE d.do = "throw"
  BY <1>2, <1>6, <1>10, FundSteps
<1>11. CASE /\ d.do = "send"
            /\ exec' = [e EXCEPT !.at = "send",
                                 !.tx = [ixs |-> d.ixs, w |-> Wallet, seed |-> d.seed, id |-> failures]]
  <2>1. PICK tx : tx = [ixs |-> d.ixs, w |-> Wallet, seed |-> d.seed, id |-> failures]
    OBVIOUS
  <2>2. PICK v : v = [e EXCEPT !.at = "send", !.tx = tx]
    OBVIOUS
  <2>3. e = ExecRecord(e)
    BY <1>3 DEF GoodExec
  <2>4. v.at = "send" /\ v.pc = exec.pc /\ v.tx = tx /\ v.paid = exec.paid
    BY <1>3, <2>2, <2>3 DEF ExecRecord
  <2>5. exec.pc \in {2, 3, 4}
    BY <1>2, <1>6, <1>11, FundSteps
  <2>6. PICK k : k = wallets'
    OBVIOUS
  <2>7. tx.w = k
    BY <2>1, <2>5, <2>6 DEF Wallet, Farming
  <2>8. k \in Nat /\ k > 0
    BY <1>5, <2>5, <2>6 DEF PaidInv
  <2>9. exec' = v
    BY <1>11, <2>1, <2>2
  <2>10. Counted' = Counted /\ Counted \in Int
    BY <1>4, <1>5, <2>4, <2>5, <2>9 DEF Counted, Underway, PaidInv
  <2>11. Counted <= Counted' /\ Counted' \in Int
    BY <2>10
  <2>12. \A w \in Nat : w > 0 /\ <<"claimed", w>> \in chain.made => <<"claimed", w>> \in chain'.made
    BY <1>4
  <2>13. v.paid = exec.paid /\ v.tx.w = k /\ v.at # "poll"
    BY <2>4, <2>7
  <2> QED BY <2>6, <2>8, <2>9, <2>11, <2>12, <2>13, FarmKeeps
<1> QED BY <1>1, <1>6, <1>8, <1>9, <1>10, <1>11 DEF Look

\* A run whose transaction is tried again, or that only learns what has become of it.
LEMMA StayPaid ==
  ASSUME DepositInv, PaidInv, NEW v, exec' = v, wallets' = wallets,
         v.pc = exec.pc, v.paid = exec.paid, Underway(v) <=> Underway(exec), v.tx.w = exec.tx.w,
         \A w \in Nat : w > 0 /\ <<"claimed", w>> \in chain.made => <<"claimed", w>> \in chain'.made,
         v.at = "poll" /\ v.pc = 3 /\ v.result = "ok" => <<"claimed", wallets>> \in chain'.made
  PROVE  PaidInv'
<1>1. Counted' = Counted /\ Counted \in Int
  BY DEF Counted, Underway, PaidInv
<1>2. PICK k \in Nat : k = wallets
  BY DEF PaidInv
<1> QED BY <1>1, <1>2, FarmKeeps DEF PaidInv

\* A rebuilt or abandoned transaction counts nothing.
LEMMA AgainPaid ==
  ASSUME DepositInv, ReadyInv, PaidInv, script = "fund-usdt", Underway(exec), exec' = Again,
         UNCHANGED <<chain, wallets>>, exec.result = "none"
  PROVE  PaidInv'
<1>1. exec = ExecRecord(exec) /\ GoodExec(exec)
  BY GoodNow DEF GoodExec
<1>2. CASE exec.attempt < 3
  <2>1. PICK v : v = Again
    OBVIOUS
  <2>2. v.at = "send" /\ v.pc = exec.pc /\ v.paid = exec.paid /\ v.tx = exec.tx
    BY <1>1, <1>2, <2>1 DEF Again, ExecRecord
  <2> QED BY <2>1, <2>2, StayPaid DEF Underway
<1>3. CASE ~(exec.attempt < 3)
  <2>1. exec' = Thrown(exec)
    BY <1>3 DEF Again
  <2> QED BY <1>1, <2>1, FundThrown, RestKeeps
<1> QED BY <1>2, <1>3

\* Sending counts nothing yet.
LEMMA SubmitPaid ==
  ASSUME DepositInv, ReadyInv, PaidInv, script = "fund-usdt", Submit
  PROVE  PaidInv'
<1>1. UNCHANGED <<script, chain, wallets>> /\ exec.at = "send" /\ Underway(exec)
  BY DEF Submit, Underway
<1>2. exec = ExecRecord(exec) /\ GoodExec(exec)
  BY GoodNow DEF GoodExec
<1>3. CASE exec' = Thrown(exec)
  BY <1>1, <1>2, <1>3, FundThrown, RestKeeps
<1>4. CASE exec' = Again
  <2>1. exec.result = "none"
    BY <1>1 DEF ReadyInv, ReadyExec
  <2> QED BY <1>1, <1>4, <2>1, AgainPaid
<1>5. CASE Accepted
  <2>1. PICK a : a = Attempt
    OBVIOUS
  <2>2. PICK v : v = [exec EXCEPT !.at = "poll", !.tx = a]
    OBVIOUS
  <2>3. /\ exec' = v /\ v.at = "poll" /\ v.pc = exec.pc /\ v.paid = exec.paid /\ v.tx = a
        /\ v.result = exec.result
    BY <1>2, <1>5, <2>1, <2>2 DEF Accepted, ExecRecord
  <2>4. a.w = exec.tx.w
    BY <2>1, AttemptSame
  <2>5. exec.result = "none"
    BY <1>1 DEF ReadyInv, ReadyExec
  <2> QED BY <1>1, <2>3, <2>4, <2>5, StayPaid DEF Underway
<1> QED BY <1>3, <1>4, <1>5 DEF Submit, Refused, Unsent

\* A claim is counted when it has been confirmed.
LEMMA ConfirmPaid ==
  ASSUME DepositInv, ReadyInv, PaidInv, script = "fund-usdt", Confirm
  PROVE  PaidInv'
<1>1. UNCHANGED <<script, chain, wallets>> /\ exec.at = "poll" /\ Underway(exec)
  BY DEF Confirm, Underway
<1>2. exec = ExecRecord(exec) /\ GoodExec(exec) /\ exec.pc \in {2, 3, 4}
  BY <1>1, GoodNow, FundUnder DEF GoodExec
<1>3. CASE exec' = Thrown(exec)
  BY <1>1, <1>2, <1>3, FundThrown, RestKeeps
<1>4. CASE exec.result = "ok"
  <2>1. PICK p : p = exec.paid + Paid
    OBVIOUS
  <2>2. PICK e : e = [exec EXCEPT !.have = Kept, !.paid = p]
    OBVIOUS
  <2>3. GoodExec(e) /\ e.pc = exec.pc /\ e.paid = p
    <3>1. GoodExec(e)
      BY <1>2, <2>2, ExecFields
    <3> QED BY <1>2, <2>2, <3>1 DEF ExecRecord
  <2>4. PICK v : v = Advance(e)
    OBVIOUS
  <2>5. exec' = v
    BY <1>4, <2>1, <2>2, <2>4 DEF Confirm
  <2>6. exec.paid \in Nat /\ wallets \in Nat /\ wallets > 0
    BY <1>1 DEF PaidInv
  <2>7. CASE exec.pc = 2
    <3>1. v.at = "look" /\ v.pc = 3 /\ v.paid = exec.paid
      BY <2>1, <2>3, <2>4, <2>6, <2>7, FundAdvances DEF Paid, Farming
    <3>2. Counted' = Counted /\ Counted \in Int /\ Counted <= Counted'
      BY <1>1, <2>5, <2>6, <2>7, <3>1 DEF Counted, Underway
    <3>3. ~Underway(v)
      BY <3>1 DEF Underway
    <3> QED BY <1>1, <2>5, <2>6, <3>1, <3>2, <3>3, FarmKeeps
  <2>8. CASE exec.pc = 3
    <3>1. v.at = "look" /\ v.pc = 4 /\ v.paid = exec.paid + 1
      BY <2>1, <2>3, <2>4, <2>8, FundAdvances DEF Paid, Farming
    <3>2. exec.paid <= Cardinality(Claimed(wallets - 1)) /\ <<"claimed", wallets>> \in chain.made
      BY <1>1, <1>4, <2>8 DEF PaidInv, Counted
    <3>3. Cardinality(Claimed(wallets)) = Cardinality(Claimed(wallets - 1)) + 1
          /\ Cardinality(Claimed(wallets - 1)) \in Nat
      BY <2>6, <3>2, OneMoreClaimed
    <3>4. v.paid <= Cardinality(Claimed(wallets)) /\ v.paid \in Nat
      BY <2>6, <3>1, <3>2, <3>3
    <3>5. Claimed(wallets)' = Claimed(wallets)
      BY <1>1 DEF Claimed
    <3>6. Counted' = wallets'
      BY <2>5, <3>1 DEF Counted
    <3>7. Claimed(Counted)' = Claimed(wallets)
      BY <3>5, <3>6 DEF Claimed
    <3> QED BY <1>1, <2>5, <2>6, <3>1, <3>4, <3>7 DEF PaidInv, Underway
  <2>9. CASE exec.pc = 4
    <3>1. v.at \in {"look", "done"} /\ v.pc \in {1, 2} /\ v.paid = exec.paid
      BY <2>1, <2>3, <2>4, <2>6, <2>9, FundAdvances DEF Paid, Farming
    <3> QED BY <1>1, <2>5, <3>1, RestKeeps DEF Rests
  <2> QED BY <1>2, <2>7, <2>8, <2>9
<1> QED BY <1>3, <1>4 DEF Confirm

\* A claim that lands is the wallet's own.
LEMMA LandPaid ==
  ASSUME DepositInv, ReadyInv, PaidInv, script = "fund-usdt", NEW tx \in flying, Land(tx)
  PROVE  PaidInv'
<1>1. PICK after : after = Outcome(tx)
  OBVIOUS
<1>2. SafeTx(tx) /\ wallets' = wallets /\ exec = ExecRecord(exec)
  BY GoodNow DEF Land, GoodExec
<1>3. CASE ~after.ok
  <2>1. chain' = chain
    BY <1>1, <1>3 DEF Land
  <2>2. PICK v : v = IF exec.at = "poll" /\ exec.tx = tx THEN [exec EXCEPT !.result = "err"] ELSE exec
    OBVIOUS
  <2>3. exec' = v
    BY <1>1, <1>3, <2>2 DEF Land
  <2>4. v.at = exec.at /\ v.pc = exec.pc /\ v.paid = exec.paid /\ v.tx = exec.tx
        /\ v.result \in {"err", exec.result}
    BY <1>2, <2>2 DEF ExecRecord
  <2> QED BY <1>2, <2>1, <2>3, <2>4, StayPaid DEF Underway, PaidInv
<1>4. CASE after.ok
  <2>1. chain'.made = after.made
    BY <1>1, <1>4 DEF Land
  <2>2. \A w : <<"claimed", w>> \in chain.made => <<"claimed", w>> \in chain'.made
    BY <1>1, <1>2, <1>4, <2>1, LandKeeps DEF Steady
  <2>3. PICK v : v = IF exec.at = "poll" /\ exec.tx = tx THEN [exec EXCEPT !.result = "ok"] ELSE exec
    OBVIOUS
  <2>4. exec' = v
    BY <1>1, <1>4, <2>3 DEF Land
  <2>5. /\ v.at = exec.at /\ v.pc = exec.pc /\ v.paid = exec.paid /\ v.tx = exec.tx
        /\ v.result = exec.result \/ (exec.at = "poll" /\ exec.tx = tx)
    BY <1>2, <2>3 DEF ExecRecord
  <2>6. exec.at = "poll" /\ exec.tx = tx /\ exec.pc = 3 => <<"claimed", wallets>> \in chain'.made
    <3> SUFFICES ASSUME exec.at = "poll", exec.tx = tx, exec.pc = 3
                 PROVE  <<"claimed", wallets>> \in chain'.made
      OBVIOUS
    <3>1. tx.ixs = <<"farm">> /\ tx.w = wallets
      BY FundUnder DEF Underway, Names, PaidInv
    <3>2. after = Run(Ground, "farm", tx.w, tx.seed)
      BY <1>1, <3>1, OutcomeOfOne
    <3>3. PICK i : i = Instruction("farm", tx.seed)
      OBVIOUS
    <3>4. i.makes = {"claimed"} /\ i.drops = {}
      BY <3>3 DEF Instruction, farm, faucet, Op
    <3>5. after.made = (chain.made \cup {<<f, tx.w>> : f \in i.makes}) \ {<<f, tx.w>> : f \in i.drops}
      BY <1>4, <3>2, <3>3, Effect
    <3> QED BY <2>1, <3>1, <3>4, <3>5
  <2> QED BY <1>2, <2>2, <2>4, <2>5, <2>6, StayPaid DEF Underway, PaidInv
<1> QED BY <1>3, <1>4

\* Time takes no claim of a throwaway wallet back.
LEMMA WorldPaid ==
  ASSUME DepositInv, PaidInv,
         \/ Kickoff \/ KeeperMoves \/ GraceElapses
         \/ \E fact \in {"claimed", "fresh", "valid"} : Passes(fact)
  PROVE  PaidInv'
<1>1. PICK made : made \in {chain.made, chain.made \cup Facts({"kicked"}), chain.made \cup Facts({"grace"})}
                           \cup {chain.made \ Facts({fact}) : fact \in {"claimed", "fresh", "valid"}}
                  /\ \E stage : Becomes(made, stage)
  BY DEF Kickoff, KeeperMoves, GraceElapses, Passes
<1>2. chain'.made = made /\ exec' = exec /\ wallets' = wallets
  <2>1. chain = ChainRecord(chain)
    BY DEF DepositInv
  <2> QED BY <1>1, <2>1 DEF Becomes, ChainRecord
<1>3. \A w \in Nat : w > 0 /\ <<"claimed", w>> \in chain.made => <<"claimed", w>> \in chain'.made
  BY <1>1, <1>2 DEF Facts
<1> QED BY <1>2, <1>3, StayPaid DEF PaidInv

\* The part of the invariant that counts the claims of fund-usdt.
FundPaid == script = "fund-usdt" => PaidInv

\* It holds before the first run.
LEMMA PaidInit == ScriptsInit => FundPaid
<1> SUFFICES ASSUME ScriptsInit, script = "fund-usdt" PROVE PaidInv
  BY DEF FundPaid
<1>1. exec = Idle /\ wallets = 0
  BY DEF ScriptsInit
<1>2. exec.at = "off" /\ exec.pc = 1 /\ exec.paid = 0
  BY <1>1 DEF Idle
<1>3. Counted = 0 /\ ~Underway(exec)
  BY <1>1, <1>2 DEF Counted, Underway
<1>4. Claimed(Counted) = {}
  BY <1>3 DEF Claimed
<1> QED BY <1>1, <1>2, <1>3, <1>4, FS_EmptySet DEF PaidInv

\* The operator runs one script.
LEMMA ScriptStays == [ScriptsNext]_scriptVars => script' = script
BY DEF ScriptsNext, scriptVars, Start, RunStep, Look, CallApi, persistEnv, Submit, Confirm, Timeout,
       TireOfWaiting, RpcFails, Crash, Landing, Land, Expire, Kickoff, KeeperMoves, GraceElapses,
       Passes, Becomes

\* Every step keeps the count.
LEMMA PaidNext == DepositInv /\ ReadyInv /\ FundPaid /\ [ScriptsNext]_scriptVars => FundPaid'
<1> SUFFICES ASSUME DepositInv, ReadyInv, PaidInv, script = "fund-usdt", [ScriptsNext]_scriptVars
             PROVE  PaidInv'
  BY ScriptStays DEF FundPaid
<1>1. CASE UNCHANGED scriptVars
  BY <1>1, StayPaid DEF scriptVars, PaidInv
<1>2. CASE Start
  <2>1. PICK v : v = [Idle EXCEPT !.at = "look"]
    OBVIOUS
  <2>2. exec' = v /\ UNCHANGED <<chain, wallets>>
    BY <1>2, <2>1 DEF Start
  <2>3. Rests(v)
    BY <2>1 DEF Rests, Idle
  <2> QED BY <2>2, <2>3, RestKeeps
<1>3. CASE TireOfWaiting \/ RpcFails \/ Crash
  <2>1. UNCHANGED <<chain, wallets>> /\ (exec' = Thrown(exec) \/ exec' = Idle)
    BY <1>3 DEF TireOfWaiting, RpcFails, Crash
  <2>2. Rests(Thrown(exec))
    BY GoodNow, FundThrown
  <2>3. Rests(Idle)
    BY DEF Rests, Idle
  <2> QED BY <2>1, <2>2, <2>3, RestKeeps
<1>4. CASE CallApi \/ persistEnv
  <2>1. exec.at = "look" /\ Plan[exec.pc].do \in {"http", "write"}
    BY <1>4 DEF CallApi, persistEnv
  <2> QED BY <2>1, LookMeans DEF StepMeans
<1>5. CASE Timeout
  <2>1. Underway(exec) /\ exec' = Again /\ UNCHANGED <<chain, wallets>> /\ exec.result = "none"
    BY <1>5 DEF Timeout, Underway
  <2> QED BY <2>1, AgainPaid
<1>6. CASE \E tx \in flying : Expire(tx)
  BY <1>6, StayPaid DEF Expire, PaidInv
<1>7. CASE Look \/ Submit \/ Confirm \/ Landing
  BY <1>7, LookPaid, SubmitPaid, ConfirmPaid, LandPaid DEF Landing
<1>8. CASE Kickoff \/ KeeperMoves \/ GraceElapses
           \/ \E fact \in {"claimed", "fresh", "valid"} : Passes(fact)
  BY <1>8, WorldPaid
<1> QED BY <1>1, <1>2, <1>3, <1>4, <1>5, <1>6, <1>7, <1>8 DEF ScriptsNext, RunStep

-----------------------------------------------------------------------------
(* When no call fails, fund-usdt meets its target: what it has not claimed yet *)
(* is covered by the claims still to come.                                     *)

\* The transaction polled for has come in; the wallet at hand has its grant, to be swept
\* or swept already; the grants still to come.
Confirmed(e) == e.at = "poll" /\ e.result = "ok"
Landed(e) == e.pc = 4 \/ (e.pc = 3 /\ Confirmed(e))
Owed(e) == IF Landed(e) THEN e.have - 1 ELSE e.have

\* The wallet at hand can pay for what comes next, and claims once.
Farms(e) ==
  /\ e.have \in Nat /\ e.have > 0 /\ chain.usdt + Owed(e) * GRANT >= TARGET
  /\ \/ e.pc = 2 /\ Confirmed(e)
     \/ e.pc = 3
     \/ e.pc = 4 /\ Underway(e) /\ ~Confirmed(e)
     => <<"sol", wallets>> \in chain.made
  /\ (e.pc = 2 /\ Underway(e)) \/ (e.pc = 3 /\ ~Landed(e)) => <<"claimed", wallets>> \notin chain.made

\* Without failures no transaction is refused, and the target is met at the end.
Clean(e) ==
  /\ chain.stage = "Absent" /\ chain.usdt \in Nat
  /\ flying = IF e.at = "poll" /\ e.result = "none" THEN {e.tx} ELSE {}
  /\ e.at = "poll" => e.result \in {"none", "ok"}
  /\ \A w \in Nat : w > wallets => <<"claimed", w>> \notin chain.made
  /\ e.at = "done" => chain.usdt >= TARGET
  /\ Active(e) /\ e.pc > 1 => Farms(e)

\* As long as no call has failed, fund-usdt is on its way to its target.
CleanInv == script = "fund-usdt" => failures \in Nat /\ (failures = 0 => Clean(exec))

\* One instruction whose conditions hold succeeds.
LEMMA Succeeds ==
  ASSUME NEW ix, NEW w, NEW seed, NEW i, i = Instruction(ix, seed),
         NEW after, after = Run(Ground, ix, w, seed),
         chain.stage \in i.stages, chain.usdt >= i.pays,
         \A f \in i.needs : <<f, w>> \in chain.made,
         \A f \in i.absent : <<f, w>> \notin chain.made
  PROVE  after.ok
<1>1. Ground = [ok |-> TRUE, made |-> chain.made, stage |-> chain.stage, usdt |-> chain.usdt]
  BY DEF Ground
<1>2. {<<f, w>> : f \in i.needs} \subseteq chain.made /\ {<<f, w>> : f \in i.absent} \cap chain.made = {}
  OBVIOUS
<1> QED BY <1>1, <1>2 DEF Run

\* The transaction of the wallet at hand succeeds, and what it does.
LEMMA FarmWorks ==
  ASSUME DepositInv, ReadyInv, PaidInv, script = "fund-usdt", Clean(exec), Underway(exec), ~Confirmed(exec),
         NEW tx, tx.w = exec.tx.w, tx.ixs = exec.tx.ixs, NEW after, after = Outcome(tx)
  PROVE  /\ after.ok /\ after.stage = "Absent"
         /\ after.usdt = chain.usdt + IF exec.pc = 3 THEN GRANT ELSE 0
         /\ exec.pc = 2 => after.made = chain.made \cup {<<"sol", wallets>>}
         /\ exec.pc = 3 => after.made = chain.made \cup {<<"claimed", wallets>>}
         /\ exec.pc = 4 => after.made = chain.made \ {<<"sol", wallets>>}
<1>1. tx.w = wallets /\ exec.pc \in {2, 3, 4} /\ tx.ixs = <<Names[exec.pc]>>
  BY FundUnder DEF PaidInv
<1>2. chain.stage = "Absent" /\ chain.usdt \in Nat /\ Farms(exec) /\ GRANT \in Nat
  BY <1>1, ScriptConstants DEF Clean, Active, Underway
<1>3. CASE exec.pc = 2
  <2>1. after = Run(Ground, "fund_temp", wallets, tx.seed)
    BY <1>1, <1>3, OutcomeOfOne DEF Names
  <2>2. PICK i : i = Instruction("fund_temp", tx.seed)
    OBVIOUS
  <2>3. i.needs = {} /\ i.absent = {} /\ i.stages = Stages /\ i.makes = {"sol"} /\ i.drops = {}
        /\ i.to = "same" /\ i.pays = 0
    BY <2>2 DEF Instruction, fund_temp, Op
  <2>4. after.ok
    BY <1>2, <2>1, <2>2, <2>3, Succeeds DEF Stages
  <2>5. /\ after.made = (chain.made \cup {<<f, wallets>> : f \in {"sol"}}) \ {<<f, wallets>> : f \in {}}
        /\ after.stage = chain.stage /\ after.usdt = chain.usdt - 0
    BY <2>1, <2>2, <2>3, <2>4, Effect
  <2> QED BY <1>2, <1>3, <2>4, <2>5
<1>4. CASE exec.pc = 3
  <2>1. after = Run(Ground, "farm", wallets, tx.seed)
    BY <1>1, <1>4, OutcomeOfOne DEF Names
  <2>2. PICK i : i = Instruction("farm", tx.seed)
    OBVIOUS
  <2>3. i.needs = {"sol"} /\ i.absent = {"claimed"} /\ i.stages = Stages /\ i.makes = {"claimed"}
        /\ i.drops = {} /\ i.to = "same" /\ i.pays = 0 - GRANT
    BY <2>2 DEF Instruction, farm, faucet, Op
  <2>4. after.ok
    <3>1. <<"sol", wallets>> \in chain.made /\ <<"claimed", wallets>> \notin chain.made
      BY <1>2, <1>4 DEF Farms, Landed
    <3> QED BY <1>2, <2>1, <2>2, <2>3, <3>1, Succeeds DEF Stages
  <2>5. /\ after.made = (chain.made \cup {<<f, wallets>> : f \in {"claimed"}}) \ {<<f, wallets>> : f \in {}}
        /\ after.stage = chain.stage /\ after.usdt = chain.usdt - (0 - GRANT)
    BY <2>1, <2>2, <2>3, <2>4, Effect
  <2> QED BY <1>2, <1>4, <2>4, <2>5
<1>5. CASE exec.pc = 4
  <2>1. after = Run(Ground, "sweep", wallets, tx.seed)
    BY <1>1, <1>5, OutcomeOfOne DEF Names
  <2>2. PICK i : i = Instruction("sweep", tx.seed)
    OBVIOUS
  <2>3. i.needs = {"sol"} /\ i.absent = {} /\ i.stages = Stages /\ i.makes = {} /\ i.drops = {"sol"}
        /\ i.to = "same" /\ i.pays = 0
    BY <2>2 DEF Instruction, sweep, Op
  <2>4. after.ok
    <3>1. <<"sol", wallets>> \in chain.made
      BY <1>2, <1>5 DEF Farms
    <3> QED BY <1>2, <2>1, <2>2, <2>3, <3>1, Succeeds DEF Stages
  <2>5. /\ after.made = (chain.made \cup {<<f, wallets>> : f \in {}}) \ {<<f, wallets>> : f \in {"sol"}}
        /\ after.stage = chain.stage /\ after.usdt = chain.usdt - 0
    BY <2>1, <2>2, <2>3, <2>4, Effect
  <2> QED BY <1>2, <1>5, <2>4, <2>5
<1> QED BY <1>1, <1>3, <1>4, <1>5

\* The claims planned cover what is missing.
LEMMA ClaimsCover ==
  ASSUME chain.usdt \in Nat, NEW c, c = Claims
  PROVE  c \in Nat /\ chain.usdt + c * GRANT >= TARGET /\ (c = 0 => chain.usdt >= TARGET)
<1>1. GRANT \in Nat \ {0} /\ TARGET \in Nat
  BY ScriptConstants
<1>2. PICK d \in Int : d = TARGET - chain.usdt
  BY <1>1 DEF usdtBalance
<1>3. CASE d <= 0
  <2>1. c = 0
    BY <1>2, <1>3 DEF Claims, usdtBalance
  <2> QED BY <1>1, <1>2, <1>3, <2>1
<1>4. CASE d > 0
  <2>1. PICK m \in Nat : m = d + GRANT - 1
    BY <1>1, <1>4
  <2>2. c = m \div GRANT
    BY <1>2, <1>4, <2>1 DEF Claims, usdtBalance
  <2>3. c \in Nat /\ m - c * GRANT < GRANT
    BY <1>1, <2>2, DivBounds
  <2>4. PICK p \in Nat : p = c * GRANT
    BY <1>1, <2>3, MulNat
  <2>5. p >= d
    BY <1>1, <2>1, <2>3, <2>4
  <2>6. c # 0
    BY <1>1, <1>4, <2>4, <2>5
  <2> QED BY <1>1, <1>2, <2>3, <2>4, <2>5, <2>6
<1> QED BY <1>2, <1>3, <1>4

\* One claim more on the balance is one claim less to come.
LEMMA OwedMoves ==
  ASSUME NEW u \in Nat, NEW h \in Nat
  PROVE  /\ (u + GRANT) + (h - 1) * GRANT = u + h * GRANT
         /\ u + (1 - 1) * GRANT = u
         /\ h * GRANT \in Int /\ (h - 1) * GRANT \in Int
<1>1. GRANT \in Int /\ 1 * GRANT = GRANT
  BY ScriptConstants
<1>2. PICK p \in Int : p = h * GRANT
  BY <1>1, MulAdd
<1>3. (h - 1) * GRANT = p - GRANT
  BY <1>1, <1>2, MulAdd
<1> QED BY <1>1, <1>2, <1>3

\* The invariant, from the run a step goes on with.
LEMMA CleanGoes ==
  ASSUME NEW v, exec' = v, Clean(v)'
  PROVE  Clean(exec)'
BY DEF Clean, Farms, Active, Underway, Confirmed, Landed, Owed

\* Passing the last step of a wallet: on to the next, or the target is met.
LEMMA NextWallet ==
  ASSUME DepositInv, script = "fund-usdt", Clean(exec), flying = {}, NEW e, GoodExec(e), e.pc = 4,
         e.have = exec.have, Active(exec), exec.pc = 4,
         NEW v, v = Advance(e), UNCHANGED <<chain, flying, wallets>>
  PROVE  Clean(v)'
<1>1. /\ exec.have \in Nat /\ exec.have > 0 /\ chain.usdt + (exec.have - 1) * GRANT >= TARGET
      /\ chain.usdt \in Nat
  BY DEF Clean, Farms, Owed, Landed
<1>2. CASE exec.have > 1
  <2>1. v.at = "look" /\ v.pc = 2 /\ v.have = exec.have - 1
    BY <1>2, FundAdvances
  <2>2. Farms(v)'
    BY <1>1, <1>2, <2>1 DEF Farms, Owed, Landed, Confirmed, Underway
  <2> QED BY <2>1, <2>2 DEF Clean
<1>3. CASE exec.have = 1
  <2>1. v.at = "done" /\ v.pc = 1
    BY <1>3, FundAdvances
  <2>2. chain.usdt >= TARGET
    BY <1>1, <1>3, OwedMoves
  <2> QED BY <2>1, <2>2 DEF Clean, Active
<1> QED BY <1>1, <1>2, <1>3

\* A look at the chain, with the wallets that have been farmed.
LEMMA LookClean ==
  ASSUME DepositInv, ReadyInv, PaidInv, script = "fund-usdt", Clean(exec), Look
  PROVE  Clean(exec)'
<1>1. PICK e : e = [exec EXCEPT !.have = Kept]
  OBVIOUS
<1>2. exec = ExecRecord(exec) /\ exec.pc \in 1..4
  BY GoodNow, FundSteps DEF GoodExec
<1>3. GoodExec(e) /\ e.pc = exec.pc /\ e.have = Kept /\ e.result = exec.result
  <2>1. GoodExec(e)
    BY <1>1, GoodNow, ExecFields
  <2> QED BY <1>1, <1>2, <2>1 DEF ExecRecord
<1>4. UNCHANGED <<script, chain, flying>> /\ exec.at = "look" /\ ~Underway(exec) /\ Active(exec) /\ flying = {}
      /\ exec.result = "none"
  BY DEF Look, Underway, Active, Clean, ReadyInv, ReadyExec
<1>5. wallets' = IF exec.pc = 2 THEN wallets + 1 ELSE wallets
  BY DEF Look, Farming
<1>6. Kept = IF exec.pc = 1 THEN Claims ELSE exec.have
  BY DEF Kept
<1>7. CASE exec.pc = 1
  <2>0. PICK c : c = Claims /\ c = e.have
    BY <1>3, <1>6, <1>7
  <2>1. c \in Nat /\ chain.usdt + c * GRANT >= TARGET /\ (c = 0 => chain.usdt >= TARGET)
    BY <2>0, ClaimsCover DEF Clean
  <2>2. Plan[exec.pc].do = IF c = 0 THEN "finish" ELSE "skip"
    BY <1>7, <2>0, FundSteps DEF FundPlan, Do
  <2>3. PICK v : v = exec'
    OBVIOUS
  <2>4. v = IF c = 0 THEN Done(e) ELSE Advance(e)
    BY <1>1, <2>2, <2>3 DEF Look
  <2>5. CASE c = 0
    <3>1. v.at = "done"
      BY <2>4, <2>5 DEF Done, Idle
    <3> QED BY <1>4, <1>5, <1>7, <2>1, <2>3, <2>5, <3>1, CleanGoes DEF Clean, Active
  <2>6. CASE c # 0
    <3>1. v.at = "look" /\ v.pc = 2 /\ v.have = c
      BY <1>3, <1>7, <2>0, <2>4, <2>6, FundAdvances
    <3>2. Farms(v)'
      BY <1>4, <1>5, <1>7, <2>1, <2>6, <3>1 DEF Farms, Owed, Landed, Confirmed, Underway
    <3> QED BY <1>4, <1>5, <1>7, <2>3, <3>1, <3>2, CleanGoes DEF Clean
  <2> QED BY <2>5, <2>6
<1>8. CASE exec.pc = 4 /\ Plan[exec.pc].do = "skip"
  <2>1. PICK v : v = Advance(e)
    OBVIOUS
  <2>2. exec' = v
    BY <1>1, <1>8, <2>1 DEF Look
  <2>3. e.have = exec.have
    BY <1>3, <1>6, <1>8
  <2>4. Clean(v)'
    BY <1>3, <1>4, <1>5, <1>8, <2>1, <2>3, NextWallet
  <2> QED BY <2>2, <2>4, CleanGoes
<1>9. CASE exec.pc \in {2, 3, 4} /\ Plan[exec.pc].do = "send"
  <2>1. PICK tx : tx = [ixs |-> Plan[exec.pc].ixs, w |-> Wallet, seed |-> Plan[exec.pc].seed, id |-> failures]
    OBVIOUS
  <2>2. PICK v : v = [e EXCEPT !.at = "send", !.tx = tx]
    OBVIOUS
  <2>3. exec' = v
    BY <1>1, <1>9, <2>1, <2>2 DEF Look
  <2>4. e = ExecRecord(e)
    BY <1>3 DEF GoodExec
  <2>5. v.at = "send" /\ v.pc = exec.pc /\ v.have = exec.have
    BY <1>3, <1>6, <1>9, <2>2, <2>4 DEF ExecRecord
  <2>6. Farms(exec) /\ wallets \in Nat
    BY <1>4, <1>9 DEF Clean, PaidInv
  <2>7. Farms(v)'
    <3>1. exec.have \in Nat /\ exec.have > 0 /\ chain.usdt + Owed(exec) * GRANT >= TARGET
      BY <2>6 DEF Farms
    <3>2. Owed(v)' = Owed(exec)
      BY <1>4, <2>5 DEF Owed, Landed, Confirmed
    <3>3. CASE exec.pc = 2
      <4>1. <<"claimed", wallets + 1>> \notin chain.made
        BY <2>6 DEF Clean
      <4> QED BY <1>4, <1>5, <2>5, <3>1, <3>2, <3>3, <4>1 DEF Farms, Landed, Confirmed
    <3>4. CASE exec.pc = 3
      <4>1. <<"claimed", wallets>> \notin chain.made /\ <<"sol", wallets>> \in chain.made
        BY <1>4, <2>6, <3>4 DEF Farms, Landed, Confirmed
      <4> QED BY <1>4, <1>5, <2>5, <3>1, <3>2, <3>4, <4>1 DEF Farms, Landed, Confirmed
    <3>5. CASE exec.pc = 4
      <4>1. <<"sol", wallets>> \in chain.made
        <5>1. Plan[4] = FundSweep
          BY DEF Plan
        <5> QED BY <1>9, <3>5, <5>1 DEF FundSweep, Unless, Proceed, Do
      <4> QED BY <1>4, <1>5, <2>5, <3>1, <3>2, <3>5, <4>1 DEF Farms, Landed, Confirmed
    <3> QED BY <1>9, <3>3, <3>4, <3>5
  <2>8. \A w \in Nat : w > wallets' => <<"claimed", w>> \notin chain.made
    BY <1>5, <2>6 DEF Clean
  <2> QED BY <1>4, <2>3, <2>5, <2>7, <2>8, CleanGoes DEF Clean
<1> QED BY <1>2, <1>7, <1>8, <1>9, FundSteps

\* A transaction is sent, and none is refused.
LEMMA SubmitClean ==
  ASSUME DepositInv, ReadyInv, PaidInv, script = "fund-usdt", Clean(exec), Submit, ~Unsent
  PROVE  Clean(exec)'
<1>1. UNCHANGED <<chain, wallets>> /\ exec.at = "send" /\ Underway(exec) /\ Active(exec) /\ ~Confirmed(exec)
  BY DEF Submit, Underway, Active, Confirmed
<1>2. PICK a : a = Attempt
  OBVIOUS
<1>3. PICK after : after = Outcome(a)
  OBVIOUS
<1>4. after.ok
  BY <1>1, <1>2, <1>3, AttemptSame, FarmWorks
<1>5. ~Refused
  BY <1>2, <1>3, <1>4 DEF Refused, Simulated
<1>6. PICK v : v = [exec EXCEPT !.at = "poll", !.tx = a]
  OBVIOUS
<1>7. exec' = v /\ flying' = flying \cup {a}
  BY <1>2, <1>5, <1>6 DEF Submit, Accepted
<1>8. v.at = "poll" /\ v.pc = exec.pc /\ v.have = exec.have /\ v.tx = a /\ v.result = "none"
  <2>1. exec = ExecRecord(exec) /\ exec.result = "none"
    BY <1>1, GoodNow DEF GoodExec, ReadyInv, ReadyExec
  <2> QED BY <1>6, <2>1 DEF ExecRecord
<1>9. exec.pc > 1 => Farms(v)'
  <2> SUFFICES ASSUME exec.pc > 1 PROVE Farms(v)'
    OBVIOUS
  <2>1. Farms(exec)
    BY <1>1 DEF Clean
  <2> QED BY <1>1, <1>8, <2>1 DEF Farms, Owed, Landed, Confirmed, Underway
<1>10. flying' = {a}
  BY <1>1, <1>7 DEF Clean
<1> QED BY <1>1, <1>7, <1>8, <1>9, <1>10, CleanGoes DEF Clean

\* What has landed has been paid for, or has brought a claim in.
LEMMA LandClean ==
  ASSUME DepositInv, ReadyInv, PaidInv, script = "fund-usdt", Clean(exec), NEW tx \in flying, Land(tx)
  PROVE  Clean(exec)'
<1>1. tx = exec.tx /\ exec.at = "poll" /\ exec.result = "none" /\ flying = {tx}
  BY DEF Clean
<1>2. Underway(exec) /\ Active(exec) /\ ~Confirmed(exec) /\ wallets' = wallets
  BY <1>1 DEF Underway, Active, Confirmed, Land
<1>3. PICK after : after = Outcome(tx)
  OBVIOUS
<1>4. /\ after.ok /\ after.stage = "Absent"
      /\ after.usdt = chain.usdt + IF exec.pc = 3 THEN GRANT ELSE 0
      /\ exec.pc = 2 => after.made = chain.made \cup {<<"sol", wallets>>}
      /\ exec.pc = 3 => after.made = chain.made \cup {<<"claimed", wallets>>}
      /\ exec.pc = 4 => after.made = chain.made \ {<<"sol", wallets>>}
  BY <1>1, <1>2, <1>3, FarmWorks
<1>5. exec.pc \in {2, 3, 4} /\ wallets \in Nat
  BY <1>2, FundUnder DEF PaidInv
<1>6. chain'.made = after.made /\ chain'.stage = after.stage /\ chain'.usdt = after.usdt /\ flying' = {}
  BY <1>1, <1>3, <1>4 DEF Land
<1>7. PICK v : v = [exec EXCEPT !.result = "ok"]
  OBVIOUS
<1>8. exec' = v
  BY <1>1, <1>3, <1>4, <1>7 DEF Land
<1>9. v.at = "poll" /\ v.pc = exec.pc /\ v.have = exec.have /\ v.result = "ok"
  <2>1. exec = ExecRecord(exec)
    BY GoodNow DEF GoodExec
  <2> QED BY <1>1, <1>7, <2>1 DEF ExecRecord
<1>10. /\ chain.usdt \in Nat /\ GRANT \in Nat /\ exec.have \in Nat /\ exec.have > 0
       /\ chain.usdt + Owed(exec) * GRANT >= TARGET
       /\ exec.pc = 3 => <<"sol", wallets>> \in chain.made
       /\ exec.pc = 2 => <<"claimed", wallets>> \notin chain.made
  BY <1>2, <1>5, ScriptConstants DEF Clean, Farms
<1>11. chain'.usdt \in Nat
  BY <1>4, <1>6, <1>10
<1>12. chain'.usdt + Owed(v) * GRANT >= TARGET
  <2>1. CASE exec.pc = 3
    <3>1. Owed(exec) = exec.have /\ Owed(v) = exec.have - 1
      BY <1>2, <1>9, <2>1 DEF Owed, Landed, Confirmed
    <3>2. (chain.usdt + GRANT) + (exec.have - 1) * GRANT = chain.usdt + exec.have * GRANT
      BY <1>10, OwedMoves
    <3> QED BY <1>4, <1>6, <1>10, <2>1, <3>1, <3>2
  <2>2. CASE exec.pc # 3
    <3>1. Owed(exec) = Owed(v)
      BY <1>9, <2>2 DEF Owed, Landed
    <3>2. chain'.usdt = chain.usdt
      BY <1>4, <1>6, <1>10, <2>2
    <3> QED BY <1>10, <3>1, <3>2
  <2> QED BY <2>1, <2>2
<1>13. Farms(v)'
  <2>1. exec.pc \in {2, 3} => <<"sol", wallets>> \in chain'.made
    BY <1>4, <1>6, <1>10
  <2>2. exec.pc = 2 => <<"claimed", wallets>> \notin chain'.made
    BY <1>4, <1>6, <1>10
  <2>3. Owed(v)' = Owed(v)
    BY DEF Owed, Landed, Confirmed
  <2> QED BY <1>2, <1>9, <1>10, <1>12, <2>1, <2>2, <2>3 DEF Farms, Landed, Confirmed
<1>14. \A w \in Nat : w > wallets => <<"claimed", w>> \notin chain'.made
  BY <1>4, <1>5, <1>6 DEF Clean
<1> QED BY <1>2, <1>4, <1>6, <1>8, <1>9, <1>11, <1>13, <1>14, CleanGoes DEF Clean

\* What has been confirmed leads on.
LEMMA ConfirmClean ==
  ASSUME DepositInv, ReadyInv, PaidInv, script = "fund-usdt", Clean(exec), Confirm
  PROVE  Clean(exec)'
<1>1. /\ UNCHANGED <<script, chain, flying, wallets>> /\ exec.at = "poll" /\ exec.result = "ok"
      /\ Underway(exec) /\ Active(exec) /\ Confirmed(exec) /\ flying = {}
  BY DEF Confirm, Clean, Underway, Active, Confirmed
<1>2. exec = ExecRecord(exec) /\ GoodExec(exec) /\ exec.pc \in {2, 3, 4}
  BY <1>1, GoodNow, FundUnder DEF GoodExec
<1>3. PICK p : p = exec.paid + Paid
  OBVIOUS
<1>4. PICK e : e = [exec EXCEPT !.have = Kept, !.paid = p]
  OBVIOUS
<1>5. GoodExec(e) /\ e.pc = exec.pc /\ e.have = exec.have
  <2>1. GoodExec(e)
    BY <1>2, <1>4, ExecFields
  <2>2. Kept = exec.have
    BY <1>2 DEF Kept
  <2> QED BY <1>2, <1>4, <2>1, <2>2 DEF ExecRecord
<1>6. PICK v : v = Advance(e)
  OBVIOUS
<1>7. exec' = v
  BY <1>1, <1>3, <1>4, <1>6 DEF Confirm
<1>8. Farms(exec)
  BY <1>1, <1>2 DEF Clean
<1>9. CASE exec.pc = 4
  <2>1. Clean(v)'
    BY <1>1, <1>5, <1>6, <1>9, NextWallet
  <2> QED BY <1>7, <2>1, CleanGoes
<1>10. CASE exec.pc # 4
  <2>1. v.at = "look" /\ v.pc = exec.pc + 1 /\ v.have = exec.have
    BY <1>2, <1>5, <1>6, <1>10, FundAdvances
  <2>2. Owed(v)' = Owed(exec)
    BY <1>1, <1>2, <1>10, <2>1 DEF Owed, Landed, Confirmed
  <2>3. Farms(v)'
    BY <1>1, <1>2, <1>8, <1>10, <2>1, <2>2 DEF Farms, Landed, Confirmed, Underway
  <2> QED BY <1>1, <1>7, <2>1, <2>3, CleanGoes DEF Clean
<1> QED BY <1>9, <1>10

\* A script that is started, and time that passes, change nothing of it.
LEMMA RestClean ==
  ASSUME DepositInv, PaidInv, script = "fund-usdt", Clean(exec),
         \/ Start \/ Kickoff \/ KeeperMoves \/ GraceElapses
         \/ \E fact \in {"claimed", "fresh", "valid"} : Passes(fact)
  PROVE  Clean(exec)'
<1>1. CASE Start
  <2>1. PICK v : v = [Idle EXCEPT !.at = "look"]
    OBVIOUS
  <2>2. exec' = v /\ UNCHANGED <<chain, flying, wallets>> /\ exec.at = "off"
    BY <1>1, <2>1 DEF Start
  <2>3. v.at = "look" /\ v.pc = 1
    BY <2>1 DEF Idle
  <2> QED BY <2>2, <2>3, CleanGoes DEF Clean
<1>2. ~(Kickoff \/ KeeperMoves \/ GraceElapses)
  BY DEF Clean, Kickoff, KeeperMoves, GraceElapses
<1>3. ASSUME NEW fact, Passes(fact)
      PROVE  Clean(exec)'
  <2>1. chain = ChainRecord(chain)
    BY DEF DepositInv
  <2>2. /\ exec' = exec /\ exec.at = "off" /\ flying' = flying /\ wallets' = wallets
        /\ chain'.made \subseteq chain.made /\ chain'.stage = chain.stage /\ chain'.usdt = chain.usdt
    BY <1>3, <2>1 DEF Passes, Becomes, ChainRecord
  <2> QED BY <2>2 DEF Clean, Active
<1> QED BY <1>1, <1>2, <1>3

\* No call has failed when a script is first run.
LEMMA CleanInit == ScriptsInit => CleanInv
<1> SUFFICES ASSUME ScriptsInit, script = "fund-usdt" PROVE failures \in Nat /\ Clean(exec)
  BY DEF CleanInv
<1>1. \E usdt \in Purse : chain = Begun({}, "Absent", usdt)
  BY DEF ScriptsInit
<1>2. chain.stage = "Absent" /\ chain.usdt \in Nat /\ chain.made = {}
  BY <1>1, ScriptConstants DEF Begun, Facts
<1>3. exec = Idle /\ flying = {} /\ failures = 0 /\ exec.at = "off"
  BY DEF ScriptsInit, Idle
<1> QED BY <1>2, <1>3 DEF Clean, Active

\* Every step keeps the invariant.
LEMMA CleanNext ==
  DepositInv /\ ReadyInv /\ FundPaid /\ CleanInv /\ [ScriptsNext]_scriptVars => CleanInv'
<1> SUFFICES ASSUME DepositInv, ReadyInv, PaidInv, failures \in Nat, failures = 0 => Clean(exec),
                    script = "fund-usdt", [ScriptsNext]_scriptVars
             PROVE  failures' \in Nat /\ (failures' = 0 => Clean(exec)')
  BY ScriptStays DEF FundPaid, CleanInv
<1>1. CASE UNCHANGED scriptVars
  BY <1>1 DEF scriptVars, Clean, Farms, Active, Underway, Confirmed, Landed, Owed
<1>2. ASSUME Failure
      PROVE  failures' \in Nat /\ failures' # 0
  BY <1>2 DEF Failure
<1>3. CASE TireOfWaiting \/ RpcFails \/ Crash \/ \E tx \in flying : Expire(tx)
  BY <1>2, <1>3 DEF TireOfWaiting, RpcFails, Crash, Expire
<1>4. CASE CallApi \/ persistEnv
  <2>1. exec.at = "look" /\ Plan[exec.pc].do \in {"http", "write"}
    BY <1>4 DEF CallApi, persistEnv
  <2> QED BY <2>1, LookMeans DEF StepMeans
<1>5. CASE Timeout
  <2>1. failures = 0 => exec.tx \in flying
    BY <1>5 DEF Timeout, Clean
  <2> QED BY <1>2, <1>5, <2>1 DEF Timeout
<1>6. CASE Submit
  <2>1. CASE Unsent
    BY <1>2, <2>1 DEF Unsent
  <2>2. CASE ~Unsent
    <3>1. failures' = failures
      BY <1>6, <2>2 DEF Submit, Accepted, Refused
    <3> QED BY <1>6, <2>2, <3>1, SubmitClean
  <2> QED BY <2>1, <2>2
<1>7. CASE Look \/ Confirm \/ Landing
  <2>1. failures' = failures
    BY <1>7 DEF Look, Confirm, Landing, Land
  <2> QED BY <1>7, <2>1, LookClean, ConfirmClean, LandClean DEF Landing
<1>8. CASE \/ Start \/ Kickoff \/ KeeperMoves \/ GraceElapses
           \/ \E fact \in {"claimed", "fresh", "valid"} : Passes(fact)
  <2>1. failures' = failures
    BY <1>8 DEF Start, Kickoff, KeeperMoves, GraceElapses, Passes, Becomes
  <2> QED BY <1>8, <2>1, RestClean
<1> QED BY <1>1, <1>3, <1>4, <1>5, <1>6, <1>7, <1>8 DEF ScriptsNext, RunStep

\* The whole invariant is what the property says of a script that has come to its end.
LEMMA ReadyIsMeant ==
  ASSUME DepositInv, ReadyInv, FundPaid, CleanInv
  PROVE  DoneMeansReady
<1> SUFFICES ASSUME exec.at = "done" PROVE DoneMeansReady
  BY DEF DoneMeansReady
<1>1. Ready /\ script \in ScriptNames
  BY DEF ReadyInv, ReadyExec, DepositInv
<1>2. CASE script = "fund-usdt"
  <2>1. ~Underway(exec) /\ exec.paid \in Nat /\ wallets \in Nat
    BY <1>2 DEF Underway, FundPaid, PaidInv
  <2>2. PICK s : s = {w \in 1..wallets : <<"claimed", w>> \in chain.made}
    OBVIOUS
  <2>3. Counted \in Int /\ Counted <= wallets /\ exec.paid <= Cardinality(Claimed(Counted))
    BY <1>2, <2>1 DEF FundPaid, PaidInv, Counted
  <2>4. exec.paid <= Cardinality(s)
    <3>0. PICK k \in Int : k = wallets
      BY <2>1
    <3>1. IsFiniteSet(1..k) /\ s \in SUBSET (1..k) /\ Claimed(Counted) \in SUBSET s
      <4>1. IsFiniteSet(1..k)
        BY FS_Interval
      <4>2. s \in SUBSET (1..k)
        BY <2>2, <3>0
      <4>3. Claimed(Counted) \in SUBSET s
        BY <2>2, <2>3, <3>0 DEF Claimed
      <4> QED BY <4>1, <4>2, <4>3
    <3>2. IsFiniteSet(s) /\ IsFiniteSet(Claimed(Counted))
      BY <3>1, FS_Subset
    <3>3. Cardinality(Claimed(Counted)) <= Cardinality(s)
      BY <3>1, <3>2, FS_Subset
    <3>4. Cardinality(Claimed(Counted)) \in Nat /\ Cardinality(s) \in Nat
      BY <3>2, FS_CardinalityType
    <3> QED BY <2>1, <2>3, <3>3, <3>4
  <2>5. failures = 0 => chain.usdt >= TARGET
    BY <1>2 DEF CleanInv, Clean
  <2> QED BY <1>2, <2>2, <2>4, <2>5 DEF DoneMeansReady
<1>3. CASE script = "devnet-init"
  BY <1>1, <1>3 DEF DoneMeansReady, Ready, Has, Facts, Configs
<1>4. CASE script = "enable-leverage"
  BY <1>1, <1>4 DEF DoneMeansReady, Ready, Has, Facts
<1>5. CASE script \in {"full-circle", "leverage-circle", "close-market", "txline-token"}
  BY <1>1, <1>5 DEF DoneMeansReady, Ready
<1> QED BY <1>1, <1>2, <1>3, <1>4, <1>5 DEF ScriptNames

\* Whatever fails, lands late, twice or never: a script that ends has brought about
\* what it was run for, because each step goes on only when its goal is on the chain
\* and nothing on its way takes it back; fund-usdt counts only claims that have come
\* in, and meets its target when no call fails.
THEOREM DoneIsReady == ScriptsSpec => []DoneMeansReady
BY DepositInit, DepositNext, ReadyInit, ReadyNext, PaidInit, PaidNext, CleanInit, CleanNext,
   ReadyIsMeant, PTL DEF ScriptsSpec
=============================================================================
