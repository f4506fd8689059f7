--------------------------- MODULE SpikeRunProofs ---------------------------
(* Proofs about SpikeRun, for any messages, prices, cap, prompts and       *)
(* transcript, and about the log of its session (SpikeLog), for any calls, *)
(* tools, policy and updates.  That a run ends is left to TLC.             *)
EXTENDS SpikeRun, SpikeLog, FiniteSetTheorems, SequenceTheorems, TLAPS

LEMMA EmptyCostsNothing == LedgerCost(<<>>) = 0
<1>1. DOMAIN <<>> = {}
  OBVIOUS
<1>. DEFINE F(cost) == [s \in SUBSET {} |->
                IF s = {} THEN 0
                ELSE LET m == CHOOSE m \in s : TRUE
                     IN (<<>>[m] * PricingForModel(ModelOf[m])) + cost[s \ {m}]]
<1>2. F([s \in SUBSET {} |-> 0]) = [s \in SUBSET {} |-> 0]
  OBVIOUS
<1>. HIDE DEF F
<1>3. \E g : g = F(g)
  BY <1>2
<1>4. (CHOOSE cost : cost = F(cost)) = F(CHOOSE cost : cost = F(cost))
  BY <1>3
<1>5. \A g : F(g)[{}] = 0
  BY DEF F
<1>6. (CHOOSE cost : cost = F(cost))[{}] = 0
  BY <1>4, <1>5
<1>7. LedgerCost(<<>>) = (CHOOSE cost : cost = F(cost))[{}]
  BY <1>1 DEF LedgerCost, MapThenSumSet, MapThenFoldSet, F
<1>. QED  BY <1>6, <1>7

-----------------------------------------------------------------------------
(* The cap *)

(* Whoever finds the cap exceeded aborts, and an abort without a kill on   *)
(* its way is one of the catch, after which the finally block kills.       *)
CapInv ==
    /\ Exceeded(ledger) => abortedBy # "none"
    /\ abortedBy # "none" /\ kill = "no" => pc \in {"kill", "exit", "done"}

LEMMA AccountKeepsCap ==
  ASSUME NEW l, Account(l), CapInv
  PROVE  /\ Exceeded(ledger') => abortedBy' # "none"
         /\ abortedBy' # "none" /\ kill' = "no" => abortedBy # "none" /\ kill = "no"
  BY DEF Account, Abort, CapInv

LEMMA CapStep == CapInv /\ [Next]_vars => CapInv'
<1>. SUFFICES ASSUME CapInv, [Next]_vars PROVE CapInv'
  OBVIOUS
<1>1. CASE \/ BoxComesUp \/ BoxExits \/ CliWrites \/ FinalKill \/ Done \/ UNCHANGED vars
  <2>1. UNCHANGED <<ledger, abortedBy, kill>>
    BY <1>1 DEF BoxComesUp, BoxExits, CliWrites, FinalKill, Done, vars, money, control
  <2>2. pc \in {"kill", "exit", "done"} => pc' \in {"kill", "exit", "done"}
    BY <1>1 DEF BoxComesUp, BoxExits, CliWrites, FinalKill, Done, vars
  <2>. QED  BY <2>1, <2>2 DEF CapInv
<1>2. CASE Initialized \/ HistoryRead \/ SessionReady \/ PromptBegins \/ PromptEnds
           \/ LoopEnds \/ LookRead
  <2>1. UNCHANGED <<ledger, abortedBy, kill>>
    BY <1>2 DEF Initialized, HistoryRead, SessionReady, PromptBegins, PromptEnds,
                LoopEnds, LookRead, money, control
  <2>2. pc \notin {"kill", "exit", "done"}
    BY <1>2 DEF Initialized, HistoryRead, SessionReady, PromptBegins, PromptEnds,
                LoopEnds, LookRead
  <2>. QED  BY <2>1, <2>2 DEF CapInv
<1>3. CASE HandshakeFails
  <2>1. pc' = "kill" /\ abortedBy' # "none"
    BY <1>3 DEF HandshakeFails
  <2>. QED  BY <2>1 DEF CapInv
<1>4. CASE LookHandled
  <2>1. pc' = "kill" /\ Account(Reconciled(SubSeq(transcript, 1, look)))
    BY <1>4 DEF LookHandled
  <2>. QED  BY <2>1, AccountKeepsCap DEF CapInv
<1>5. CASE TailLine
  <2>1. pc' = pc /\ HandleTranscriptLine(transcript[tailed + 1])
    BY <1>5 DEF TailLine
  <2>2. CASE Account(RecordUsage(ledger, transcript[tailed + 1]))
    BY <2>1, <2>2, AccountKeepsCap DEF CapInv
  <2>3. CASE UNCHANGED <<ledger, kill, abortedBy>>
    BY <2>1, <2>3 DEF CapInv
  <2>. QED  BY <2>1, <2>2, <2>3 DEF HandleTranscriptLine
<1>6. CASE TimerFires
  BY <1>6 DEF TimerFires, Abort, CapInv, money
<1>7. CASE AbortKills
  BY <1>7 DEF AbortKills, CapInv, money
<1>. QED  BY <1>1, <1>2, <1>3, <1>4, <1>5, <1>6, <1>7 DEF Next

(* Whatever the prices and the cap, and whoever notices that the cap is    *)
(* exceeded, a run over its cap is being stopped (run.ts:244-247).         *)
THEOREM CapStopsTheRun == Spec => []OverCapIsStopping
<1>1. Init => CapInv
  <2>1. ~Exceeded(<<>>)
    BY EmptyCostsNothing, PricesAssumption DEF Exceeded
  <2>. QED  BY <2>1 DEF Init, CapInv
<1>2. CapInv => OverCapIsStopping
  BY DEF CapInv, OverCapIsStopping
<1>. QED  BY <1>1, <1>2, CapStep, PTL DEF Spec

-----------------------------------------------------------------------------
(* The transcript *)

LEMMA Smallest ==
  ASSUME NEW n \in Nat, NEW T, T \subseteq 1..n, T # {}
  PROVE  \E x \in T : \A y \in T : x <= y
<1>. DEFINE Below == {1..x : x \in T}
            R == StrictSubsetOrdering(1..n)
            S == FiniteSubsetsOf(1..n)
<1>1. \A x \in T : 1..x \in S
  <2>. TAKE x \in T
  <2>1. IsFiniteSet(1..x)
    BY FS_Interval
  <2>2. 1..x \subseteq 1..n
    OBVIOUS
  <2>. QED  BY <2>1, <2>2 DEF FiniteSubsetsOf
<1>2. Below \subseteq S /\ Below # {}
  BY <1>1
<1>3. IsWellFoundedOn(R, S)
  BY FS_StrictSubsetOrderingWellFounded
<1>4. \E b \in Below : \A c \in Below : <<c, b>> \notin R
  <2>. HIDE DEF Below, R, S
  <2>. QED  BY <1>2, <1>3, WFMin
<1>5. PICK x \in T : \A y \in T : <<1..y, 1..x>> \notin R
  BY <1>4
<1>6. ASSUME NEW y \in T, y < x PROVE FALSE
  <2>1. x \in 1..n /\ y \in 1..n
    OBVIOUS
  <2>2. 1..y \subseteq 1..x /\ x \notin 1..y /\ x \in 1..x
    BY <2>1, <1>6
  <2>3. 1..y \in SUBSET (1..n) /\ 1..x \in SUBSET (1..n) /\ 1..y # 1..x
    BY <2>1, <2>2
  <2>4. <<1..y, 1..x>> \in R
    BY <2>2, <2>3 DEF StrictSubsetOrdering
  <2>. QED  BY <2>4, <1>5
<1>7. \A y \in T : x <= y
  BY <1>6
<1>. QED  BY <1>7

(* The transcript is only appended to, and a message's counts only grow.   *)
FileInv ==
    /\ transcript \in Seq(Line)
    /\ earlier \in 0..Len(transcript)
    /\ \A j \in 1..Len(transcript), i \in 1..Len(transcript) :
           i < j /\ transcript[i].id = transcript[j].id =>
               transcript[i].count <= transcript[j].count

Growing == /\ transcript' \in Seq(Line) /\ Len(transcript') >= Len(transcript)
           /\ \A i \in 1..Len(transcript) : transcript'[i] = transcript[i]

LEMMA FileAtStart == Init => FileInv
<1>. SUFFICES ASSUME Init PROVE FileInv
  OBVIOUS
<1>1. CASE transcript = <<>>
  <2>1. transcript \in Seq(Line) /\ Len(transcript) = 0
    BY <1>1
  <2>. QED  BY <2>1 DEF Init, FileInv
<1>2. ASSUME NEW l \in Line, transcript = <<l>> PROVE FileInv
  <2>1. transcript \in Seq(Line) /\ Len(transcript) = 1
    BY <1>2
  <2>. QED  BY <2>1 DEF Init, FileInv
<1>. QED  BY <1>1, <1>2 DEF Init

LEMMA FileStep == FileInv /\ [Next]_vars => FileInv' /\ Growing /\ earlier' = earlier
<1>. SUFFICES ASSUME FileInv, [Next]_vars PROVE FileInv' /\ Growing /\ earlier' = earlier
  OBVIOUS
<1>1. CASE CliWrites
  <2>1. PICK l \in Line :
           /\ \A i \in DOMAIN transcript :
                 transcript[i].id = l.id => i > earlier /\ transcript[i].count <= l.count
           /\ transcript' = Append(transcript, l)
    BY <1>1 DEF CliWrites
  <2>2. earlier' = earlier
    BY <1>1 DEF CliWrites
  <2>3. /\ transcript' \in Seq(Line) /\ Len(transcript') = Len(transcript) + 1
        /\ \A i \in 1..Len(transcript) : transcript'[i] = transcript[i]
        /\ transcript'[Len(transcript) + 1] = l
        /\ Len(transcript) \in Nat /\ DOMAIN transcript = 1..Len(transcript)
    BY <2>1 DEF FileInv
  <2>4. Growing
    BY <2>3 DEF Growing
  <2>5. earlier' \in 0..Len(transcript')
    BY <2>2, <2>3 DEF FileInv
  <2>6. ASSUME NEW j \in 1..Len(transcript'), NEW i \in 1..Len(transcript'), i < j,
               transcript'[i].id = transcript'[j].id
        PROVE  transcript'[i].count <= transcript'[j].count
    <3>1. i \in 1..Len(transcript)
      BY <2>3, <2>6
    <3>2. CASE j = Len(transcript) + 1
      BY <2>1, <2>3, <2>6, <3>1, <3>2
    <3>3. CASE j # Len(transcript) + 1
      <4>1. j \in 1..Len(transcript)
        BY <2>3, <3>3
      <4>. QED  BY <2>3, <2>6, <3>1, <4>1 DEF FileInv
    <3>. QED  BY <3>2, <3>3
  <2>. QED  BY <2>2, <2>3, <2>4, <2>5, <2>6 DEF FileInv
<1>2. CASE ~CliWrites
  <2>1. UNCHANGED <<transcript, earlier>>
    BY <1>2 DEF Next, BoxComesUp, BoxExits, Initialized, HistoryRead, SessionReady,
                HandshakeFails, PromptBegins, PromptEnds, LoopEnds, LookRead, LookHandled,
                FinalKill, Done, TailLine, TimerFires, AbortKills, boxVars, vars
  <2>. QED  BY <2>1 DEF FileInv, Growing
<1>. QED  BY <1>1, <1>2

-----------------------------------------------------------------------------
(* The ledger *)

(* Where the session is, against what was read and charged so far.         *)
PlaceInv ==
    /\ pc \in {"initialize", "history", "session"} => DOMAIN ledger = {} /\ tailed = 0
    /\ pc \in {"initialize", "history", "session"} => tail = "none"
    /\ pc \notin {"look", "kill", "exit", "done"} => look = 0
    /\ look \in 0..Len(transcript)
    /\ tailed \in 0..Len(transcript)

(* The history, when it could be read, is that of the earlier lines, and   *)
(* none of it is charged.                                                  *)
HistoryInv ==
    /\ preexisting # {} => preexisting = {transcript[i].id : i \in 1..earlier}
    /\ DOMAIN ledger \cap preexisting = {}

Charged(i) ==
    IsUsage(transcript[i]) /\ transcript[i].id \notin preexisting =>
        /\ transcript[i].id \in DOMAIN ledger
        /\ ledger[transcript[i].id] >= transcript[i].count

Found(i) == IsUsage(transcript[i]) => transcript[i].id \in preexisting \cup DOMAIN ledger

ChargeInv ==
    /\ \A i \in 1..tailed : Charged(i)
    /\ pc \in {"kill", "exit", "done"} => \A i \in 1..look : Found(i)

LedgerInv == PlaceInv /\ HistoryInv /\ ChargeInv

LEMMA ReconciledCharges ==
  ASSUME FileInv, look \in 0..Len(transcript), DOMAIN ledger \cap preexisting = {}
  PROVE  LET l == Reconciled(SubSeq(transcript, 1, look)) IN
         /\ DOMAIN ledger \subseteq DOMAIN l
         /\ \A m \in DOMAIN ledger : l[m] = ledger[m]
         /\ DOMAIN l \cap preexisting = {}
         /\ \A i \in 1..look : IsUsage(transcript[i]) =>
                transcript[i].id \in preexisting \cup DOMAIN l
<1>. DEFINE lines == SubSeq(transcript, 1, look)
            l == Reconciled(lines)
            known == preexisting \cup DOMAIN ledger
<1>1. /\ Len(transcript) \in Nat /\ look \in Nat
      /\ DOMAIN lines = 1..look /\ \A i \in 1..look : lines[i] = transcript[i]
  BY DEF FileInv
<1>2. DOMAIN l = DOMAIN ledger \cup {lines[i].id : i \in Missing(lines)}
  BY DEF Reconciled
<1>3. \A m \in DOMAIN ledger : l[m] = ledger[m]
  BY DEF Reconciled
<1>4. DOMAIN l \cap preexisting = {}
  BY <1>2 DEF Missing
<1>5. ASSUME NEW i \in 1..look, IsUsage(transcript[i]), transcript[i].id \notin known
      PROVE  transcript[i].id \in DOMAIN l
  <2>. DEFINE same == {j \in 1..look : transcript[j].id = transcript[i].id}
  <2>1. PICK j \in same : \A k \in same : j <= k
    <3>1. same \subseteq 1..look /\ same # {}
      OBVIOUS
    <3>. HIDE DEF same
    <3>. QED  BY <3>1, <1>1, Smallest
  <2>2. j \in 1..look /\ transcript[j].id = transcript[i].id
    OBVIOUS
  <2>3. \A k \in 1..(j - 1) : lines[k].id # lines[j].id
    <3>1. ASSUME NEW k \in 1..(j - 1), lines[k].id = lines[j].id PROVE FALSE
      <4>1. k \in 1..look /\ k < j
        BY <1>1, <2>2
      <4>2. k \in same
        BY <1>1, <2>2, <3>1, <4>1
      <4>. QED  BY <2>1, <4>1, <4>2, <2>2
    <3>. QED  BY <3>1
  <2>4. IsUsage(lines[j])
    BY <1>1, <1>5, <2>2 DEF IsUsage
  <2>5. j \in Missing(lines)
    BY <1>1, <1>5, <2>2, <2>3, <2>4 DEF Missing
  <2>. QED  BY <1>1, <1>2, <2>2, <2>5
<1>6. DOMAIN ledger \subseteq DOMAIN l
  BY <1>2
<1>. QED  BY <1>3, <1>4, <1>5, <1>6

LEMMA RecordedCharges ==
  ASSUME NEW line
  PROVE  LET l == RecordUsage(ledger, line) IN
         /\ DOMAIN l = DOMAIN ledger \cup {line.id}
         /\ l[line.id] = line.count
         /\ \A m \in DOMAIN ledger : m # line.id => l[m] = ledger[m]
  BY DEF RecordUsage

(* Nothing is accounted for, and the session does not go back.             *)
Idle ==
    /\ UNCHANGED <<ledger, tailed, preexisting, look>>
    /\ pc' \in {"initialize", "history", "session"} =>
           pc \in {"initialize", "history", "session"} /\ tail' = tail
    /\ pc' \in {"look", "kill", "exit", "done"} =>
           pc \in {"look", "kill", "exit", "done"} \/ look = 0
    /\ pc' \notin {"look", "kill", "exit", "done"} => pc \notin {"look", "kill", "exit", "done"}
    /\ pc' \in {"kill", "exit", "done"} => pc \in {"kill", "exit", "done"} \/ look = 0

LEMMA IdleKeepsLedger ==
  ASSUME FileInv, LedgerInv, Growing, earlier' = earlier, Idle
  PROVE  LedgerInv'
<1>1. /\ Len(transcript) \in Nat /\ Len(transcript') \in Nat
      /\ Len(transcript') >= Len(transcript)
      /\ \A i \in 1..Len(transcript) : transcript'[i] = transcript[i]
  BY DEF FileInv, Growing
<1>2. tailed \in 0..Len(transcript) /\ look \in 0..Len(transcript) /\ earlier \in 0..Len(transcript)
  BY DEF LedgerInv, PlaceInv, FileInv
<1>3. PlaceInv'
  BY <1>1, <1>2 DEF LedgerInv, PlaceInv, Idle
<1>4. HistoryInv'
  <2>1. {transcript'[i].id : i \in 1..earlier} = {transcript[i].id : i \in 1..earlier}
    <3>1. \A i \in 1..earlier : transcript'[i] = transcript[i]
      BY <1>1, <1>2
    <3>. QED  BY <3>1
  <2>. QED  BY <2>1 DEF LedgerInv, HistoryInv, Idle
<1>5. \A i \in 1..tailed' : Charged(i)'
  <2>1. \A i \in 1..tailed : Charged(i) /\ transcript'[i] = transcript[i]
    BY <1>1, <1>2 DEF LedgerInv, ChargeInv
  <2>. QED  BY <2>1 DEF Charged, Idle, IsUsage
<1>6. pc' \in {"kill", "exit", "done"} => \A i \in 1..look' : Found(i)'
  <2>1. CASE look = 0
    BY <2>1 DEF Idle
  <2>2. CASE pc \in {"kill", "exit", "done"}
    <3>1. \A i \in 1..look : Found(i) /\ transcript'[i] = transcript[i]
      BY <1>1, <1>2, <2>2 DEF LedgerInv, ChargeInv
    <3>. QED  BY <3>1 DEF Found, Idle, IsUsage
  <2>. QED  BY <2>1, <2>2 DEF Idle
<1>. QED  BY <1>3, <1>4, <1>5, <1>6 DEF LedgerInv, ChargeInv

LEMMA LedgerStep == FileInv /\ LedgerInv /\ [Next]_vars => LedgerInv'
<1>. SUFFICES ASSUME FileInv, LedgerInv, [Next]_vars PROVE LedgerInv'
  OBVIOUS
<1>0. Growing /\ earlier' = earlier
  BY FileStep
<1>a. PlaceInv /\ HistoryInv /\ ChargeInv
  BY DEF LedgerInv
<1>b. Len(transcript) \in Nat /\ \A i \in 1..Len(transcript) : transcript[i] \in Line
  BY DEF FileInv
<1>1. CASE BoxComesUp \/ BoxExits \/ CliWrites \/ TimerFires \/ AbortKills \/ UNCHANGED vars
  <2>1. Idle
    BY <1>1 DEF Idle, BoxComesUp, BoxExits, CliWrites, TimerFires, AbortKills, vars, money
  <2>. QED  BY <2>1, <1>0, IdleKeepsLedger
<1>2. CASE Initialized \/ PromptBegins \/ PromptEnds \/ LoopEnds \/ FinalKill \/ Done
  <2>1. Idle
    BY <1>2, <1>a DEF Idle, Initialized, PromptBegins, PromptEnds, LoopEnds, FinalKill,
                      Done, money, PlaceInv
  <2>. QED  BY <2>1, <1>0, IdleKeepsLedger
<1>3. CASE SessionReady \/ HandshakeFails
  <2>1. Idle
    BY <1>3, <1>a DEF Idle, SessionReady, HandshakeFails, money, PlaceInv
  <2>. QED  BY <2>1, <1>0, IdleKeepsLedger
<1>4. CASE HistoryRead
  <2>1. /\ pc = "history" /\ pc' = "session"
        /\ UNCHANGED <<transcript, earlier, ledger, tailed, tail, look>>
    BY <1>4 DEF HistoryRead, boxVars
  <2>2. \/ preexisting' = {}
        \/ preexisting' = {transcript[i].id : i \in 1..earlier}
    <3>1. {l.id : l \in {transcript[i] : i \in 1..earlier}} = {transcript[i].id : i \in 1..earlier}
      OBVIOUS
    <3>. QED  BY <3>1, <1>4 DEF HistoryRead
  <2>3. DOMAIN ledger = {} /\ tailed = 0 /\ tail = "none" /\ look = 0
    BY <2>1, <1>a DEF PlaceInv
  <2>4. PlaceInv'
    BY <2>1, <2>3, <1>b DEF PlaceInv
  <2>5. HistoryInv'
    BY <2>1, <2>2, <2>3 DEF HistoryInv
  <2>6. ChargeInv'
    BY <2>1, <2>3 DEF ChargeInv
  <2>. QED  BY <2>4, <2>5, <2>6 DEF LedgerInv
<1>5. CASE LookRead
  <2>1. /\ pc = "settle" /\ pc' = "look"
        /\ UNCHANGED <<transcript, earlier, ledger, preexisting, tailed, tail>>
        /\ look' = 0 \/ look' = Len(transcript)
    BY <1>5 DEF LookRead, boxVars, money
  <2>2. PlaceInv'
    BY <2>1, <1>a, <1>b DEF PlaceInv
  <2>3. HistoryInv'
    BY <2>1, <1>a DEF HistoryInv
  <2>4. ChargeInv'
    BY <2>1, <1>a DEF ChargeInv, Charged, IsUsage
  <2>. QED  BY <2>2, <2>3, <2>4 DEF LedgerInv
<1>6. CASE LookHandled
  <2>. DEFINE l == Reconciled(SubSeq(transcript, 1, look))
  <2>1. /\ pc' = "kill" /\ ledger' = l
        /\ UNCHANGED <<transcript, earlier, preexisting, tailed, look>>
    BY <1>6 DEF LookHandled, Account, boxVars
  <2>2. /\ DOMAIN ledger \subseteq DOMAIN l
        /\ \A m \in DOMAIN ledger : l[m] = ledger[m]
        /\ DOMAIN l \cap preexisting = {}
        /\ \A i \in 1..look : IsUsage(transcript[i]) =>
               transcript[i].id \in preexisting \cup DOMAIN l
    BY <1>a, ReconciledCharges DEF PlaceInv, HistoryInv
  <2>. HIDE DEF l
  <2>3. PlaceInv'
    BY <2>1, <1>a DEF PlaceInv
  <2>4. HistoryInv'
    BY <2>1, <2>2, <1>a DEF HistoryInv
  <2>5. \A i \in 1..tailed : Charged(i)'
    BY <2>1, <2>2, <1>a DEF ChargeInv, Charged, IsUsage
  <2>6. \A i \in 1..look : Found(i)'
    BY <2>1, <2>2 DEF Found, IsUsage
  <2>. QED  BY <2>1, <2>3, <2>4, <2>5, <2>6 DEF LedgerInv, ChargeInv
<1>7. CASE TailLine
  <2>. DEFINE line == transcript[tailed + 1]
              l == RecordUsage(ledger, line)
  <2>1. /\ tail = "on" /\ tailed < Len(transcript) /\ tailed' = tailed + 1
        /\ UNCHANGED <<transcript, earlier, pc, preexisting, tail, look>>
        /\ HandleTranscriptLine(line)
    BY <1>7 DEF TailLine, boxVars
  <2>2. tailed \in Nat /\ tailed + 1 \in 1..Len(transcript) /\ line \in Line
    BY <2>1, <1>a, <1>b DEF PlaceInv
  <2>3. pc \notin {"initialize", "history", "session"}
    BY <2>1, <1>a DEF PlaceInv
  <2>4. PlaceInv'
    BY <2>1, <2>2, <2>3, <1>a DEF PlaceInv
  <2>5. CASE Counts(line, ledger)
    <3>1. ledger' = l
      BY <2>1, <2>5 DEF HandleTranscriptLine, Account
    <3>2. /\ DOMAIN l = DOMAIN ledger \cup {line.id}
          /\ l[line.id] = line.count
          /\ \A m \in DOMAIN ledger : m # line.id => l[m] = ledger[m]
      BY RecordedCharges
    <3>. HIDE DEF l
    <3>3. line.id \notin preexisting
      BY <2>5 DEF Counts
    <3>4. HistoryInv'
      BY <2>1, <3>1, <3>2, <3>3, <1>a DEF HistoryInv
    <3>5. ASSUME NEW i \in 1..tailed' PROVE Charged(i)'
      <4>1. CASE transcript[i].id = line.id
        <5>1. i \in 1..Len(transcript) /\ i <= tailed + 1
          BY <2>1, <2>2
        <5>2. transcript[i].count <= line.count
          <6>1. CASE i = tailed + 1
            BY <6>1, <2>2 DEF Line
          <6>2. CASE i # tailed + 1
            BY <6>2, <5>1, <4>1, <2>2 DEF FileInv
          <6>. QED  BY <6>1, <6>2
        <5>3. transcript[i].count \in Int /\ line.count \in Int
          BY <5>1, <2>2, <1>b DEF Line
        <5>. QED  BY <2>1, <3>1, <3>2, <4>1, <5>2, <5>3 DEF Charged
      <4>2. CASE transcript[i].id # line.id
        <5>1. i \in 1..tailed
          BY <4>2, <2>1, <2>2
        <5>. QED  BY <2>1, <3>1, <3>2, <4>2, <5>1, <1>a DEF ChargeInv, Charged, IsUsage
      <4>. QED  BY <4>1, <4>2
    <3>6. pc' \in {"kill", "exit", "done"} => \A i \in 1..look' : Found(i)'
      BY <2>1, <3>1, <3>2, <1>a DEF ChargeInv, Found, IsUsage
    <3>. QED  BY <2>4, <3>4, <3>5, <3>6 DEF LedgerInv, ChargeInv
  <2>6. CASE ~Counts(line, ledger)
    <3>1. ledger' = ledger
      BY <2>1, <2>6 DEF HandleTranscriptLine
    <3>2. HistoryInv'
      BY <2>1, <3>1, <1>a DEF HistoryInv
    <3>3. ASSUME NEW i \in 1..tailed' PROVE Charged(i)'
      <4>1. CASE i = tailed + 1
        <5>1. line.count \in Int
          BY <2>2 DEF Line
        <5>. QED  BY <2>1, <2>6, <3>1, <4>1, <5>1 DEF Counts, Charged, IsUsage
      <4>2. CASE i # tailed + 1
        <5>1. i \in 1..tailed
          BY <4>2, <2>1, <2>2
        <5>. QED  BY <2>1, <3>1, <5>1, <1>a DEF ChargeInv, Charged, IsUsage
      <4>. QED  BY <4>1, <4>2
    <3>4. pc' \in {"kill", "exit", "done"} => \A i \in 1..look' : Found(i)'
      BY <2>1, <3>1, <1>a DEF ChargeInv, Found, IsUsage
    <3>. QED  BY <2>4, <3>2, <3>3, <3>4 DEF LedgerInv, ChargeInv
  <2>. QED  BY <2>5, <2>6
<1>. QED  BY <1>1, <1>2, <1>3, <1>4, <1>5, <1>6, <1>7 DEF Next

LEMMA LedgerAtStart == Init => LedgerInv
<1>. SUFFICES ASSUME Init PROVE LedgerInv
  OBVIOUS
<1>1. Len(transcript) \in Nat
  BY FileAtStart DEF FileInv
<1>2. DOMAIN ledger = {} /\ tailed = 0 /\ look = 0 /\ tail = "none" /\ preexisting = {}
      /\ pc = "initialize"
  BY DEF Init
<1>. QED  BY <1>1, <1>2 DEF LedgerInv, PlaceInv, HistoryInv, ChargeInv

(* Whatever the transcript holds, a resumed run whose history was read is  *)
(* charged for none of it (run.ts:226, :381-390).                          *)
THEOREM HistoryIsNeverCharged == Spec => []HistoryIsFree
<1>1. FileInv /\ LedgerInv => HistoryIsFree
  <2>. SUFFICES ASSUME FileInv, LedgerInv, preexisting # {}
                PROVE  DOMAIN ledger \cap IdsOf(SubSeq(transcript, 1, earlier)) = {}
    BY DEF HistoryIsFree
  <2>. DEFINE lines == SubSeq(transcript, 1, earlier)
  <2>1. DOMAIN lines = 1..earlier /\ \A i \in 1..earlier : lines[i] = transcript[i]
    BY DEF FileInv
  <2>2. IdsOf(lines) = {transcript[i].id : i \in 1..earlier}
    BY <2>1 DEF IdsOf
  <2>. QED  BY <2>2 DEF LedgerInv, HistoryInv
<1>. QED  BY <1>1, FileAtStart, FileStep, LedgerAtStart, LedgerStep, PTL DEF Spec

(* Whatever is written when, and whether the tail or the last look comes   *)
(* first, what either has seen is charged (run.ts:224-248, :463-472).      *)
THEOREM WhatIsSeenIsCharged == Spec => []Accounted
<1>1. LedgerInv => Accounted
  BY DEF LedgerInv, ChargeInv, Charged, Found, Accounted
<1>. QED  BY <1>1, FileAtStart, FileStep, LedgerAtStart, LedgerStep, PTL DEF Spec

-----------------------------------------------------------------------------
(* Types *)

Controls ==
    /\ box \in {"starting", "up", "gone"}
    /\ tail \in {"none", "on", "stopped"}
    /\ timer \in {"armed", "over"}
    /\ kill \in {"no", "asleep", "sent"}
    /\ abortedBy \in {"none", "host_cap", "timeout", "box_exited"}

Pcs == pc \in {"initialize", "history", "session", "loop", "prompt", "settle",
               "look", "kill", "exit", "done"}

Money ==
    /\ preexisting \subseteq Messages
    /\ DOMAIN ledger \subseteq Messages
    /\ \A m \in DOMAIN ledger : ledger[m] \in 0..MaxCount

Bounds == /\ Len(transcript) <= earlier + MaxLines /\ earlier \in 0..1
          /\ prompted \in 0..Prompts

LEMMA AccountTypes ==
  ASSUME NEW l, Account(l)
  PROVE  kill' \in {kill, "asleep"} /\ abortedBy' \in {abortedBy, "host_cap"}
  BY DEF Account, Abort

LEMMA ControlsStep == Controls /\ [Next]_vars => Controls'
<1>. SUFFICES ASSUME Controls, [Next]_vars PROVE Controls'
  OBVIOUS
<1>1. box' \in {box, "up", "gone"}
  BY DEF Next, BoxComesUp, BoxExits, CliWrites, Initialized, HistoryRead, SessionReady,
         HandshakeFails, PromptBegins, PromptEnds, LoopEnds, LookRead, LookHandled,
         FinalKill, Done, TailLine, TimerFires, AbortKills, Killed, boxVars, vars
<1>2. tail' \in {tail, "on", "stopped"}
  BY DEF Next, BoxComesUp, BoxExits, CliWrites, Initialized, HistoryRead, SessionReady,
         HandshakeFails, PromptBegins, PromptEnds, LoopEnds, LookRead, LookHandled,
         FinalKill, Done, TailLine, TimerFires, AbortKills, vars
<1>3. timer' \in {timer, "over"}
  BY DEF Next, BoxComesUp, BoxExits, CliWrites, Initialized, HistoryRead, SessionReady,
         HandshakeFails, PromptBegins, PromptEnds, LoopEnds, LookRead, LookHandled,
         FinalKill, Done, TailLine, TimerFires, AbortKills, control, vars
<1>4. /\ kill' \in {kill, "asleep", "sent"}
      /\ abortedBy' \in {abortedBy, "host_cap", "timeout", "box_exited"}
  <2>1. CASE LookHandled
    BY <2>1, AccountTypes DEF LookHandled
  <2>2. CASE TailLine
    BY <2>2, AccountTypes DEF TailLine, HandleTranscriptLine
  <2>3. CASE TimerFires \/ AbortKills \/ HandshakeFails
    BY <2>3 DEF TimerFires, Abort, AbortKills, HandshakeFails
  <2>4. CASE ~(LookHandled \/ TailLine \/ TimerFires \/ AbortKills \/ HandshakeFails)
    BY <2>4 DEF Next, BoxComesUp, BoxExits, CliWrites, Initialized, HistoryRead,
                SessionReady, PromptBegins, PromptEnds, LoopEnds, LookRead, FinalKill,
                Done, control, vars
  <2>. QED  BY <2>1, <2>2, <2>3, <2>4
<1>. QED  BY <1>1, <1>2, <1>3, <1>4 DEF Controls

LEMMA PcsStep == Pcs /\ [Next]_vars => Pcs'
  BY DEF Pcs, Next, BoxComesUp, BoxExits, CliWrites, Initialized, HistoryRead,
         SessionReady, HandshakeFails, PromptBegins, PromptEnds, LoopEnds, LookRead,
         LookHandled, FinalKill, Done, TailLine, TimerFires, AbortKills, vars

LEMMA BoundsStep == Bounds /\ FileInv /\ [Next]_vars => Bounds'
<1>. SUFFICES ASSUME Bounds, FileInv, [Next]_vars PROVE Bounds'
  OBVIOUS
<1>1. CASE CliWrites
  <2>1. /\ Len(transcript) \in Nat /\ Len(transcript) < earlier + MaxLines
        /\ Len(transcript') = Len(transcript) + 1 /\ UNCHANGED <<earlier, prompted>>
    BY <1>1 DEF CliWrites, FileInv
  <2>. QED  BY <2>1, PricesAssumption DEF Bounds
<1>2. CASE PromptBegins
  <2>1. /\ prompted < Prompts /\ prompted' = prompted + 1
        /\ UNCHANGED <<earlier, transcript>>
    BY <1>2 DEF PromptBegins, boxVars
  <2>. QED  BY <2>1, PricesAssumption DEF Bounds
<1>3. CASE ~(CliWrites \/ PromptBegins)
  <2>1. UNCHANGED <<transcript, earlier, prompted>>
    BY <1>3 DEF Next, BoxComesUp, BoxExits, Initialized, HistoryRead, SessionReady,
                HandshakeFails, PromptEnds, LoopEnds, LookRead, LookHandled,
                FinalKill, Done, TailLine, TimerFires, AbortKills, boxVars, vars
  <2>. QED  BY <2>1 DEF Bounds
<1>. QED  BY <1>1, <1>2, <1>3

LEMMA MoneyStep == Money /\ FileInv /\ LedgerInv /\ [Next]_vars => Money'
<1>. SUFFICES ASSUME Money, FileInv, LedgerInv, [Next]_vars PROVE Money'
  OBVIOUS
<1>1. Len(transcript) \in Nat /\ \A i \in 1..Len(transcript) : transcript[i] \in Line
  BY DEF FileInv
<1>2. CASE HistoryRead
  <2>1. UNCHANGED ledger
    BY <1>2 DEF HistoryRead
  <2>2. \A i \in 1..earlier : transcript[i].id \in Messages
    BY <1>1 DEF FileInv, Line
  <2>3. preexisting' \subseteq Messages
    BY <1>2, <2>2 DEF HistoryRead
  <2>. QED  BY <2>1, <2>3 DEF Money
<1>3. CASE LookHandled
  <2>. DEFINE lines == SubSeq(transcript, 1, look)
  <2>1. ledger' = Reconciled(lines) /\ preexisting' = preexisting
    BY <1>3 DEF LookHandled, Account
  <2>2. DOMAIN lines = 1..look /\ \A i \in 1..look : lines[i] \in Line
    BY <1>1 DEF LedgerInv, PlaceInv
  <2>3. Missing(lines) \subseteq 1..look
    BY <2>2 DEF Missing
  <2>4. DOMAIN Reconciled(lines) = DOMAIN ledger \cup {lines[i].id : i \in Missing(lines)}
    BY DEF Reconciled
  <2>5. DOMAIN Reconciled(lines) \subseteq Messages
    BY <2>2, <2>3, <2>4 DEF Money, Line
  <2>6. ASSUME NEW m \in DOMAIN Reconciled(lines) PROVE Reconciled(lines)[m] \in 0..MaxCount
    <3>1. CASE m \in DOMAIN ledger
      BY <3>1 DEF Reconciled, Money
    <3>2. CASE m \notin DOMAIN ledger
      <4>. DEFINE i == CHOOSE i \in Missing(lines) : lines[i].id = m
      <4>1. i \in Missing(lines)
        BY <2>4, <2>6, <3>2
      <4>2. Reconciled(lines)[m] = lines[i].count
        BY <2>4, <2>6, <3>2 DEF Reconciled
      <4>3. lines[i] \in Line
        BY <2>2, <2>3, <4>1
      <4>. QED  BY <4>2, <4>3 DEF Line
    <3>. QED  BY <3>1, <3>2
  <2>. QED  BY <2>1, <2>5, <2>6 DEF Money
<1>4. CASE TailLine
  <2>1. /\ preexisting' = preexisting
        /\ \/ ledger' = ledger
           \/ ledger' = RecordUsage(ledger, transcript[tailed + 1])
    BY <1>4 DEF TailLine, HandleTranscriptLine, Account
  <2>2. transcript[tailed + 1] \in Line
    BY <1>1, <1>4 DEF TailLine, LedgerInv, PlaceInv
  <2>3. transcript[tailed + 1].id \in Messages /\ transcript[tailed + 1].count \in 0..MaxCount
    BY <2>2 DEF Line
  <2>. QED  BY <2>1, <2>3 DEF Money, RecordUsage
<1>5. CASE ~(HistoryRead \/ LookHandled \/ TailLine)
  <2>1. UNCHANGED <<preexisting, ledger>>
    BY <1>5 DEF Next, BoxComesUp, BoxExits, CliWrites, Initialized, SessionReady,
                HandshakeFails, PromptBegins, PromptEnds, LoopEnds, LookRead, FinalKill,
                Done, TimerFires, AbortKills, money, vars
  <2>. QED  BY <2>1 DEF Money
<1>. QED  BY <1>2, <1>3, <1>4, <1>5

(* Every variable of a run stays in its set.                               *)
THEOREM SpikeTypes == Spec => []TypeOK
<1>1. Init => Controls /\ Pcs /\ Money /\ Bounds
  <2>. SUFFICES ASSUME Init PROVE Controls /\ Pcs /\ Money /\ Bounds
    OBVIOUS
  <2>1. Controls /\ Pcs
    BY DEF Init, Controls, Pcs
  <2>2. Money
    BY DEF Init, Money
  <2>3. Len(transcript) \in 0..1 /\ earlier = Len(transcript) /\ prompted = 0
    BY DEF Init
  <2>4. Bounds
    BY <2>3, PricesAssumption DEF Bounds
  <2>. QED  BY <2>1, <2>2, <2>4
<1>2. Controls /\ Pcs /\ Money /\ Bounds /\ FileInv /\ LedgerInv => TypeOK
  BY DEF Controls, Pcs, Money, Bounds, FileInv, LedgerInv, PlaceInv, TypeOK
<1>. QED
  BY <1>1, <1>2, ControlsStep, PcsStep, BoundsStep, MoneyStep, FileAtStart, FileStep,
     LedgerAtStart, LedgerStep, PTL DEF Spec
-----------------------------------------------------------------------------
(* The log of the session *)

Printed == [n : Nat, what : Updates \cup {"image_saved"}, tool : Tools \cup {Unknown}]
Request == [call : Calls, tool : Tools \cup {Unknown}, final : Statuses \cup {Unknown},
            at : Nat, answer : {"allow_once", "reject_once", "cancelled"}]

LogTypes ==
    /\ arrived \in Seq(Update)
    /\ permissionLog \in Seq(Request)
    /\ \A p \in DOMAIN permissionLog : permissionLog[p].at <= Len(arrived)
    /\ printed \in Seq(Printed)
    /\ \A i \in DOMAIN printed : printed[i].n \in 1..Len(arrived)
    /\ \A c \in DOMAIN toolCalls : toolCalls[c].tool \in Tools \cup {Unknown}
    /\ \A c \in DOMAIN toolNames : toolNames[c] \in Tools \cup {Unknown}
    /\ \A n \in DOMAIN writing : n \in 1..Len(arrived) /\ writing[n] \in Nat \ {0}
                                 /\ arrived[n].images # 0
    /\ failed \subseteq 1..Len(arrived) /\ failed \cap DOMAIN writing = {}

(* What a log holds of an update, given what has become of its handler.    *)
Of(log, what, n) == {i \in DOMAIN log : log[i].what \in what /\ log[i].n = n}

Whole(log, n, images, fate) ==
    \/ fate \in {"failed", "open"} /\ Of(log, Updates, n) = {}
    \/ /\ fate = "over"
       /\ \E i \in Of(log, Updates, n) :
            /\ Of(log, Updates, n) = {i}
            /\ \A j \in Of(log, {"image_saved"}, n) : j < i
            /\ Of(log, {"image_saved"}, n) = {} <=> images = 0

Fate(n) == IF n \in failed THEN "failed" ELSE IF n \in DOMAIN writing THEN "open" ELSE "over"

InOrder(log, arr) ==
    \A i, j \in DOMAIN log :
        /\ log[i].what \in Updates /\ log[j].what \in Updates /\ i < j
        /\ arr[log[i].n].images = 0 /\ arr[log[j].n].images = 0
        => log[i].n < log[j].n

AllWhole == \A n \in DOMAIN arrived : Whole(printed, n, arrived[n].images, Fate(n))

LEMMA WholeLog == AllWhole /\ InOrder(printed, arrived) => LogIsComplete
<1>. SUFFICES ASSUME AllWhole, InOrder(printed, arrived) PROVE LogIsComplete
  OBVIOUS
<1>1. ASSUME NEW n \in DOMAIN arrived
      PROVE  LET own == {i \in Records(Updates) : printed[i].n = n}
                 saved == {i \in Records({"image_saved"}) : printed[i].n = n}
             IN
             \/ n \in failed /\ own = {}
             \/ n \in DOMAIN writing /\ own = {}
             \/ n \notin failed \cup DOMAIN writing /\ \E i \in own :
                   /\ own = {i} /\ \A j \in saved : j < i
                   /\ saved = {} <=> arrived[n].images = 0
  <2>. DEFINE own == {i \in Records(Updates) : printed[i].n = n}
              saved == {i \in Records({"image_saved"}) : printed[i].n = n}
  <2>1. own = Of(printed, Updates, n) /\ saved = Of(printed, {"image_saved"}, n)
    BY DEF Records, Of
  <2>2. Whole(printed, n, arrived[n].images, Fate(n))
    BY DEF AllWhole
  <2>. HIDE DEF own, saved
  <2>3. \/ n \in failed /\ own = {}
        \/ n \in DOMAIN writing /\ own = {}
        \/ n \notin failed \cup DOMAIN writing /\ \E i \in own :
              /\ own = {i} /\ \A j \in saved : j < i
              /\ saved = {} <=> arrived[n].images = 0
    BY <2>1, <2>2 DEF Whole, Fate
  <2>. QED  BY <2>3 DEF own, saved
<1>2. \A i, j \in Records(Updates) :
        (i < j /\ arrived[printed[i].n].images = 0 /\ arrived[printed[j].n].images = 0)
            => printed[i].n < printed[j].n
  BY DEF InOrder, Records
<1>. QED  BY <1>1, <1>2 DEF LogIsComplete

LEMMA RecordAdded ==
  ASSUME NEW log \in Seq(Printed), NEW r \in Printed, NEW what, NEW n
  PROVE  LET longer == Append(log, r) IN
         /\ longer \in Seq(Printed) /\ Len(longer) = Len(log) + 1
         /\ \A i \in DOMAIN longer : (i \in DOMAIN log /\ longer[i] = log[i])
                                     \/ (i = Len(longer) /\ longer[i] = r)
         /\ r.what \in what /\ r.n = n => Of(longer, what, n) = Of(log, what, n) \cup {Len(longer)}
         /\ ~(r.what \in what /\ r.n = n) => Of(longer, what, n) = Of(log, what, n)
<1>. DEFINE longer == Append(log, r)
<1>1. /\ longer \in Seq(Printed) /\ Len(longer) = Len(log) + 1 /\ longer[Len(longer)] = r
      /\ DOMAIN longer = DOMAIN log \cup {Len(longer)}
      /\ \A i \in DOMAIN log : longer[i] = log[i]
  OBVIOUS
<1>. HIDE DEF longer
<1>2. Len(longer) \notin DOMAIN log
  BY <1>1
<1>3. r.what \in what /\ r.n = n => Of(longer, what, n) = Of(log, what, n) \cup {Len(longer)}
  BY <1>1 DEF Of
<1>4. ~(r.what \in what /\ r.n = n) => Of(longer, what, n) = Of(log, what, n)
  BY <1>1 DEF Of
<1>. QED  BY <1>1, <1>3, <1>4 DEF longer

(* The first request of a call, if it has any.                             *)
LEMMA FirstIsFirst ==
  ASSUME permissionLog \in Seq(Request), NEW call
  PROVE  LET p == FirstRequest(call) IN
         \/ p = 0 /\ \A q \in DOMAIN permissionLog : permissionLog[q].call # call
         \/ /\ p \in DOMAIN permissionLog /\ permissionLog[p].call = call
            /\ \A q \in DOMAIN permissionLog : permissionLog[q].call = call => p <= q
<1>. DEFINE own == {q \in 1..Len(permissionLog) : permissionLog[q].call = call}
<1>1. FirstRequest(call) = IF own # {} THEN Min(own) ELSE 0
  BY DEF FirstRequest, SelectInSeq
<1>2. CASE own = {}
  BY <1>1, <1>2
<1>3. CASE own # {}
  <2>1. \E x \in own : \A y \in own : x <= y
    <3>1. own \subseteq 1..Len(permissionLog) /\ Len(permissionLog) \in Nat
      OBVIOUS
    <3>. HIDE DEF own
    <3>. QED  BY <3>1, <1>3, Smallest
  <2>2. Min(own) \in own /\ \A y \in own : Min(own) <= y
    <3>. HIDE DEF own
    <3>. QED  BY <2>1 DEF Min
  <2>. QED  BY <1>1, <1>3, <2>2
<1>. QED  BY <1>2, <1>3

(* The requests *)
Announces(arr, call) == \E a \in 1..Len(arr) : arr[a].type = "tool_call" /\ arr[a].call = call

ToldAfter(arr, r) ==
    {n \in (r.at + 1)..Len(arr) :
        /\ arr[n].call = r.call /\ arr[n].status # Unknown
        /\ \E a \in 1..n : arr[a].type = "tool_call" /\ arr[a].call = r.call}

Ended(arr, r, first) ==
    IF first = "first" /\ ToldAfter(arr, r) # {}
    THEN \E n \in ToldAfter(arr, r) :
            r.final = arr[n].status /\ \A k \in ToldAfter(arr, r) : k <= n
    ELSE r.final = Unknown

Place(log, p) ==
    IF \A q \in 1..(p - 1) : log[q].call # log[p].call THEN "first" ELSE "later"

AllEnded ==
    \A p \in DOMAIN permissionLog :
        Ended(arrived, permissionLog[p], Place(permissionLog, p))

CallsKnown == \A c : c \in DOMAIN toolCalls <=> Announces(arrived, c)

LEMMA EndedAsTold == AllEnded <=> FinalStatusIsTheLast
<1>1. ASSUME NEW p \in DOMAIN permissionLog
      PROVE  Ended(arrived, permissionLog[p], Place(permissionLog, p)) <=>
        LET r == permissionLog[p]
            told == {n \in (r.at + 1)..Len(arrived) :
                        /\ arrived[n].call = r.call /\ arrived[n].status # Unknown
                        /\ \E a \in 1..n : arrived[a].type = "tool_call"
                                           /\ arrived[a].call = r.call}
            first == \A q \in 1..(p - 1) : permissionLog[q].call # r.call
        IN
        IF first /\ told # {}
        THEN \E n \in told : r.final = arrived[n].status /\ \A k \in told : k <= n
        ELSE r.final = Unknown
  <2>. DEFINE told == {n \in (permissionLog[p].at + 1)..Len(arrived) :
                        /\ arrived[n].call = permissionLog[p].call
                        /\ arrived[n].status # Unknown
                        /\ \E a \in 1..n : arrived[a].type = "tool_call"
                                           /\ arrived[a].call = permissionLog[p].call}
              first == \A q \in 1..(p - 1) : permissionLog[q].call # permissionLog[p].call
  <2>1. told = ToldAfter(arrived, permissionLog[p])
    BY DEF ToldAfter
  <2>2. first <=> Place(permissionLog, p) = "first"
    BY DEF Place
  <2>. HIDE DEF told, first
  <2>3. Ended(arrived, permissionLog[p], Place(permissionLog, p)) <=>
        IF first /\ told # {}
        THEN \E n \in told : permissionLog[p].final = arrived[n].status
                             /\ \A k \in told : k <= n
        ELSE permissionLog[p].final = Unknown
    BY <2>1, <2>2 DEF Ended
  <2>. QED  BY <2>3 DEF told, first
<1>. QED  BY <1>1 DEF AllEnded, FinalStatusIsTheLast

(* A status reported of an announced call is the newest for its requests;  *)
(* any other update leaves what was told of a request as it is.            *)
LEMMA ToldGrows ==
  ASSUME NEW arr \in Seq(Update), NEW u \in Update, NEW r, r.at \in Nat, r.at <= Len(arr)
  PROVE  LET more == Append(arr, u) IN
         /\ u.call = r.call /\ u.status # Unknown /\ Announces(arr, r.call)
                => ToldAfter(more, r) = ToldAfter(arr, r) \cup {Len(more)}
         /\ ~(u.call = r.call /\ u.status # Unknown /\ Announces(arr, r.call))
                => ToldAfter(more, r) = ToldAfter(arr, r)
         /\ more[Len(more)] = u
         /\ \A k \in ToldAfter(arr, r) : k < Len(more) /\ more[k] = arr[k]
<1>. DEFINE more == Append(arr, u)
            m == Len(arr)
<1>1. /\ m \in Nat /\ Len(more) = m + 1 /\ more[m + 1] = u
      /\ \A k \in 1..m : more[k] = arr[k]
  OBVIOUS
<1>2. u.type = "tool_call" => u.status = Unknown
  BY DEF Update
<1>. HIDE DEF more, m
<1>3. ASSUME NEW n \in 1..m
      PROVE  (\E a \in 1..n : more[a].type = "tool_call" /\ more[a].call = r.call)
         <=> (\E a \in 1..n : arr[a].type = "tool_call" /\ arr[a].call = r.call)
  BY <1>1
<1>4. ASSUME NEW n \in (r.at + 1)..m PROVE n \in ToldAfter(more, r) <=> n \in ToldAfter(arr, r)
  <2>1. n \in 1..m /\ n \in (r.at + 1)..(m + 1)
    BY <1>1
  <2>2. more[n] = arr[n]
    BY <1>1, <2>1
  <2>. QED  BY <2>1, <2>2, <1>1, <1>3 DEF ToldAfter, m
<1>5. m + 1 \in (r.at + 1)..(m + 1) /\ (r.at + 1)..(m + 1) = (r.at + 1)..m \cup {m + 1}
  BY <1>1 DEF m
<1>6. m + 1 \in ToldAfter(more, r) <=>
          u.call = r.call /\ u.status # Unknown /\ Announces(arr, r.call)
  <2>1. (\E a \in 1..(m + 1) : more[a].type = "tool_call" /\ more[a].call = r.call)
           <=> Announces(arr, r.call) \/ (u.type = "tool_call" /\ u.call = r.call)
    BY <1>1 DEF Announces, m
  <2>. QED  BY <2>1, <1>1, <1>2, <1>5 DEF ToldAfter
<1>7. ToldAfter(more, r) \subseteq (r.at + 1)..(m + 1) /\ ToldAfter(arr, r) \subseteq (r.at + 1)..m
  BY <1>1 DEF ToldAfter, m
<1>8. \A k \in (r.at + 1)..m : k < m + 1 /\ more[k] = arr[k]
  BY <1>1
<1>9. m + 1 \notin ToldAfter(arr, r)
  BY <1>1, <1>7
<1>10. m + 1 \in ToldAfter(more, r) => ToldAfter(more, r) = ToldAfter(arr, r) \cup {m + 1}
  BY <1>4, <1>5, <1>7
<1>11. m + 1 \notin ToldAfter(more, r) => ToldAfter(more, r) = ToldAfter(arr, r)
  BY <1>4, <1>5, <1>7, <1>9
<1>. QED  BY <1>1, <1>6, <1>7, <1>8, <1>10, <1>11 DEF more

LEMMA EndedGrows ==
  ASSUME NEW arr \in Seq(Update), NEW u \in Update, NEW r, r.at \in Nat, r.at <= Len(arr),
         NEW first, Ended(arr, r, first), NEW s, s.at = r.at, s.call = r.call,
         \/ /\ s.final = r.final
            /\ ~(u.call = r.call /\ u.status # Unknown /\ Announces(arr, r.call))
         \/ s.final = r.final /\ first # "first"
         \/ /\ s.final = u.status /\ first = "first"
            /\ u.call = r.call /\ u.status # Unknown /\ Announces(arr, r.call)
  PROVE  Ended(Append(arr, u), s, first)
<1>. DEFINE more == Append(arr, u)
<1>1. \A ups : ToldAfter(ups, s) = ToldAfter(ups, r)
  BY DEF ToldAfter
<1>2. /\ u.call = r.call /\ u.status # Unknown /\ Announces(arr, r.call)
                => ToldAfter(more, r) = ToldAfter(arr, r) \cup {Len(more)}
      /\ ~(u.call = r.call /\ u.status # Unknown /\ Announces(arr, r.call))
                => ToldAfter(more, r) = ToldAfter(arr, r)
      /\ more[Len(more)] = u
      /\ \A k \in ToldAfter(arr, r) : k < Len(more) /\ more[k] = arr[k]
  BY ToldGrows
<1>3. Len(more) \in Nat /\ ToldAfter(arr, r) \subseteq Nat
  BY DEF ToldAfter
<1>. HIDE DEF more
<1>4. CASE first # "first"
  BY <1>4 DEF Ended, more
<1>5. CASE first = "first" /\ ~(u.call = r.call /\ u.status # Unknown /\ Announces(arr, r.call))
  BY <1>1, <1>2, <1>5 DEF Ended, more
<1>6. CASE first = "first" /\ u.call = r.call /\ u.status # Unknown /\ Announces(arr, r.call)
  <2>1. ToldAfter(more, s) = ToldAfter(arr, r) \cup {Len(more)} /\ s.final = u.status
    BY <1>1, <1>2, <1>6
  <2>2. \A k \in ToldAfter(more, s) : k <= Len(more)
    <3>1. \A k \in ToldAfter(arr, r) : k <= Len(more)
      BY <1>2, <1>3
    <3>. QED  BY <2>1, <3>1, <1>3
  <2>. QED  BY <2>1, <2>2, <1>2, <1>6 DEF Ended, more
<1>. QED  BY <1>4, <1>5, <1>6

(* What is booked of an update.                                            *)
LEMMA Booking ==
  ASSUME LogTypes, CallsKnown, AllEnded, NEW u \in Update, arrived' = Append(arrived, u),
         Book(u)
  PROVE  /\ AllEnded' /\ CallsKnown'
         /\ permissionLog' \in Seq(Request)
         /\ \A p \in DOMAIN permissionLog' : permissionLog'[p].at <= Len(arrived')
         /\ \A c \in DOMAIN toolCalls' : toolCalls'[c].tool \in Tools \cup {Unknown}
         /\ \A c \in DOMAIN toolNames' : toolNames'[c] \in Tools \cup {Unknown}
<1>1. /\ arrived \in Seq(Update) /\ permissionLog \in Seq(Request)
      /\ Len(arrived') = Len(arrived) + 1 /\ arrived'[Len(arrived) + 1] = u
      /\ \A k \in 1..Len(arrived) : arrived'[k] = arrived[k]
      /\ Len(arrived) \in Nat
  BY DEF LogTypes
<1>2. u.tool \in Tools \cup {Unknown} /\ u.status \in Statuses \cup {Unknown} /\ u.call \in Calls
      /\ (u.type = "tool_call" => u.status = Unknown)
  BY DEF Update
<1>3. \A c : Announces(arrived', c) <=>
          Announces(arrived, c) \/ (u.type = "tool_call" /\ u.call = c)
  BY <1>1 DEF Announces
<1>4. ASSUME NEW p \in DOMAIN permissionLog
      PROVE  /\ permissionLog[p].at \in Nat /\ permissionLog[p].at <= Len(arrived)
             /\ Ended(arrived, permissionLog[p], Place(permissionLog, p))
  <2>1. permissionLog[p] \in Request
    BY <1>1
  <2>2. permissionLog[p].at \in Nat
    BY <2>1 DEF Request
  <2>. QED  BY <2>2 DEF LogTypes, AllEnded
<1>5. ASSUME ~(u.status # Unknown /\ Announces(arrived, u.call)), UNCHANGED permissionLog
      PROVE  /\ AllEnded'
             /\ permissionLog' \in Seq(Request)
             /\ \A p \in DOMAIN permissionLog' : permissionLog'[p].at <= Len(arrived')
  <2>1. ASSUME NEW p \in DOMAIN permissionLog
        PROVE  Ended(arrived', permissionLog[p], Place(permissionLog, p))
    BY <1>1, <1>4, <1>5, EndedGrows
  <2>2. AllEnded'
    BY <1>5, <2>1 DEF AllEnded
  <2>3. \A p \in DOMAIN permissionLog :
            permissionLog[p].at <= Len(arrived) /\ permissionLog[p].at \in Nat
    BY <1>4
  <2>4. \A p \in DOMAIN permissionLog : permissionLog[p].at <= Len(arrived')
    BY <2>3, <1>1
  <2>. QED  BY <1>1, <1>5, <2>2, <2>4
<1>6. CASE /\ u.type = "tool_call"
           /\ toolNames' = IF u.tool = Unknown THEN toolNames
                           ELSE MapSet(toolNames, u.call, u.tool)
           /\ toolCalls' = MapSet(toolCalls, u.call,
                               [tool |-> u.tool, status |-> Unknown, asked |-> FALSE])
           /\ UNCHANGED permissionLog
  <2>1. CallsKnown'
    BY <1>3, <1>6 DEF CallsKnown, MapSet
  <2>2. \A c \in DOMAIN toolNames' : toolNames'[c] \in Tools \cup {Unknown}
    BY <1>2, <1>6 DEF MapSet, LogTypes
  <2>. DEFINE entry == [tool |-> u.tool, status |-> Unknown, asked |-> FALSE]
  <2>3. entry.tool = u.tool /\ toolCalls' = MapSet(toolCalls, u.call, entry)
    BY <1>6
  <2>4. \A c \in DOMAIN toolCalls' : toolCalls'[c].tool \in Tools \cup {Unknown}
    <3>. HIDE DEF entry
    <3>. QED  BY <2>3, <1>2 DEF MapSet, LogTypes
  <2>5. ~(u.status # Unknown /\ Announces(arrived, u.call)) /\ UNCHANGED permissionLog
    BY <1>2, <1>6
  <2>. HIDE DEF entry
  <2>. QED  BY <2>1, <2>2, <2>4, <2>5, <1>5
<1>7. CASE /\ u.type = "tool_call_update"
           /\ u.call \in DOMAIN toolCalls /\ u.status # Unknown
           /\ toolCalls' = [toolCalls EXCEPT ![u.call].status = u.status]
           /\ LET p == FirstRequest(u.call) IN
              permissionLog' = IF p = 0 THEN permissionLog
                               ELSE [permissionLog EXCEPT ![p].final = u.status]
           /\ UNCHANGED toolNames
  <2>1. CallsKnown'
    BY <1>3, <1>7 DEF CallsKnown
  <2>2. \A c \in DOMAIN toolCalls' : toolCalls'[c].tool \in Tools \cup {Unknown}
    <3>1. \A c \in DOMAIN toolCalls : toolCalls'[c].tool = toolCalls[c].tool
      BY <1>7
    <3>. QED  BY <3>1, <1>7 DEF LogTypes
  <2>3. Announces(arrived, u.call) /\ u.status # Unknown
    BY <1>7 DEF CallsKnown
  <2>. DEFINE f == FirstRequest(u.call)
  <2>4. \/ f = 0 /\ \A q \in DOMAIN permissionLog : permissionLog[q].call # u.call
        \/ /\ f \in DOMAIN permissionLog /\ permissionLog[f].call = u.call
           /\ \A q \in DOMAIN permissionLog : permissionLog[q].call = u.call => f <= q
    BY <1>1, FirstIsFirst
  <2>5. permissionLog' = IF f = 0 THEN permissionLog
                         ELSE [permissionLog EXCEPT ![f].final = u.status]
    BY <1>7
  <2>. HIDE DEF f
  <2>6. CASE f = 0
    <3>1. ASSUME NEW p \in DOMAIN permissionLog
          PROVE  Ended(arrived', permissionLog[p], Place(permissionLog, p))
      <4>1. permissionLog[p].call # u.call
        BY <2>4, <2>6, <1>1
      <4>. QED  BY <1>1, <1>4, <4>1, EndedGrows
    <3>2. permissionLog' = permissionLog
      BY <2>5, <2>6
    <3>3. AllEnded'
      BY <3>1, <3>2 DEF AllEnded
    <3>4. \A p \in DOMAIN permissionLog : permissionLog[p].at <= Len(arrived')
      BY <1>1, <1>4
    <3>. QED  BY <1>1, <1>7, <2>1, <2>2, <3>2, <3>3, <3>4 DEF LogTypes
  <2>7. CASE f # 0
    <3>1. /\ f \in DOMAIN permissionLog /\ permissionLog[f].call = u.call
          /\ \A q \in DOMAIN permissionLog : permissionLog[q].call = u.call => f <= q
      BY <2>4, <2>7
    <3>2. permissionLog' = [permissionLog EXCEPT ![f].final = u.status]
      BY <2>5, <2>7
    <3>3. /\ permissionLog' \in Seq(Request) /\ DOMAIN permissionLog' = DOMAIN permissionLog
          /\ \A q \in DOMAIN permissionLog :
                permissionLog'[q].call = permissionLog[q].call
                /\ permissionLog'[q].at = permissionLog[q].at
                /\ permissionLog'[q].final = IF q = f THEN u.status ELSE permissionLog[q].final
      <4>1. permissionLog[f] \in Request
        BY <3>1, <1>1
      <4>. DEFINE new == [permissionLog[f] EXCEPT !.final = u.status]
      <4>2. /\ new \in Request /\ new.call = permissionLog[f].call
            /\ new.at = permissionLog[f].at /\ new.final = u.status
        BY <4>1, <1>2 DEF Request
      <4>3. permissionLog' = [permissionLog EXCEPT ![f] = new]
        BY <3>2
      <4>. HIDE DEF new
      <4>. QED  BY <4>2, <4>3, <3>1, <1>1
    <3>4. DOMAIN permissionLog = 1..Len(permissionLog) /\ Len(permissionLog) \in Nat
      BY <1>1
    <3>5. \A p \in DOMAIN permissionLog : Place(permissionLog', p) = Place(permissionLog, p)
      <4>1. \A p \in DOMAIN permissionLog : \A q \in 1..(p - 1) : q \in DOMAIN permissionLog
        BY <3>4
      <4>2. \A q \in DOMAIN permissionLog : permissionLog'[q].call = permissionLog[q].call
        BY <3>3
      <4>. QED  BY <4>1, <4>2 DEF Place
    <3>6. Place(permissionLog, f) = "first"
      BY <3>1, <3>4 DEF Place
    <3>7. ASSUME NEW p \in DOMAIN permissionLog, p # f, permissionLog[p].call = u.call
          PROVE  Place(permissionLog, p) # "first"
      BY <3>1, <3>4, <3>7 DEF Place
    <3>8. ASSUME NEW p \in DOMAIN permissionLog
          PROVE  Ended(arrived', permissionLog'[p], Place(permissionLog', p))
      <4>. DEFINE r == permissionLog[p]
                  s == permissionLog'[p]
                  first == Place(permissionLog, p)
      <4>0. /\ r.at \in Nat /\ r.at <= Len(arrived) /\ Ended(arrived, r, first)
            /\ s.at = r.at /\ s.call = r.call /\ Place(permissionLog', p) = first
            /\ s.final = IF p = f THEN u.status ELSE r.final
            /\ arrived \in Seq(Update) /\ arrived' = Append(arrived, u)
        BY <1>1, <1>4, <3>3, <3>5
      <4>1. CASE p = f
        <5>1. r.call = u.call /\ first = "first" /\ Announces(arrived, r.call)
          BY <4>1, <2>3, <3>1, <3>6
        <5>. HIDE DEF r, s, first
        <5>. QED  BY <4>0, <4>1, <5>1, <2>3, EndedGrows DEF s
      <4>2. CASE p # f /\ permissionLog[p].call = u.call
        <5>1. first # "first" /\ s.final = r.final
          BY <4>0, <4>2, <3>7
        <5>. HIDE DEF r, s, first
        <5>. QED  BY <4>0, <5>1, EndedGrows DEF s
      <4>3. CASE p # f /\ permissionLog[p].call # u.call
        <5>1. u.call # r.call /\ s.final = r.final
          BY <4>0, <4>3
        <5>. HIDE DEF r, s, first
        <5>. QED  BY <4>0, <5>1, EndedGrows DEF s
      <4>. QED  BY <4>1, <4>2, <4>3
    <3>9. AllEnded'
      BY <3>3, <3>8 DEF AllEnded
    <3>10. \A p \in DOMAIN permissionLog : permissionLog'[p].at <= Len(arrived')
      BY <1>1, <1>4, <3>3
    <3>. QED  BY <1>7, <2>1, <2>2, <3>3, <3>9, <3>10 DEF LogTypes
  <2>. QED  BY <2>6, <2>7
<1>8. CASE /\ u.type = "tool_call_update"
           /\ u.call \notin DOMAIN toolCalls \/ u.status = Unknown
           /\ UNCHANGED <<toolCalls, toolNames, permissionLog>>
  <2>1. ~(u.status # Unknown /\ Announces(arrived, u.call))
    BY <1>8 DEF CallsKnown
  <2>2. CallsKnown'
    BY <1>3, <1>8 DEF CallsKnown
  <2>. QED  BY <2>1, <2>2, <1>5, <1>8 DEF LogTypes
<1>. QED  BY <1>6, <1>7, <1>8 DEF Book

(* The printed records *)
LEMMA OrderKept ==
  ASSUME NEW log \in Seq(Printed), NEW r \in Printed, NEW arr, InOrder(log, arr),
         r.what \in Updates /\ arr[r.n].images = 0 => \A i \in DOMAIN log : log[i].n < r.n
  PROVE  InOrder(Append(log, r), arr)
<1>. DEFINE longer == Append(log, r)
<1>1. /\ Len(longer) = Len(log) + 1
      /\ \A i \in DOMAIN longer : (i \in DOMAIN log /\ longer[i] = log[i])
                                  \/ (i = Len(longer) /\ longer[i] = r)
  BY RecordAdded
<1>2. \A i \in DOMAIN longer : i \in Nat /\ i <= Len(longer)
  BY RecordAdded
<1>. HIDE DEF longer
<1>3. SUFFICES ASSUME NEW i \in DOMAIN longer, NEW j \in DOMAIN longer, i < j,
                      longer[i].what \in Updates, longer[j].what \in Updates,
                      arr[longer[i].n].images = 0, arr[longer[j].n].images = 0
               PROVE  longer[i].n < longer[j].n
  BY DEF InOrder, longer
<1>4. i \in DOMAIN log /\ longer[i] = log[i]
  BY <1>1, <1>2, <1>3
<1>5. CASE j \in DOMAIN log /\ longer[j] = log[j]
  BY <1>3, <1>4, <1>5 DEF InOrder
<1>6. CASE longer[j] = r
  BY <1>3, <1>4, <1>6
<1>. QED  BY <1>1, <1>5, <1>6

LEMMA OrderStays ==
  ASSUME NEW log \in Seq(Printed), NEW arr \in Seq(Update), NEW u \in Update,
         InOrder(log, arr), \A i \in DOMAIN log : log[i].n \in 1..Len(arr)
  PROVE  InOrder(log, Append(arr, u))
<1>1. \A k \in 1..Len(arr) : Append(arr, u)[k] = arr[k]
  OBVIOUS
<1>2. \A i \in DOMAIN log : Append(arr, u)[log[i].n] = arr[log[i].n]
  BY <1>1
<1>. QED  BY <1>2 DEF InOrder

LEMMA OthersStayWhole ==
  ASSUME NEW log \in Seq(Printed), NEW r \in Printed, NEW n, NEW images, NEW fate,
         Whole(log, n, images, fate), r.n # n \/ (fate = "open" /\ r.what = "image_saved")
  PROVE  Whole(Append(log, r), n, images, fate)
<1>1. CASE r.n # n
  <2>1. \A what : Of(Append(log, r), what, n) = Of(log, what, n)
    BY <1>1, RecordAdded
  <2>. QED  BY <2>1 DEF Whole
<1>2. CASE fate = "open" /\ r.what = "image_saved"
  <2>1. "image_saved" \notin Updates
    BY DEF Updates
  <2>2. Of(Append(log, r), Updates, n) = Of(log, Updates, n)
    BY <1>2, <2>1, RecordAdded
  <2>. QED  BY <1>2, <2>2 DEF Whole
<1>. QED  BY <1>1, <1>2

LEMMA PrintedIsWhole ==
  ASSUME NEW log \in Seq(Printed), NEW r \in Printed, NEW images,
         Of(log, Updates, r.n) = {}, r.what \in Updates,
         Of(log, {"image_saved"}, r.n) = {} <=> images = 0
  PROVE  Whole(Append(log, r), r.n, images, "over")
<1>. DEFINE longer == Append(log, r)
<1>1. Len(longer) = Len(log) + 1 /\ Len(log) \in Nat
  OBVIOUS
<1>2. Of(longer, Updates, r.n) = {Len(longer)}
  <2>1. \A what, n : r.what \in what /\ r.n = n
                        => Of(longer, what, n) = Of(log, what, n) \cup {Len(longer)}
    BY RecordAdded
  <2>. HIDE DEF longer
  <2>2. Of(longer, Updates, r.n) = Of(log, Updates, r.n) \cup {Len(longer)}
    BY <2>1
  <2>. QED  BY <2>2
<1>3. r.what # "image_saved"
  BY DEF Updates
<1>4. Of(longer, {"image_saved"}, r.n) = Of(log, {"image_saved"}, r.n)
  BY <1>3, RecordAdded
<1>5. \A j \in Of(log, {"image_saved"}, r.n) : j < Len(longer)
  BY <1>1 DEF Of
<1>. HIDE DEF longer
<1>. QED  BY <1>2, <1>4, <1>5 DEF Whole, longer

LogInv ==
    /\ LogTypes /\ CallsKnown /\ AllEnded
    /\ AllWhole /\ InOrder(printed, arrived)

LEMMA RecordTypes ==
  ASSUME NEW n \in Nat, NEW u \in Update, arrived'[n] = u, NEW names,
         \A c \in DOMAIN names : names[c] \in Tools \cup {Unknown}
  PROVE  /\ NormaliseUpdate(n, names) \in Printed
         /\ NormaliseUpdate(n, names).n = n /\ NormaliseUpdate(n, names).what = u.type
         /\ u.type \in Updates
         /\ ImageSaved(n) \in Printed
         /\ ImageSaved(n).n = n /\ ImageSaved(n).what = "image_saved"
<1>1. u.type \in {"tool_call", "tool_call_update"} /\ u.tool \in Tools \cup {Unknown}
  BY DEF Update
<1>. QED  BY <1>1 DEF NormaliseUpdate, ImageSaved, Printed, Updates

(* An update comes in: it is booked, and printed or kept until its images  *)
(* are written.                                                            *)
LEMMA SessionUpdateStep ==
  ASSUME LogInv, NEW u \in Update, NEW n, n = Len(arrived) + 1, SessionUpdate(u)
  PROVE  LogInv'
<1>. DEFINE rec == NormaliseUpdate(n, toolNames')
<1>1. /\ arrived \in Seq(Update) /\ arrived' = Append(arrived, u) /\ Len(arrived') = n
      /\ arrived' \in Seq(Update) /\ arrived'[n] = u /\ n \in Nat \ {0}
      /\ Len(arrived) = n - 1 /\ DOMAIN arrived = 1..(n - 1) /\ DOMAIN arrived' = 1..n
      /\ \A k \in 1..(n - 1) : arrived'[k] = arrived[k]
  BY DEF SessionUpdate, LogInv, LogTypes
<1>2. /\ Book(u) /\ UNCHANGED failed
      /\ IF u.images = 0 THEN printed' = Append(printed, rec) /\ UNCHANGED writing
         ELSE writing' = MapSet(writing, n, u.images) /\ UNCHANGED printed
  BY DEF SessionUpdate
<1>3. /\ AllEnded' /\ CallsKnown'
      /\ permissionLog' \in Seq(Request)
      /\ \A p \in DOMAIN permissionLog' : permissionLog'[p].at <= Len(arrived')
      /\ \A c \in DOMAIN toolCalls' : toolCalls'[c].tool \in Tools \cup {Unknown}
      /\ \A c \in DOMAIN toolNames' : toolNames'[c] \in Tools \cup {Unknown}
  BY <1>1, <1>2, Booking DEF LogInv
<1>4. /\ printed \in Seq(Printed) /\ \A i \in DOMAIN printed : printed[i].n \in 1..(n - 1)
      /\ \A k \in DOMAIN writing : k \in 1..(n - 1) /\ writing[k] \in Nat \ {0}
                                   /\ arrived[k].images # 0
      /\ failed \subseteq 1..(n - 1) /\ failed \cap DOMAIN writing = {}
      /\ u.images \in Nat
  BY <1>1 DEF LogInv, LogTypes, Update
<1>5. \A k \in 1..(n - 1) : Whole(printed, k, arrived[k].images, Fate(k))
  BY <1>1 DEF LogInv, AllWhole
<1>6. /\ rec \in Printed /\ rec.n = n /\ rec.what \in Updates
  BY <1>1, <1>3, RecordTypes
<1>7. InOrder(printed, arrived')
  BY <1>1, <1>4, OrderStays DEF LogInv
<1>8. Of(printed, Updates, n) = {} /\ Of(printed, {"image_saved"}, n) = {}
  BY <1>1, <1>4 DEF Of
<1>. HIDE DEF rec
<1>9. CASE u.images = 0
  <2>1. printed' = Append(printed, rec) /\ writing' = writing /\ failed' = failed
    BY <1>2, <1>9
  <2>2. \A k : Fate(k)' = Fate(k)
    BY <2>1 DEF Fate
  <2>3. /\ printed' \in Seq(Printed)
        /\ \A i \in DOMAIN printed' : (i \in DOMAIN printed /\ printed'[i] = printed[i])
                                      \/ printed'[i] = rec
    BY <2>1, <1>4, <1>6, RecordAdded, SMTT(30)
  <2>4. \A i \in DOMAIN printed' : printed'[i].n \in 1..n
    BY <2>3, <1>1, <1>4, <1>6
  <2>5. \A i \in DOMAIN printed : printed[i].n < rec.n
    BY <1>1, <1>4, <1>6
  <2>6. InOrder(printed', arrived')
    BY <2>1, <2>5, <1>4, <1>6, <1>7, OrderKept
  <2>7. ASSUME NEW k \in 1..(n - 1)
        PROVE  Whole(printed', k, arrived'[k].images, Fate(k)')
    <3>1. rec.n # k
      BY <1>1, <1>6
    <3>. QED  BY <3>1, <2>1, <2>2, <1>1, <1>4, <1>5, <1>6, OthersStayWhole
  <2>8. Whole(printed', n, arrived'[n].images, Fate(n)')
    <3>1. Fate(n) = "over"
      BY <1>1, <1>4 DEF Fate
    <3>2. Whole(Append(printed, rec), rec.n, u.images, "over")
      BY <1>4, <1>6, <1>8, <1>9, PrintedIsWhole
    <3>. QED  BY <3>1, <3>2, <2>1, <2>2, <1>1, <1>6
  <2>9. AllWhole'
    BY <2>7, <2>8, <1>1 DEF AllWhole
  <2>10. LogTypes'
    BY <2>1, <2>3, <2>4, <1>1, <1>3, <1>4 DEF LogTypes
  <2>. QED  BY <2>6, <2>9, <2>10, <1>3 DEF LogInv
<1>10. CASE u.images # 0
  <2>1. printed' = printed /\ writing' = MapSet(writing, n, u.images) /\ failed' = failed
    BY <1>2, <1>10
  <2>2. /\ DOMAIN writing' = DOMAIN writing \cup {n} /\ writing'[n] = u.images
        /\ \A k \in DOMAIN writing \ {n} : writing'[k] = writing[k]
    BY <2>1 DEF MapSet
  <2>3. \A k \in 1..(n - 1) : Fate(k)' = Fate(k)
    BY <2>1, <2>2, <1>1 DEF Fate
  <2>4. Fate(n)' = "open"
    BY <2>1, <2>2, <1>1, <1>4 DEF Fate
  <2>5. ASSUME NEW k \in 1..(n - 1)
        PROVE  Whole(printed', k, arrived'[k].images, Fate(k)')
    BY <2>1, <2>3, <1>1, <1>5
  <2>6. Whole(printed', n, arrived'[n].images, Fate(n)')
    BY <2>1, <2>4, <1>8 DEF Whole
  <2>7. AllWhole'
    BY <2>5, <2>6, <1>1 DEF AllWhole
  <2>8. \A k \in DOMAIN writing' : k \in 1..n /\ writing'[k] \in Nat \ {0}
                                   /\ arrived'[k].images # 0
    BY <2>2, <1>1, <1>4, <1>10
  <2>9. failed' \subseteq 1..n /\ failed' \cap DOMAIN writing' = {}
    BY <2>1, <2>2, <1>1, <1>4
  <2>10. LogTypes'
    BY <2>1, <2>8, <2>9, <1>1, <1>3, <1>4 DEF LogTypes
  <2>. QED  BY <2>1, <2>7, <2>10, <1>3, <1>7 DEF LogInv
<1>. QED  BY <1>9, <1>10

LEMMA TwoAdded ==
  ASSUME NEW S, NEW s \in Seq(S), NEW a \in S, NEW b \in S
  PROVE  s \o <<a, b>> = Append(Append(s, a), b)
  OBVIOUS

(* One image is on disk, the last one with the record of its update.       *)
LEMMA ImageWrittenStep ==
  ASSUME LogInv, NEW n, ImageWritten(n)
  PROVE  LogInv'
<1>. DEFINE rec == NormaliseUpdate(n, toolNames)
            saved == ImageSaved(n)
            m == Len(arrived)
<1>1. /\ n \in DOMAIN writing
      /\ UNCHANGED <<arrived, toolCalls, toolNames, permissionLog, failed>>
      /\ IF writing[n] > 1
         THEN writing' = [writing EXCEPT ![n] = @ - 1] /\ printed' = Append(printed, saved)
         ELSE writing' = MapDelete(writing, n) /\ printed' = printed \o <<saved, rec>>
  BY DEF ImageWritten
<1>2. /\ printed \in Seq(Printed) /\ \A i \in DOMAIN printed : printed[i].n \in 1..m
      /\ \A k \in DOMAIN writing : k \in 1..m /\ writing[k] \in Nat \ {0}
                                   /\ arrived[k].images # 0
      /\ failed \subseteq 1..m /\ failed \cap DOMAIN writing = {}
      /\ m \in Nat /\ arrived \in Seq(Update) /\ DOMAIN arrived = 1..m
      /\ InOrder(printed, arrived)
  BY DEF LogInv, LogTypes
<1>3. \A k \in 1..m : Whole(printed, k, arrived[k].images, Fate(k))
  BY <1>2 DEF LogInv, AllWhole
<1>4. /\ rec \in Printed /\ rec.n = n /\ rec.what \in Updates
      /\ saved \in Printed /\ saved.n = n /\ saved.what = "image_saved"
      /\ n \in 1..m
  <2>1. n \in Nat /\ n \in 1..m /\ arrived[n] \in Update /\ arrived'[n] = arrived[n]
    BY <1>1, <1>2
  <2>2. \A c \in DOMAIN toolNames : toolNames[c] \in Tools \cup {Unknown}
    BY DEF LogInv, LogTypes
  <2>. QED  BY <2>1, <2>2, RecordTypes
<1>5. Fate(n) = "open" /\ Of(printed, Updates, n) = {} /\ arrived[n].images # 0
  BY <1>1, <1>2, <1>3, <1>4 DEF Fate, Whole
<1>. DEFINE log == Append(printed, saved)
<1>6. /\ log \in Seq(Printed) /\ Len(log) = Len(printed) + 1
      /\ \A i \in DOMAIN log : (i \in DOMAIN printed /\ log[i] = printed[i]) \/ log[i] = saved
      /\ Of(log, Updates, n) = Of(printed, Updates, n)
      /\ Of(log, {"image_saved"}, n) = Of(printed, {"image_saved"}, n) \cup {Len(log)}
  <2>1. "image_saved" \notin Updates
    BY DEF Updates
  <2>2. saved.what \notin Updates /\ saved.what \in {"image_saved"}
    BY <2>1, <1>4
  <2>. HIDE DEF saved
  <2>3. /\ log \in Seq(Printed) /\ Len(log) = Len(printed) + 1
        /\ \A i \in DOMAIN log : (i \in DOMAIN printed /\ log[i] = printed[i])
                                 \/ log[i] = saved
    <3>1. \A i \in DOMAIN log : (i \in DOMAIN printed /\ log[i] = printed[i])
                                \/ (i = Len(log) /\ log[i] = saved)
      BY <1>2, <1>4, RecordAdded, SMTT(30)
    <3>2. log \in Seq(Printed) /\ Len(log) = Len(printed) + 1
      BY <1>2, <1>4, RecordAdded, SMTT(30)
    <3>. QED  BY <3>1, <3>2
  <2>4. \A what, k : saved.what \in what /\ saved.n = k
                        => Of(log, what, k) = Of(printed, what, k) \cup {Len(log)}
    BY <1>2, <1>4, RecordAdded, SMTT(30)
  <2>5. \A what, k : ~(saved.what \in what /\ saved.n = k)
                        => Of(log, what, k) = Of(printed, what, k)
    BY <1>2, <1>4, RecordAdded, SMTT(30)
  <2>. HIDE DEF log
  <2>6. Of(log, Updates, n) = Of(printed, Updates, n)
    BY <2>2, <2>5
  <2>7. Of(log, {"image_saved"}, n) = Of(printed, {"image_saved"}, n) \cup {Len(log)}
    BY <2>2, <2>4, <1>4
  <2>. QED  BY <2>3, <2>6, <2>7
<1>7. InOrder(log, arrived)
  BY <1>2, <1>4, OrderKept DEF Updates
<1>8. \A k \in 1..m : Whole(log, k, arrived[k].images, Fate(k))
  BY <1>2, <1>3, <1>4, <1>5, OthersStayWhole
<1>9. \A i \in DOMAIN log : log[i].n \in 1..m
  BY <1>2, <1>4, <1>6
<1>10. AllEnded' /\ CallsKnown'
  BY <1>1 DEF LogInv, AllEnded, CallsKnown
<1>. HIDE DEF rec, saved, log, m
<1>11. CASE writing[n] > 1
  <2>1. writing' = [writing EXCEPT ![n] = @ - 1] /\ printed' = log
    BY <1>1, <1>11 DEF log
  <2>2. /\ DOMAIN writing' = DOMAIN writing
        /\ \A k \in DOMAIN writing : writing'[k] = IF k = n THEN writing[k] - 1 ELSE writing[k]
    BY <2>1
  <2>3. \A k \in 1..m : Fate(k)' = Fate(k)
    BY <2>2, <1>1 DEF Fate
  <2>4. AllWhole' /\ InOrder(printed', arrived')
    BY <2>1, <2>3, <1>1, <1>2, <1>7, <1>8 DEF AllWhole
  <2>5. \A k \in DOMAIN writing' : k \in 1..m /\ writing'[k] \in Nat \ {0}
                                   /\ arrived'[k].images # 0
    BY <2>2, <1>1, <1>2, <1>11
  <2>6. LogTypes'
    BY <2>1, <2>2, <2>5, <1>1, <1>2, <1>6, <1>9 DEF LogInv, LogTypes, m
  <2>. QED  BY <2>4, <2>6, <1>10 DEF LogInv
<1>12. CASE ~(writing[n] > 1)
  <2>1. writing' = MapDelete(writing, n) /\ printed' = Append(log, rec)
    <3>1. printed \o <<saved, rec>> = Append(Append(printed, saved), rec)
      BY <1>2, <1>4, TwoAdded
    <3>. QED  BY <3>1, <1>1, <1>12 DEF log
  <2>2. DOMAIN writing' = DOMAIN writing \ {n}
        /\ \A k \in DOMAIN writing \ {n} : writing'[k] = writing[k]
    BY <2>1 DEF MapDelete
  <2>3. \A k \in (1..m) \ {n} : Fate(k)' = Fate(k)
    BY <2>2, <1>1 DEF Fate
  <2>4. Fate(n)' = "over"
    BY <2>2, <1>1, <1>2 DEF Fate
  <2>5. /\ printed' \in Seq(Printed)
        /\ \A i \in DOMAIN printed' : (i \in DOMAIN log /\ printed'[i] = log[i])
                                      \/ printed'[i] = rec
    BY <2>1, <1>4, <1>6, RecordAdded, SMTT(30)
  <2>6. \A i \in DOMAIN printed' : printed'[i].n \in 1..m
    BY <2>5, <1>4, <1>9
  <2>7. InOrder(printed', arrived')
    BY <2>1, <1>1, <1>4, <1>5, <1>6, <1>7, OrderKept
  <2>8. ASSUME NEW k \in (1..m) \ {n} PROVE Whole(printed', k, arrived'[k].images, Fate(k)')
    BY <2>1, <2>3, <1>1, <1>4, <1>6, <1>8, OthersStayWhole
  <2>9. Whole(printed', n, arrived'[n].images, Fate(n)')
    <3>1. Of(log, {"image_saved"}, n) = {} <=> arrived[n].images = 0
      BY <1>5, <1>6
    <3>2. Whole(Append(log, rec), rec.n, arrived[n].images, "over")
      BY <3>1, <1>4, <1>5, <1>6, PrintedIsWhole
    <3>. QED  BY <3>2, <2>1, <2>4, <1>1, <1>4
  <2>10. AllWhole'
    BY <2>8, <2>9, <1>1, <1>2, <1>4 DEF AllWhole
  <2>11. LogTypes'
    BY <2>2, <2>5, <2>6, <1>1, <1>2 DEF LogInv, LogTypes, m
  <2>. QED  BY <2>7, <2>10, <2>11, <1>10 DEF LogInv
<1>. QED  BY <1>11, <1>12

(* A write fails, and the update is never printed.                         *)
LEMMA ImageFailsStep ==
  ASSUME LogInv, NEW n, ImageFails(n)
  PROVE  LogInv'
<1>1. /\ n \in DOMAIN writing /\ writing' = MapDelete(writing, n) /\ failed' = failed \cup {n}
      /\ UNCHANGED <<arrived, toolCalls, toolNames, permissionLog, printed>>
  BY DEF ImageFails
<1>2. DOMAIN writing' = DOMAIN writing \ {n}
      /\ \A k \in DOMAIN writing \ {n} : writing'[k] = writing[k]
  BY <1>1 DEF MapDelete
<1>3. \A k : k # n => Fate(k)' = Fate(k)
  BY <1>1, <1>2 DEF Fate
<1>4. Fate(n) = "open" /\ Fate(n)' = "failed"
  BY <1>1 DEF Fate, LogInv, LogTypes
<1>5. AllWhole'
  <2>1. ASSUME NEW k \in DOMAIN arrived PROVE Whole(printed, k, arrived[k].images, Fate(k)')
    <3>1. Whole(printed, k, arrived[k].images, Fate(k))
      BY DEF LogInv, AllWhole
    <3>2. CASE k = n
      BY <3>1, <3>2, <1>4 DEF Whole
    <3>. QED  BY <3>1, <3>2, <1>3
  <2>. QED  BY <2>1, <1>1 DEF AllWhole
<1>6. LogTypes'
  BY <1>1, <1>2 DEF LogInv, LogTypes
<1>7. AllEnded' /\ CallsKnown' /\ InOrder(printed', arrived')
  BY <1>1 DEF LogInv, AllEnded, CallsKnown
<1>. QED  BY <1>5, <1>6, <1>7 DEF LogInv

(* A request comes in: nothing has been told of its call since, and the    *)
(* requests before it keep their place.                                    *)
LEMMA RequestPermissionStep ==
  ASSUME LogInv, NEW call \in Calls, NEW offered, RequestPermission(call, offered)
  PROVE  LogInv'
<1>. DEFINE tool == IF call \in DOMAIN toolCalls THEN toolCalls[call].tool ELSE Unknown
            r == [call |-> call, tool |-> tool, final |-> Unknown, at |-> Len(arrived),
                  answer |-> SelectOption(Decide(tool), offered)]
            yes == TRUE
<1>1. /\ permissionLog' = Append(permissionLog, r)
      /\ toolCalls' = IF call \in DOMAIN toolCalls
                      THEN [toolCalls EXCEPT ![call].asked = yes] ELSE toolCalls
      /\ UNCHANGED <<arrived, toolNames, writing, printed, failed>>
  BY DEF RequestPermission
<1>2. /\ arrived \in Seq(Update) /\ permissionLog \in Seq(Request) /\ Len(arrived) \in Nat
      /\ \A p \in DOMAIN permissionLog : permissionLog[p].at <= Len(arrived)
      /\ \A c \in DOMAIN toolCalls : toolCalls[c].tool \in Tools \cup {Unknown}
  BY DEF LogInv, LogTypes
<1>. HIDE DEF yes
<1>3. /\ DOMAIN toolCalls' = DOMAIN toolCalls
      /\ \A c \in DOMAIN toolCalls' : toolCalls'[c].tool \in Tools \cup {Unknown}
  BY <1>1, <1>2
<1>4. r \in Request /\ r.at = Len(arrived) /\ r.final = Unknown
  <2>1. tool \in Tools \cup {Unknown}
    BY <1>2
  <2>2. \A d : SelectOption(d, offered) \in {"allow_once", "reject_once", "cancelled"}
    BY DEF SelectOption
  <2>. HIDE DEF tool
  <2>. QED  BY <2>1, <2>2, <1>2 DEF Request
<1>. HIDE DEF r
<1>5. /\ permissionLog' \in Seq(Request) /\ Len(permissionLog') = Len(permissionLog) + 1
      /\ DOMAIN permissionLog' = DOMAIN permissionLog \cup {Len(permissionLog')}
      /\ \A p \in DOMAIN permissionLog : permissionLog'[p] = permissionLog[p]
      /\ permissionLog'[Len(permissionLog')] = r
      /\ DOMAIN permissionLog = 1..Len(permissionLog) /\ Len(permissionLog) \in Nat
  BY <1>1, <1>2, <1>4
<1>6. ASSUME NEW p \in DOMAIN permissionLog
      PROVE  Ended(arrived, permissionLog'[p], Place(permissionLog', p))
  <2>1. \A q \in 1..(p - 1) : q \in DOMAIN permissionLog
    BY <1>5
  <2>2. Place(permissionLog', p) = Place(permissionLog, p)
    BY <2>1, <1>5 DEF Place
  <2>. QED  BY <2>2, <1>5 DEF LogInv, AllEnded
<1>7. \A first : Ended(arrived, r, first)
  <2>1. ToldAfter(arrived, r) = {}
    BY <1>2, <1>4 DEF ToldAfter
  <2>. QED  BY <2>1, <1>4 DEF Ended
<1>8. AllEnded'
  BY <1>1, <1>5, <1>6, <1>7 DEF AllEnded
<1>9. CallsKnown'
  BY <1>1, <1>3 DEF LogInv, CallsKnown
<1>10. \A p \in DOMAIN permissionLog' : permissionLog'[p].at <= Len(arrived)
  BY <1>2, <1>4, <1>5
<1>11. LogTypes'
  BY <1>1, <1>3, <1>5, <1>10 DEF LogInv, LogTypes
<1>12. \A k : Fate(k)' = Fate(k)
  BY <1>1 DEF Fate
<1>13. AllWhole' /\ InOrder(printed', arrived')
  BY <1>1, <1>12 DEF LogInv, AllWhole
<1>. QED  BY <1>8, <1>9, <1>11, <1>13 DEF LogInv

LEMMA LogStart == LogInit => LogInv
<1>. SUFFICES ASSUME LogInit PROVE LogInv
  OBVIOUS
<1>1. LogTypes
  BY DEF LogInit, LogTypes
<1>2. CallsKnown /\ AllEnded
  BY DEF LogInit, CallsKnown, Announces, AllEnded
<1>3. AllWhole /\ InOrder(printed, arrived)
  BY DEF LogInit, AllWhole, InOrder
<1>. QED  BY <1>1, <1>2, <1>3 DEF LogInv

LEMMA LogStep == LogInv /\ [LogNext]_logVars => LogInv'
<1>. SUFFICES ASSUME LogInv, [LogNext]_logVars PROVE LogInv'
  OBVIOUS
<1>1. CASE \E u \in Inputs : SessionUpdate(u)
  <2>1. PICK u \in Inputs : SessionUpdate(u)
    BY <1>1
  <2>2. u \in Update
    BY InputsAssumption
  <2>. QED  BY <2>1, <2>2, SessionUpdateStep
<1>2. CASE \E n \in DOMAIN writing : ImageWritten(n) \/ ImageFails(n)
  BY <1>2, ImageWrittenStep, ImageFailsStep
<1>3. CASE \E call \in Calls, offered \in {{"allow_once", "reject_once"}, {"allow_always"}} :
               RequestPermission(call, offered)
  BY <1>3, RequestPermissionStep
<1>4. CASE UNCHANGED logVars
  <2>1. \A k : Fate(k)' = Fate(k)
    BY <1>4 DEF Fate, logVars
  <2>2. LogTypes' /\ CallsKnown' /\ AllEnded'
    BY <1>4 DEF LogInv, LogTypes, CallsKnown, AllEnded, logVars
  <2>3. AllWhole' /\ InOrder(printed', arrived')
    BY <1>4, <2>1 DEF LogInv, AllWhole, logVars
  <2>. QED  BY <2>2, <2>3 DEF LogInv
<1>. QED  BY <1>1, <1>2, <1>3, <1>4 DEF LogNext

(* Though handlers of updates overlap, the printed log loses and repeats   *)
(* none: an update is printed once, after its images, or waits for them,   *)
(* or failed over one; updates without images keep the connection's order  *)
(* (run.ts:291-309).                                                       *)
THEOREM LogsAreComplete == LogSpec => []LogIsComplete
<1>1. LogInv => LogIsComplete
  BY WholeLog DEF LogInv
<1>. QED  BY <1>1, LogStart, LogStep, PTL DEF LogSpec

(* The first permission request of a call ends with the last status told   *)
(* of the call after it, every later one with none, however updates of     *)
(* other calls and announcements come between (run.ts:265-271, :97).       *)
THEOREM FinalStatusesAreTheLast == LogSpec => []FinalStatusIsTheLast
<1>1. LogInv => FinalStatusIsTheLast
  BY EndedAsTold DEF LogInv
<1>. QED  BY <1>1, LogStart, LogStep, PTL DEF LogSpec
=============================================================================
