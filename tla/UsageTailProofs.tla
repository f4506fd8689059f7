--------------------------- MODULE UsageTailProofs ---------------------------
(***************************************************************************)
(* UsageTail for every set of messages and counts and every length of      *)
(* transcript: nothing this run spent goes unreported once the last look   *)
(* is done, identical rewrites stay silent, and only lines of messages     *)
(* that grew are reported twice or for an earlier run.                     *)
(***************************************************************************)
EXTENDS UsageTail, SequenceTheorems, TLAPS

(* The memory is what the first n lines, read in order, leave in it: for   *)
(* each message that occurs in them, the counts of its last line.          *)
UpToDate(n) ==
    \A i \in 1..n : IsUsage(i) =>
        \E j \in 1..n : /\ IsUsage(j)
                        /\ transcript[j].id = transcript[i].id
                        /\ seen[transcript[i].id] = transcript[j].tokens
                        /\ \A k \in 1..n : IsUsage(k) /\ transcript[k].id = transcript[i].id
                                              => k <= j

(* A message that is remembered had its first line recorded as an earlier  *)
(* run's or reported.                                                      *)
FirstAccounted ==
    \A i \in Lines :
        IsUsage(i) /\ Earlier(i) = {} /\ seen[transcript[i].id] # Unseen
            => i <= seeded \/ i \in reported

(* Whatever is remembered was read off some line.                         *)
RememberedIsWritten ==
    \A m \in Messages : seen[m] # Unseen =>
        \E j \in Lines : IsUsage(j) /\ transcript[j].id = m

(* What the memory knows in each phase.                                    *)
MemoryFits ==
    /\ phase = "seed read" => \A m \in Messages : seen[m] = Unseen
    /\ phase = "seeding" => UpToDate(cursor) /\ cursor <= upTo /\ upTo = seeded
    /\ phase = "live" => UpToDate(tailed)
    /\ phase = "reconciling" => UpToDate(cursor) /\ cursor <= upTo
    /\ phase \notin {"seed read", "failed"} => FirstAccounted

(* The reconcile has left nothing new behind it.                           *)
ReconciledSoFar ==
    phase = "reconciling" => \A i \in (seeded + 1)..cursor : News(i) => i \in reported

Silence == phase \in {"seed read", "seeding"} => reported = {} /\ tailed = 0

(* The inductive invariant behind completeness.                            *)
IInv == /\ TypeOK
        /\ RememberedIsWritten
        /\ MemoryFits
        /\ ReconciledSoFar
        /\ Silence
        /\ CompleteAtTheEnd
        /\ RewritesAreSilent

-----------------------------------------------------------------------------
(* Lines are never rewritten in place, so what a line says about those     *)
(* before it does not change when the CLI appends.                         *)
LEMMA AppendKeepsLines ==
    ASSUME TypeOK, NEW line \in UsageLine \cup {Other}, CliWrites(line)
    PROVE  /\ transcript' \in Seq(UsageLine \cup {Other})
           /\ Len(transcript) \in Nat
           /\ Len(transcript') = Len(transcript) + 1
           /\ \A i \in Lines : /\ transcript'[i] = transcript[i]
                               /\ IsUsage(i)' <=> IsUsage(i)
                               /\ Earlier(i)' = Earlier(i)
                               /\ News(i)' <=> News(i)
<1>1. /\ transcript' \in Seq(UsageLine \cup {Other})
      /\ Len(transcript) \in Nat
      /\ Len(transcript') = Len(transcript) + 1
      /\ \A i \in Lines : transcript'[i] = transcript[i]
  BY AppendProperties DEF TypeOK, CliWrites, Lines
<1>2. \A i \in Lines : IsUsage(i)' <=> IsUsage(i)
  BY <1>1 DEF IsUsage
<1>3. \A i \in Lines : 1..(i - 1) \subseteq Lines
  BY <1>1 DEF Lines
<1>4. \A i \in Lines : Earlier(i)' = Earlier(i)
  BY <1>1, <1>2, <1>3 DEF Earlier
<1>5. ASSUME NEW i \in Lines PROVE News(i)' <=> News(i)
  <2>1. \A j \in Earlier(i) : transcript'[j] = transcript[j]
    BY <1>1, <1>3 DEF Earlier
  <2>2. QED
    BY <1>1, <1>2, <1>4, <2>1 DEF News
<1>6. QED
  BY <1>1, <1>2, <1>4, <1>5

(* What accept() does to the memory keeps it up to date, line by line.     *)
LEMMA RememberKeepsUpToDate ==
    ASSUME TypeOK, NEW n \in Nat, n + 1 \in Lines, UpToDate(n),
           Remember(n + 1), UNCHANGED transcript
    PROVE  UpToDate(n + 1)'
<1> DEFINE new == transcript[n + 1]
<1> USE DEF IsUsage
<1>1. CASE ~IsUsage(n + 1)
  <2>1. seen' = seen
    BY <1>1 DEF Remember, Accepts
  <2>2. \A i \in 1..(n + 1) : IsUsage(i) => i \in 1..n
    BY <1>1
  <2>3. QED
    BY <2>1, <2>2 DEF UpToDate
<1>2. CASE IsUsage(n + 1)
  <2>1. new \in UsageLine
    BY <1>2, ElementOfSeq DEF TypeOK, Lines
  <2>2. new.id \in Messages /\ seen'[new.id] = new.tokens
    BY <1>2, <2>1 DEF Remember, Accepts, TypeOK, UsageLine
  <2>3. \A m : m # new.id => seen'[m] = seen[m]
    BY <2>2 DEF Remember, TypeOK
  <2> SUFFICES ASSUME NEW i \in 1..(n + 1), IsUsage(i)
               PROVE  \E j \in 1..(n + 1) :
                          /\ IsUsage(j)
                          /\ transcript[j].id = transcript[i].id
                          /\ seen'[transcript[i].id] = transcript[j].tokens
                          /\ \A k \in 1..(n + 1) :
                                IsUsage(k) /\ transcript[k].id = transcript[i].id => k <= j
    BY DEF UpToDate
  <2>4. CASE transcript[i].id = new.id
    BY <1>2, <2>2, <2>4
  <2>5. CASE transcript[i].id # new.id
    <3>1. i \in 1..n
      BY <2>5
    <3>2. PICK j \in 1..n : /\ IsUsage(j)
                            /\ transcript[j].id = transcript[i].id
                            /\ seen[transcript[i].id] = transcript[j].tokens
                            /\ \A k \in 1..n :
                                  IsUsage(k) /\ transcript[k].id = transcript[i].id => k <= j
      BY <3>1 DEF UpToDate
    <3>3. seen'[transcript[i].id] = seen[transcript[i].id]
      BY <2>3, <2>5
    <3>4. \A k \in 1..(n + 1) : IsUsage(k) /\ transcript[k].id = transcript[i].id => k <= j
      BY <2>5, <3>2
    <3>5. QED
      BY <3>2, <3>3, <3>4
  <2>6. QED
    BY <2>4, <2>5
<1>3. QED
  BY <1>1, <1>2

(* A line is accepted only when it is news, and a line that is news and    *)
(* not its message's first is always accepted, when those before it were   *)
(* taken in just before.                                                   *)
LEMMA AcceptsNews ==
    ASSUME TypeOK, NEW n \in Nat, n + 1 \in Lines, UpToDate(n)
    PROVE  /\ Accepts(n + 1) => News(n + 1)
           /\ News(n + 1) /\ Earlier(n + 1) # {} => Accepts(n + 1)
<1> DEFINE i == n + 1
<1>1. Earlier(i) = {j \in 1..n : IsUsage(j) /\ transcript[j].id = transcript[i].id}
  BY DEF Earlier
<1>2. ASSUME NEW j0 \in Earlier(i)
      PROVE  \E j \in Earlier(i) : /\ \A k \in Earlier(i) : k <= j
                                   /\ seen[transcript[i].id] = transcript[j].tokens
  BY <1>1, <1>2 DEF UpToDate
<1>3. Accepts(i) => News(i)
  <2> SUFFICES ASSUME Accepts(i),
                      NEW j \in Earlier(i), \A k \in Earlier(i) : k <= j
               PROVE  transcript[j].tokens # transcript[i].tokens
    BY DEF News, Accepts
  <2>1. PICK j1 \in Earlier(i) : /\ \A k \in Earlier(i) : k <= j1
                                 /\ seen[transcript[i].id] = transcript[j1].tokens
    BY <1>2
  <2>2. j1 = j
    BY <1>1, <2>1
  <2>3. QED
    BY <2>1, <2>2 DEF Accepts
<1>4. News(i) /\ Earlier(i) # {} => Accepts(i)
  BY <1>2 DEF News, Accepts
<1>5. QED
  BY <1>3, <1>4

(* Only its first line brings a message into the memory.                   *)
LEMMA RememberFirst ==
    ASSUME TypeOK, NEW n \in Nat, n + 1 \in Lines, UpToDate(n), Remember(n + 1),
           NEW i \in Lines, IsUsage(i), Earlier(i) = {},
           seen[transcript[i].id] = Unseen, seen'[transcript[i].id] # Unseen
    PROVE  i = n + 1 /\ Accepts(n + 1)
<1> DEFINE new == n + 1
<1>1. ASSUME NEW j \in Lines, IsUsage(j)
      PROVE  transcript[j].id \in Messages /\ transcript[j].tokens \in Counts
  <2>1. transcript[j] \in UsageLine
    BY <1>1, ElementOfSeq DEF TypeOK, Lines, IsUsage
  <2>2. QED
    BY <2>1 DEF UsageLine
<1>2. Accepts(new) /\ transcript[new].id = transcript[i].id
  BY <1>1 DEF Remember, TypeOK, Accepts
<1>3. ~(i < new)
  <2> SUFFICES ASSUME i < new PROVE FALSE
    OBVIOUS
  <2>1. i \in 1..n
    BY DEF Lines
  <2>2. PICK j \in 1..n : IsUsage(j) /\ seen[transcript[i].id] = transcript[j].tokens
    BY <2>1 DEF UpToDate
  <2>3. j \in Lines
    BY <2>2, LenProperties DEF Lines, TypeOK
  <2>4. QED
    BY <1>1, <2>2, <2>3, TailAssumption
<1>4. ~(new < i)
  BY <1>2 DEF Earlier, Accepts, Lines
<1>5. QED
  BY <1>2, <1>3, <1>4 DEF Lines

(* What accept() remembers, it read.                                       *)
LEMMA RememberTypes ==
    ASSUME TypeOK, NEW n \in Nat, n + 1 \in Lines, Remember(n + 1),
           RememberedIsWritten, UNCHANGED transcript
    PROVE  /\ seen' \in [Messages -> Counts \cup {Unseen}]
           /\ RememberedIsWritten'
<1> DEFINE new == n + 1
<1>1. transcript[new] \in UsageLine \cup {Other}
  BY ElementOfSeq DEF TypeOK, Lines
<1>2. Accepts(new) => /\ transcript[new].id \in Messages
                      /\ transcript[new].tokens \in Counts
  BY <1>1 DEF Accepts, IsUsage, UsageLine
<1>3. seen' \in [Messages -> Counts \cup {Unseen}]
  BY <1>2 DEF Remember, TypeOK
<1>4. RememberedIsWritten'
  <2> SUFFICES ASSUME NEW m \in Messages, seen'[m] # Unseen
               PROVE  \E j \in Lines : IsUsage(j) /\ transcript[j].id = m
    BY DEF RememberedIsWritten, Lines, IsUsage
  <2>1. CASE Accepts(new) /\ transcript[new].id = m
    BY <2>1 DEF Accepts
  <2>2. CASE ~(Accepts(new) /\ transcript[new].id = m)
    <3>1. seen'[m] = seen[m]
      BY <1>2, <2>2 DEF Remember, TypeOK
    <3>2. QED
      BY <3>1 DEF RememberedIsWritten
  <2>3. QED
    BY <2>1, <2>2
<1>5. QED
  BY <1>3, <1>4

(* The invariant survives a line taken in by the tail or the reconcile.    *)
LEMMA EmitKeepsAccounts ==
    ASSUME TypeOK, NEW n \in Nat, n + 1 \in Lines, UpToDate(n), FirstAccounted,
           RememberedIsWritten, RewritesAreSilent, AcceptAndEmit(n + 1), UNCHANGED <<transcript, seeded>>
    PROVE  /\ reported' \subseteq Lines'
           /\ repeated' \subseteq reported'
           /\ seen' \in [Messages -> Counts \cup {Unseen}]
           /\ RememberedIsWritten'
           /\ UpToDate(n + 1)'
           /\ FirstAccounted'
           /\ RewritesAreSilent'
           /\ reported \subseteq reported'
           /\ News(n + 1) /\ n + 1 > seeded => n + 1 \in reported'
<1> DEFINE new == n + 1
<1>1. UpToDate(n + 1)'
  BY RememberKeepsUpToDate DEF AcceptAndEmit
<1>2. /\ reported' \subseteq Lines' /\ repeated' \subseteq reported'
      /\ reported \subseteq reported'
  BY DEF AcceptAndEmit, TypeOK, Lines
<1>3. IsUsage(new) => /\ transcript[new].id \in Messages
                      /\ transcript[new].tokens \in Counts
  <2>1. transcript[new] \in UsageLine \cup {Other}
    BY ElementOfSeq DEF TypeOK, Lines
  <2>2. QED
    BY <2>1 DEF IsUsage, UsageLine
<1>4. seen' \in [Messages -> Counts \cup {Unseen}] /\ RememberedIsWritten'
  BY RememberTypes DEF AcceptAndEmit
<1>5. \A i : News(i)' <=> News(i)
  BY DEF News, Earlier, IsUsage
<1>6. RewritesAreSilent'
  BY <1>5, AcceptsNews DEF RewritesAreSilent, AcceptAndEmit
<1>7. FirstAccounted'
  <2> SUFFICES ASSUME NEW i \in Lines, IsUsage(i), Earlier(i) = {},
                      seen'[transcript[i].id] # Unseen,
                      ~(i <= seeded)
               PROVE  i \in reported'
    BY DEF FirstAccounted, Lines, IsUsage, Earlier
  <2>1. CASE seen[transcript[i].id] # Unseen
    BY <1>2, <2>1 DEF FirstAccounted
  <2>2. CASE seen[transcript[i].id] = Unseen
    BY <2>2, RememberFirst DEF AcceptAndEmit
  <2>3. QED
    BY <2>1, <2>2
<1>8. ASSUME News(new), new > seeded PROVE new \in reported'
  <2>1. CASE Accepts(new)
    BY <2>1 DEF AcceptAndEmit
  <2>2. CASE ~Accepts(new)
    <3>1. Earlier(new) = {}
      BY <1>8, <2>2, AcceptsNews
    <3>2. seen[transcript[new].id] # Unseen
      BY <1>3, <1>8, <2>2, TailAssumption DEF Accepts, News
    <3>3. new \in reported
      BY <1>8, <3>1, <3>2 DEF FirstAccounted, News, TypeOK, Lines
    <3>4. QED
      BY <1>2, <3>3
  <2>3. QED
    BY <2>1, <2>2
<1>9. QED
  BY <1>1, <1>2, <1>4, <1>6, <1>7, <1>8

(* Moving on without touching the memory or the file changes none of it.   *)
LEMMA SameReading ==
    ASSUME UNCHANGED <<transcript, seen, reported>>
    PROVE  /\ \A n : UpToDate(n)' <=> UpToDate(n)
           /\ \A n : News(n)' <=> News(n)
           /\ RememberedIsWritten' <=> RememberedIsWritten
           /\ RewritesAreSilent' <=> RewritesAreSilent
           /\ seeded' = seeded => (FirstAccounted' <=> FirstAccounted)
           /\ Lines' = Lines
<1>1. \A n : News(n)' <=> News(n)
  BY DEF News, Earlier, IsUsage
<1>2. \A n : UpToDate(n)' <=> UpToDate(n)
  BY DEF UpToDate, IsUsage
<1>3. RememberedIsWritten' <=> RememberedIsWritten
  BY DEF RememberedIsWritten, Lines, IsUsage
<1>4. RewritesAreSilent' <=> RewritesAreSilent
  BY <1>1 DEF RewritesAreSilent
<1>5. seeded' = seeded => (FirstAccounted' <=> FirstAccounted)
  BY DEF FirstAccounted, Lines, IsUsage, Earlier
<1>6. QED
  BY <1>1, <1>2, <1>3, <1>4, <1>5 DEF Lines

(* The counters stay within the file, and the file is a sequence.          *)
LEMMA Counters ==
    ASSUME TypeOK
    PROVE  /\ Len(transcript) \in Nat
           /\ cursor \in 0..Len(transcript) /\ upTo \in 0..Len(transcript)
           /\ seeded \in 0..Len(transcript) /\ tailed \in 0..Len(transcript)
BY LenProperties DEF TypeOK

-----------------------------------------------------------------------------
LEMMA InitIInv == Init => IInv
<1> SUFFICES ASSUME Init PROVE IInv
  OBVIOUS
<1>1. transcript = <<>> /\ Len(transcript) = 0 /\ Lines = {}
  <2>1. transcript = <<>>
    BY DEF Init
  <2>2. Len(transcript) = 0
    BY <2>1, EmptySeq
  <2>3. 1..0 = {}
    OBVIOUS
  <2>4. QED
    BY <2>1, <2>2, <2>3 DEF Lines
<1>2. TypeOK
  <2>1. <<>> \in Seq(UsageLine \cup {Other})
    OBVIOUS
  <2>2. transcript \in Seq(UsageLine \cup {Other})
    BY <1>1, <2>1
  <2>3. seen \in [Messages -> Counts \cup {Unseen}] /\ phase \in Phases
    BY DEF Init, Phases
  <2>4. {cursor, upTo, seeded, tailed} \subseteq 0..Len(transcript)
    <3>1. 0 \in 0..Len(transcript)
      BY <1>1
    <3>2. QED
      BY <3>1, Zenon DEF Init
  <2>5. reported \subseteq Lines /\ repeated \subseteq reported
    BY DEF Init
  <2>6. QED
    BY <2>2, <2>3, <2>4, <2>5 DEF TypeOK
<1>3. RememberedIsWritten /\ MemoryFits
  BY DEF Init, RememberedIsWritten, MemoryFits
<1>4. ReconciledSoFar /\ Silence /\ CompleteAtTheEnd /\ RewritesAreSilent
  BY DEF Init, ReconciledSoFar, Silence, CompleteAtTheEnd, RewritesAreSilent
<1>5. QED
  BY <1>2, <1>3, <1>4 DEF IInv

LEMMA WriteKeepsIInv ==
    ASSUME IInv, NEW line \in UsageLine \cup {Other}, CliWrites(line)
    PROVE  IInv'
<1>0. TypeOK
  BY DEF IInv
<1>1. /\ transcript' \in Seq(UsageLine \cup {Other})
      /\ Len(transcript) \in Nat
      /\ Len(transcript') = Len(transcript) + 1
      /\ \A i \in Lines : /\ transcript'[i] = transcript[i]
                          /\ IsUsage(i)' <=> IsUsage(i)
                          /\ Earlier(i)' = Earlier(i)
                          /\ News(i)' <=> News(i)
  BY <1>0, AppendKeepsLines
<1>2. Lines = 1..Len(transcript) /\ Lines' = 1..(Len(transcript) + 1)
  BY <1>1 DEF Lines
<1>3. /\ cursor \in 0..Len(transcript) /\ upTo \in 0..Len(transcript)
      /\ seeded \in 0..Len(transcript) /\ tailed \in 0..Len(transcript)
  BY <1>0, Counters
<1>4. UNCHANGED <<seen, phase, cursor, upTo, seeded, tailed, reported, repeated>>
  BY DEF CliWrites
<1>5. TypeOK'
  BY <1>0, <1>1, <1>2, <1>3, <1>4 DEF TypeOK
<1>6. \A n \in 0..Len(transcript) : UpToDate(n)' <=> UpToDate(n)
  <2>1. \A n \in 0..Len(transcript) : \A i \in 1..n : i \in Lines
    BY <1>1, <1>2
  <2> SUFFICES ASSUME NEW n \in 0..Len(transcript)
               PROVE  UpToDate(n)' <=> UpToDate(n)
    OBVIOUS
  <2>2. \A i \in 1..n : /\ transcript'[i] = transcript[i]
                        /\ IsUsage(i)' <=> IsUsage(i)
    BY <1>1, <2>1
  <2>3. ASSUME UpToDate(n) PROVE UpToDate(n)'
    BY <1>4, <2>2, <2>3 DEF UpToDate
  <2>4. ASSUME UpToDate(n)' PROVE UpToDate(n)
    BY <1>4, <2>2, <2>4 DEF UpToDate
  <2>5. QED
    BY <2>3, <2>4
<1>7. RememberedIsWritten'
  <2>1. Lines \subseteq Lines'
    BY <1>1, <1>2
  <2>2. QED
    BY <1>1, <1>4, <2>1 DEF IInv, RememberedIsWritten
<1>8. FirstAccounted => FirstAccounted'
  <2> SUFFICES ASSUME FirstAccounted, NEW i \in Lines', IsUsage(i)', Earlier(i)' = {},
                      seen[transcript'[i].id] # Unseen
               PROVE  i <= seeded \/ i \in reported
    BY <1>4 DEF FirstAccounted
  <2>1. CASE i \in Lines
    BY <1>1, <2>1 DEF FirstAccounted
  <2>2. CASE i \notin Lines
    <3>1. transcript'[i] \in UsageLine
      BY <1>1, <1>2, ElementOfSeq DEF IsUsage
    <3>2. transcript'[i].id \in Messages
      BY <3>1 DEF UsageLine
    <3>3. PICK j \in Lines : IsUsage(j) /\ transcript[j].id = transcript'[i].id
      BY <3>2 DEF IInv, RememberedIsWritten
    <3>4. j \in 1..(i - 1)
      BY <1>1, <1>2, <2>2
    <3>5. IsUsage(j)' /\ transcript'[j].id = transcript'[i].id
      BY <1>1, <3>3
    <3>6. QED
      BY <3>4, <3>5 DEF Earlier
  <2>3. QED
    BY <2>1, <2>2
<1>9. MemoryFits'
  BY <1>3, <1>4, <1>6, <1>8 DEF IInv, MemoryFits
<1>10. ReconciledSoFar' /\ CompleteAtTheEnd'
  <2>1. \A i \in (seeded + 1)..cursor : i \in Lines
    BY <1>1, <1>2, <1>3
  <2>2. \A i \in (seeded + 1)..upTo : i \in Lines
    BY <1>1, <1>2, <1>3
  <2>3. QED
    BY <1>1, <1>4, <2>1, <2>2 DEF IInv, ReconciledSoFar, CompleteAtTheEnd
<1>11. RewritesAreSilent' /\ Silence'
  BY <1>0, <1>1, <1>4 DEF IInv, RewritesAreSilent, Silence, TypeOK
<1>12. QED
  BY <1>5, <1>7, <1>9, <1>10, <1>11 DEF IInv

LEMMA SeedLineKeepsIInv ==
    ASSUME IInv, SeedLine
    PROVE  IInv'
<1>0. TypeOK /\ UpToDate(cursor) /\ FirstAccounted /\ upTo = seeded
  BY DEF IInv, MemoryFits, SeedLine
<1>1. cursor \in Nat /\ cursor + 1 \in Lines /\ cursor + 1 <= seeded
  BY <1>0, Counters DEF SeedLine, Lines
<1>2. /\ Remember(cursor + 1) /\ cursor' = cursor + 1
      /\ UNCHANGED <<transcript, phase, upTo, seeded, tailed, reported, repeated>>
  BY DEF SeedLine
<1>3. seen' \in [Messages -> Counts \cup {Unseen}] /\ RememberedIsWritten'
  BY <1>0, <1>1, <1>2, RememberTypes DEF IInv
<1>4. TypeOK'
  BY <1>0, <1>1, <1>2, <1>3 DEF TypeOK, Lines
<1>5. PICK n \in Nat : n = cursor
  BY <1>1
<1>6. UpToDate(cursor)'
  <2>1. UpToDate(n)
    BY <1>0, <1>5 DEF UpToDate
  <2>2. n + 1 \in Lines /\ Remember(n + 1) /\ UNCHANGED transcript
    BY <1>1, <1>2, <1>5
  <2>3. UpToDate(n + 1)'
    BY <1>0, <2>1, <2>2, RememberKeepsUpToDate
  <2>4. QED
    BY <1>2, <1>5, <2>3 DEF UpToDate
<1>7. FirstAccounted'
  <2> SUFFICES ASSUME NEW i \in Lines, IsUsage(i), Earlier(i) = {},
                      seen'[transcript[i].id] # Unseen
               PROVE  i <= seeded \/ i \in reported
    BY <1>2 DEF FirstAccounted, Lines, IsUsage, Earlier
  <2>1. CASE seen[transcript[i].id] # Unseen
    BY <1>0, <2>1 DEF FirstAccounted
  <2>2. CASE seen[transcript[i].id] = Unseen
    <3>1. i = cursor + 1
      BY <1>0, <1>1, <1>2, <1>5, <2>2, RememberFirst
    <3>2. QED
      BY <1>1, <3>1
  <2>3. QED
    BY <2>1, <2>2
<1>8. MemoryFits'
  BY <1>0, <1>1, <1>2, <1>6, <1>7 DEF MemoryFits, SeedLine
<1>9. QED
  BY <1>2, <1>3, <1>4, <1>8
     DEF IInv, SeedLine, ReconciledSoFar, Silence, CompleteAtTheEnd, RewritesAreSilent

LEMMA TailLineKeepsIInv ==
    ASSUME IInv, TailLine
    PROVE  IInv'
<1>0. TypeOK /\ UpToDate(tailed) /\ FirstAccounted
  BY DEF IInv, MemoryFits, TailLine
<1>1. tailed \in Nat /\ tailed + 1 \in Lines
  BY <1>0, Counters DEF TailLine, Lines
<1>2. /\ AcceptAndEmit(tailed + 1) /\ tailed' = tailed + 1
      /\ UNCHANGED <<transcript, phase, cursor, upTo, seeded>>
  BY DEF TailLine
<1>n. PICK n \in Nat : n = tailed
  BY <1>1
<1>3. /\ reported' \subseteq Lines'
      /\ repeated' \subseteq reported'
      /\ seen' \in [Messages -> Counts \cup {Unseen}]
      /\ RememberedIsWritten'
      /\ UpToDate(n + 1)'
      /\ FirstAccounted'
      /\ RewritesAreSilent'
      /\ reported \subseteq reported'
      /\ News(n + 1) /\ n + 1 > seeded => n + 1 \in reported'
  <2>1. UpToDate(n)
    BY <1>0, <1>n DEF UpToDate
  <2>2. n + 1 \in Lines /\ AcceptAndEmit(n + 1) /\ UNCHANGED <<transcript, seeded>>
    BY <1>1, <1>2, <1>n
  <2>3. RememberedIsWritten /\ RewritesAreSilent
    BY DEF IInv
  <2>4. QED
    BY <1>0, <2>1, <2>2, <2>3, EmitKeepsAccounts
<1>4. TypeOK'
  BY <1>0, <1>1, <1>2, <1>3 DEF TypeOK, Lines
<1>5. UpToDate(tailed)'
  BY <1>2, <1>3, <1>n DEF UpToDate
<1>6. MemoryFits'
  BY <1>2, <1>3, <1>5 DEF MemoryFits, TailLine
<1>7. QED
  BY <1>2, <1>3, <1>4, <1>6
     DEF IInv, TailLine, ReconciledSoFar, Silence, CompleteAtTheEnd

LEMMA ReconcileLineKeepsIInv ==
    ASSUME IInv, ReconcileLine
    PROVE  IInv'
<1>0. TypeOK /\ UpToDate(cursor) /\ FirstAccounted
  BY DEF IInv, MemoryFits, ReconcileLine
<1>1. cursor \in Nat /\ cursor + 1 \in Lines /\ cursor + 1 <= upTo /\ seeded \in Nat
  BY <1>0, Counters DEF ReconcileLine, Lines
<1>2. /\ AcceptAndEmit(cursor + 1) /\ cursor' = cursor + 1
      /\ UNCHANGED <<transcript, phase, upTo, seeded, tailed>>
  BY DEF ReconcileLine
<1>n. PICK n \in Nat : n = cursor
  BY <1>1
<1>3. /\ reported' \subseteq Lines'
      /\ repeated' \subseteq reported'
      /\ seen' \in [Messages -> Counts \cup {Unseen}]
      /\ RememberedIsWritten'
      /\ UpToDate(n + 1)'
      /\ FirstAccounted'
      /\ RewritesAreSilent'
      /\ reported \subseteq reported'
      /\ News(n + 1) /\ n + 1 > seeded => n + 1 \in reported'
  <2>1. UpToDate(n)
    BY <1>0, <1>n DEF UpToDate
  <2>2. n + 1 \in Lines /\ AcceptAndEmit(n + 1) /\ UNCHANGED <<transcript, seeded>>
    BY <1>1, <1>2, <1>n
  <2>3. RememberedIsWritten /\ RewritesAreSilent
    BY DEF IInv
  <2>4. QED
    BY <1>0, <2>1, <2>2, <2>3, EmitKeepsAccounts
<1>4. TypeOK'
  BY <1>0, <1>1, <1>2, <1>3 DEF TypeOK, Lines
<1>5. UpToDate(cursor)'
  BY <1>2, <1>3, <1>n DEF UpToDate
<1>6. MemoryFits'
  BY <1>1, <1>2, <1>3, <1>5 DEF MemoryFits, ReconcileLine
<1>7. ReconciledSoFar'
  <2>1. \A i : News(i)' <=> News(i)
    BY <1>2 DEF News, Earlier, IsUsage
  <2>2. ASSUME NEW i \in (seeded + 1)..(cursor + 1), News(i) PROVE i \in reported'
    <3>1. CASE i = cursor + 1
      BY <1>1, <1>3, <1>n, <2>2, <3>1
    <3>2. CASE i # cursor + 1
      <4>1. i \in (seeded + 1)..cursor
        BY <1>1, <3>2
      <4>2. i \in reported
        BY <2>2, <4>1 DEF IInv, ReconciledSoFar, ReconcileLine
      <4>3. QED
        BY <1>3, <4>2
    <3>3. QED
      BY <3>1, <3>2
  <2>3. QED
    BY <1>2, <2>1, <2>2 DEF ReconciledSoFar
<1>8. QED
  BY <1>2, <1>3, <1>4, <1>6, <1>7 DEF IInv, ReconcileLine, Silence, CompleteAtTheEnd

(* Steps that only move from one phase to the next.                        *)
LEMMA PhaseKeepsIInv ==
    ASSUME IInv,
           \/ SeedRead \/ Attach \/ TailUsageFails \/ Stop
           \/ ReconcileRead \/ ReconcileFails \/ ReconcileDone \/ UNCHANGED vars
    PROVE  IInv'
<1>0. /\ TypeOK
      /\ UNCHANGED <<transcript, seen, tailed, reported, repeated>>
  BY DEF IInv, SeedRead, Attach, TailUsageFails, Stop, ReconcileRead, ReconcileFails,
         ReconcileDone, vars
<1>1. /\ \A n : UpToDate(n)' <=> UpToDate(n)
      /\ \A n : News(n)' <=> News(n)
      /\ RememberedIsWritten' /\ RewritesAreSilent'
      /\ seeded' = seeded => (FirstAccounted' <=> FirstAccounted)
      /\ Lines' = Lines
  BY <1>0, SameReading DEF IInv
<1>2. /\ Len(transcript) \in Nat
      /\ cursor \in 0..Len(transcript) /\ upTo \in 0..Len(transcript)
      /\ seeded \in 0..Len(transcript) /\ tailed \in 0..Len(transcript)
  BY <1>0, Counters
<1>3. UpToDate(0)
  BY DEF UpToDate
<1>4. TypeOK'
  <2>1. /\ cursor' \in 0..Len(transcript) /\ upTo' \in 0..Len(transcript)
        /\ seeded' \in 0..Len(transcript) /\ tailed' \in 0..Len(transcript)
    <3>0. 0 \in 0..Len(transcript) /\ Len(transcript) \in 0..Len(transcript)
      BY <1>2
    <3>1. CASE SeedRead
      BY <1>2, <3>0, <3>1 DEF SeedRead
    <3>2. CASE ReconcileRead
      BY <1>2, <3>0, <3>2 DEF ReconcileRead
    <3>3. CASE UNCHANGED <<cursor, upTo, seeded, tailed>>
      BY <1>2, <3>3
    <3>4. QED
      BY <3>1, <3>2, <3>3 DEF Attach, TailUsageFails, Stop, ReconcileFails, ReconcileDone, vars
  <2>2. phase' \in Phases
    BY <1>0 DEF TypeOK, Phases, SeedRead, Attach, TailUsageFails, Stop, ReconcileRead,
                ReconcileFails, ReconcileDone, vars
  <2>3. QED
    BY <1>0, <1>1, <2>1, <2>2 DEF TypeOK
<1>5. ASSUME SeedRead PROVE UpToDate(cursor)' /\ cursor' <= upTo' /\ upTo' = seeded'
  <2>1. cursor' = 0 /\ upTo' = Len(transcript) /\ seeded' = Len(transcript)
    BY <1>5 DEF SeedRead
  <2>2. 1..cursor' = {}
    BY <2>1
  <2>3. UpToDate(cursor)'
    BY <2>2, Zenon DEF UpToDate
  <2>4. QED
    BY <1>2, <2>1, <2>3
<1>6. MemoryFits' /\ ReconciledSoFar' /\ Silence' /\ CompleteAtTheEnd'
  <2> USE DEF IInv, MemoryFits, ReconciledSoFar, Silence, CompleteAtTheEnd
  <2>1. CASE SeedRead
    <3>1. \A i \in Lines : IsUsage(i) => transcript[i].id \in Messages
      <4>1. \A i \in Lines : transcript[i] \in UsageLine \cup {Other}
        BY <1>0, ElementOfSeq DEF TypeOK, Lines
      <4>2. QED
        BY <4>1 DEF IsUsage, UsageLine
    <3>2. FirstAccounted'
      BY <1>0, <1>1, <2>1, <3>1 DEF SeedRead, FirstAccounted, IsUsage
    <3>3. UpToDate(cursor)' /\ cursor' <= upTo' /\ upTo' = seeded'
      BY <1>5, <2>1
    <3>5. phase = "seed read" /\ phase' = "seeding"
      BY <2>1 DEF SeedRead
    <3>6. reported' = {} /\ tailed' = 0
      BY <1>0, <2>1 DEF SeedRead
    <3>7. QED
      BY <3>2, <3>3, <3>5, <3>6
  <2>2. CASE Attach
    BY <1>0, <1>1, <1>3, <2>2 DEF Attach
  <2>3. CASE TailUsageFails \/ Stop \/ ReconcileFails
    BY <1>0, <1>1, <2>3 DEF TailUsageFails, Stop, ReconcileFails
  <2>4. CASE ReconcileRead
    BY <1>0, <1>1, <1>2, <1>3, <2>4 DEF ReconcileRead
  <2>5. CASE ReconcileDone
    BY <1>0, <1>1, <2>5 DEF ReconcileDone
  <2>6. CASE UNCHANGED vars
    BY <1>0, <1>1, <2>6 DEF vars
  <2>7. QED
    BY <2>1, <2>2, <2>3, <2>4, <2>5, <2>6
<1>7. QED
  BY <1>1, <1>4, <1>6 DEF IInv

LEMMA NextIInv == IInv /\ [Next]_vars => IInv'
BY WriteKeepsIInv, SeedLineKeepsIInv, TailLineKeepsIInv, ReconcileLineKeepsIInv,
   PhaseKeepsIInv, Zenon DEF Next, Following

(* Every reachable state satisfies the inductive invariant.                *)
THEOREM TailInvariant == Spec => []IInv
BY InitIInv, NextIInv, PTL DEF Spec

(* Every usage line of the run is reported by the time the last look is    *)
(* done (usage.ts:17-22), for every interleaving of writer and reader.     *)
THEOREM UsageComplete == Spec => []CompleteAtTheEnd
<1>1. IInv => CompleteAtTheEnd
  BY DEF IInv
<1>2. QED
  BY <1>1, TailInvariant, PTL

(* A line identical to its message's line before it is never reported.     *)
THEOREM UsageRewrites == Spec => []RewritesAreSilent
<1>1. IInv => RewritesAreSilent
  BY DEF IInv
<1>2. QED
  BY <1>1, TailInvariant, PTL

(* The counters stay inside the file, the memory and the reports well-formed. *)
THEOREM TailTypes == Spec => []TypeOK
<1>1. IInv => TypeOK
  BY DEF IInv
<1>2. QED
  BY <1>1, TailInvariant, PTL

-----------------------------------------------------------------------------
(* Every usage line among the first n is of a message that is remembered.  *)
Known(n) == \A i \in 1..n : IsUsage(i) => seen[transcript[i].id] # Unseen

(* The counts that are remembered of a message are counts it was written   *)
(* with.                                                                   *)
CountsAreWritten ==
    \A m \in Messages : seen[m] # Unseen =>
        \E j \in Lines : /\ IsUsage(j)
                         /\ transcript[j].id = m
                         /\ transcript[j].tokens = seen[m]

(* What was read as an earlier run's, and what was reported, is known, so  *)
(* that only other counts can make it news again.                          *)
ReplayInv ==
    /\ phase = "seeding" => Known(cursor)
    /\ phase \notin {"seed read", "seeding", "failed"} => Known(seeded)
    /\ \A i \in reported : IsUsage(i) /\ seen[transcript[i].id] # Unseen
    /\ CountsAreWritten
    /\ OnlyGrowthRepeats

(* The memory forgets no message, and a line is accepted only when its     *)
(* message is unknown or grew.                                             *)
LEMMA MemoryLasts ==
    ASSUME TypeOK, CountsAreWritten,
           NEW n \in Lines, Remember(n), UNCHANGED transcript
    PROVE  /\ Accepts(n) => seen[transcript[n].id] = Unseen \/ Grown(n)
           /\ IsUsage(n) => seen'[transcript[n].id] # Unseen
           /\ \A i \in Lines : IsUsage(i) /\ seen[transcript[i].id] # Unseen
                                => seen'[transcript[i].id] # Unseen
           /\ CountsAreWritten'
<1>1. \A i \in Lines : IsUsage(i) => /\ transcript[i].id \in Messages
                                     /\ transcript[i].tokens \in Counts
  <2>1. \A i \in Lines : transcript[i] \in UsageLine \cup {Other}
    BY ElementOfSeq DEF TypeOK, Lines
  <2>2. QED
    BY <2>1 DEF IsUsage, UsageLine
<1>2. seen \in [Messages -> Counts \cup {Unseen}] /\ Unseen \notin Counts
  BY TailAssumption DEF TypeOK
<1>3. Accepts(n) => seen[transcript[n].id] = Unseen \/ Grown(n)
  BY <1>1 DEF Accepts, CountsAreWritten, Grown
<1>4. CASE Accepts(n)
  <2>1. IsUsage(n) /\ seen' = [seen EXCEPT ![transcript[n].id] = transcript[n].tokens]
    BY <1>4 DEF Remember, Accepts
  <2>2. CountsAreWritten'
    <3> SUFFICES ASSUME NEW m \in Messages, seen'[m] # Unseen
                 PROVE  \E j \in Lines : /\ IsUsage(j)
                                         /\ transcript[j].id = m
                                         /\ transcript[j].tokens = seen'[m]
      BY DEF CountsAreWritten, Lines, IsUsage
    <3>1. CASE m = transcript[n].id
      BY <1>2, <2>1, <3>1
    <3>2. CASE m # transcript[n].id
      <4>1. seen'[m] = seen[m]
        BY <1>2, <2>1, <3>2
      <4>2. QED
        BY <4>1 DEF CountsAreWritten
    <3>3. QED
      BY <3>1, <3>2
  <2>3. QED
    BY <1>1, <1>2, <1>3, <2>1, <2>2
<1>5. CASE ~Accepts(n)
  <2>1. seen' = seen
    BY <1>5 DEF Remember
  <2>2. IsUsage(n) => seen[transcript[n].id] # Unseen
    BY <1>1, <1>2, <1>5 DEF Accepts
  <2>3. CountsAreWritten'
    BY <2>1 DEF CountsAreWritten, Lines, IsUsage
  <2>4. QED
    BY <1>3, <2>1, <2>2, <2>3
<1>6. QED
  BY <1>4, <1>5

(* A line taken in by the tail or the reconcile keeps all of it.           *)
LEMMA EmitKeepsReplay ==
    ASSUME TypeOK, ReplayInv, Known(seeded), NEW n \in Lines, AcceptAndEmit(n),
           UNCHANGED <<transcript, seeded>>
    PROVE  /\ Known(seeded)'
           /\ \A i \in reported' : IsUsage(i)' /\ seen'[transcript'[i].id] # Unseen
           /\ CountsAreWritten'
           /\ OnlyGrowthRepeats'
<1>1. /\ Accepts(n) => (seen[transcript[n].id] = Unseen \/ Grown(n)) /\ IsUsage(n)
      /\ IsUsage(n) => seen'[transcript[n].id] # Unseen
      /\ \A i \in Lines : IsUsage(i) /\ seen[transcript[i].id] # Unseen
                           => seen'[transcript[i].id] # Unseen
      /\ CountsAreWritten'
  BY MemoryLasts DEF AcceptAndEmit, Accepts, ReplayInv
<1>2. \A i : (IsUsage(i)' <=> IsUsage(i)) /\ (Grown(i)' <=> Grown(i))
  BY DEF IsUsage, Grown, Lines
<1>3. /\ seeded \in 0..Len(transcript) /\ reported \subseteq Lines /\ n \in Nat
      /\ \A i \in 1..seeded : i \in Lines
  BY Counters DEF TypeOK, Lines
<1>4. Known(seeded)'
  <2>1. \A i \in 1..seeded : IsUsage(i) => seen'[transcript[i].id] # Unseen
    BY <1>1, <1>3 DEF Known
  <2>2. QED
    BY <1>2, <2>1 DEF Known
<1>5. Accepts(n) /\ ~Grown(n) => n \notin reported /\ ~(n <= seeded)
  <2>1. Accepts(n) /\ ~Grown(n) => n \notin 1..seeded
    BY <1>1 DEF Known
  <2>2. Accepts(n) /\ ~Grown(n) => n \notin reported
    BY <1>1 DEF ReplayInv
  <2>3. n \in 1..Len(transcript) /\ Len(transcript) \in Nat
    BY Counters DEF Lines
  <2>4. QED
    BY <1>3, <2>1, <2>2, <2>3
<1>6. OnlyGrowthRepeats'
  <2> SUFFICES ASSUME NEW i \in repeated' \cup {j \in reported' : j <= seeded}
               PROVE  Grown(i)
    BY <1>2 DEF OnlyGrowthRepeats
  <2>1. CASE i \in repeated \cup {j \in reported : j <= seeded}
    BY <2>1 DEF ReplayInv, OnlyGrowthRepeats
  <2>2. CASE i \notin repeated \cup {j \in reported : j <= seeded}
    <3>1. i = n /\ Accepts(n) /\ (n \in reported \/ n <= seeded)
      BY <2>2 DEF AcceptAndEmit
    <3>2. QED
      BY <1>5, <3>1
  <2>3. QED
    BY <2>1, <2>2
<1>7. ASSUME NEW i \in reported' PROVE IsUsage(i)' /\ seen'[transcript'[i].id] # Unseen
  <2>1. CASE i \in reported
    BY <1>1, <1>2, <1>3, <2>1 DEF ReplayInv
  <2>2. CASE i \notin reported
    <3>1. Accepts(n) /\ i = n
      BY <1>7, <2>2 DEF AcceptAndEmit
    <3>2. QED
      BY <1>1, <1>2, <3>1
  <2>3. QED
    BY <2>1, <2>2
<1>8. QED
  BY <1>1, <1>4, <1>6, <1>7

(* Nothing changes for a step that leaves file, memory and reports alone.  *)
LEMMA SameReplay ==
    ASSUME UNCHANGED <<transcript, seen>>
    PROVE  /\ \A n : Known(n)' <=> Known(n)
           /\ CountsAreWritten' <=> CountsAreWritten
           /\ \A i : (Grown(i)' <=> Grown(i)) /\ (IsUsage(i)' <=> IsUsage(i))
<1>1. \A n : Known(n)' <=> Known(n)
  BY DEF Known, IsUsage
<1>2. CountsAreWritten' <=> CountsAreWritten
  BY DEF CountsAreWritten, Lines, IsUsage
<1>3. \A i : (Grown(i)' <=> Grown(i)) /\ (IsUsage(i)' <=> IsUsage(i))
  BY DEF Grown, Lines, IsUsage
<1>4. QED
  BY <1>1, <1>2, <1>3

LEMMA ReplayNext ==
    ASSUME IInv, ReplayInv, [Next]_vars
    PROVE  ReplayInv'
<1>0. TypeOK /\ Silence /\ MemoryFits
  BY DEF IInv
<1>1. /\ Len(transcript) \in Nat
      /\ cursor \in 0..Len(transcript) /\ upTo \in 0..Len(transcript)
      /\ seeded \in 0..Len(transcript) /\ tailed \in 0..Len(transcript)
  BY <1>0, Counters
<1>2. CASE \E line \in UsageLine \cup {Other} : CliWrites(line)
  <2>1. PICK line \in UsageLine \cup {Other} : CliWrites(line)
    BY <1>2
  <2>2. /\ \A i \in Lines : transcript'[i] = transcript[i] /\ (IsUsage(i)' <=> IsUsage(i))
        /\ Len(transcript') = Len(transcript) + 1
    BY <1>0, <2>1, AppendKeepsLines
  <2>3. UNCHANGED <<seen, phase, cursor, seeded, reported, repeated>>
    BY <2>1 DEF CliWrites
  <2>4. /\ \A i \in 1..cursor : i \in Lines
        /\ \A i \in 1..seeded : i \in Lines
        /\ \A i \in reported : i \in Lines
        /\ repeated \subseteq reported
        /\ Lines \subseteq Lines'
    BY <1>0, <1>1, <2>2 DEF Lines, TypeOK
  <2>5. (Known(cursor) => Known(cursor)') /\ (Known(seeded) => Known(seeded)')
    BY <2>2, <2>3, <2>4 DEF Known
  <2>6. CountsAreWritten'
    <3>1. ASSUME NEW m \in Messages, seen[m] # Unseen
          PROVE  \E j \in Lines' : /\ IsUsage(j)' /\ transcript'[j].id = m
                                   /\ transcript'[j].tokens = seen[m]
      <4>1. PICK j \in Lines : /\ IsUsage(j) /\ transcript[j].id = m
                               /\ transcript[j].tokens = seen[m]
        BY <3>1 DEF ReplayInv, CountsAreWritten
      <4>2. j \in Lines' /\ IsUsage(j)' /\ transcript'[j] = transcript[j]
        BY <2>2, <2>4, <4>1
      <4>3. QED
        BY <4>1, <4>2
    <3>2. QED
      BY <2>3, <3>1 DEF CountsAreWritten
  <2>7. \A i \in reported' : IsUsage(i)' /\ seen'[transcript'[i].id] # Unseen
    BY <2>2, <2>3, <2>4 DEF ReplayInv
  <2>8. OnlyGrowthRepeats'
    <3>1. \A i \in Lines : Grown(i) => Grown(i)'
      BY <2>2, <2>4 DEF Grown
    <3>2. QED
      BY <2>3, <2>4, <3>1 DEF ReplayInv, OnlyGrowthRepeats
  <2>9. QED
    BY <2>3, <2>5, <2>6, <2>7, <2>8 DEF ReplayInv
<1>3. CASE SeedLine
  <2>1. /\ phase = "seeding" /\ Known(cursor) /\ reported = {} /\ repeated = {}
        /\ Remember(cursor + 1) /\ cursor' = cursor + 1 /\ cursor + 1 \in Lines
        /\ CountsAreWritten
        /\ UNCHANGED <<transcript, phase, seeded, reported, repeated>>
    BY <1>0, <1>1, <1>3 DEF SeedLine, ReplayInv, Silence, Lines, TypeOK
  <2>2. PICK n \in Lines : n = cursor + 1
    BY <2>1
  <2>3. /\ IsUsage(n) => seen'[transcript[n].id] # Unseen
        /\ \A i \in Lines : IsUsage(i) /\ seen[transcript[i].id] # Unseen
                             => seen'[transcript[i].id] # Unseen
        /\ CountsAreWritten'
    BY <1>0, <2>1, <2>2, MemoryLasts
  <2>4. ASSUME NEW i \in 1..(cursor + 1), IsUsage(i) PROVE seen'[transcript[i].id] # Unseen
    <3>1. i \in Lines /\ (i = n \/ i \in 1..cursor)
      BY <1>1, <2>1, <2>2 DEF Lines
    <3>2. QED
      BY <2>1, <2>3, <2>4, <3>1 DEF Known
  <2>5. Known(cursor)'
    BY <2>1, <2>4 DEF Known, IsUsage
  <2>6. QED
    BY <2>1, <2>3, <2>5 DEF ReplayInv, OnlyGrowthRepeats
<1>4. CASE TailLine \/ ReconcileLine
  <2>1. PICK n \in Lines : AcceptAndEmit(n)
    <3>1. CASE TailLine
      <4>1. tailed + 1 \in Lines /\ AcceptAndEmit(tailed + 1)
        BY <1>1, <3>1 DEF TailLine, Lines
      <4>2. QED
        BY <4>1
    <3>2. CASE ReconcileLine
      <4>1. cursor + 1 \in Lines /\ AcceptAndEmit(cursor + 1)
        BY <1>1, <3>2 DEF ReconcileLine, Lines
      <4>2. QED
        BY <4>1
    <3>3. QED
      BY <1>4, <3>1, <3>2
  <2>2. /\ phase \in {"live", "reconciling"} /\ Known(seeded)
        /\ UNCHANGED <<transcript, seeded, phase>>
    BY <1>4 DEF TailLine, ReconcileLine, ReplayInv
  <2>3. /\ Known(seeded)' /\ CountsAreWritten' /\ OnlyGrowthRepeats'
        /\ \A i \in reported' : IsUsage(i)' /\ seen'[transcript'[i].id] # Unseen
    BY <1>0, <2>1, <2>2, EmitKeepsReplay
  <2>4. QED
    BY <2>2, <2>3 DEF ReplayInv
<1>5. CASE SeedRead
  <2>1. /\ phase' = "seeding" /\ cursor' = 0 /\ reported' = {} /\ repeated' = {}
        /\ UNCHANGED <<transcript, seen>>
    BY <1>0, <1>5 DEF SeedRead, Silence, TypeOK
  <2>2. 1..cursor' = {}
    BY <2>1
  <2>3. Known(cursor)' /\ CountsAreWritten'
    <3>1. Known(cursor)'
      BY <2>2, Zenon DEF Known
    <3>2. CountsAreWritten'
      BY <2>1, SameReplay DEF ReplayInv
    <3>3. QED
      BY <3>1, <3>2
  <2>4. QED
    BY <2>1, <2>3 DEF ReplayInv, OnlyGrowthRepeats
<1>6. CASE \/ Attach \/ TailUsageFails \/ Stop \/ ReconcileRead \/ ReconcileFails
           \/ ReconcileDone \/ UNCHANGED vars
  <2>1. UNCHANGED <<transcript, seen, seeded, reported, repeated>>
    BY <1>6 DEF Attach, TailUsageFails, Stop, ReconcileRead, ReconcileFails, ReconcileDone, vars
  <2>2. /\ \A n : Known(n)' <=> Known(n)
        /\ CountsAreWritten'
        /\ \A i : (Grown(i)' <=> Grown(i)) /\ (IsUsage(i)' <=> IsUsage(i))
    BY <2>1, SameReplay DEF ReplayInv
  <2>3. OnlyGrowthRepeats'
    BY <2>1, <2>2 DEF ReplayInv, OnlyGrowthRepeats
  <2>4. \A i \in reported' : IsUsage(i)' /\ seen'[transcript'[i].id] # Unseen
    BY <2>1, <2>2 DEF ReplayInv
  <2>5. /\ phase' = "seeding" => Known(cursor)'
        /\ phase' \notin {"seed read", "seeding", "failed"} => Known(seeded)'
    <3>1. CASE Attach
      <4>1. phase' = "live" /\ Known(seeded)
        BY <1>0, <3>1 DEF Attach, MemoryFits, ReplayInv
      <4>2. Known(seeded)'
        BY <2>1, <4>1 DEF Known, IsUsage
      <4>3. QED
        BY <4>1, <4>2
    <3>2. CASE TailUsageFails
      BY <3>2 DEF TailUsageFails
    <3>3. CASE Stop \/ ReconcileRead \/ ReconcileFails \/ ReconcileDone
      <4>1. phase' \notin {"seed read", "seeding", "failed"} /\ Known(seeded)
        BY <3>3 DEF Stop, ReconcileRead, ReconcileFails, ReconcileDone, ReplayInv
      <4>2. Known(seeded)'
        BY <2>1, <4>1 DEF Known, IsUsage
      <4>3. QED
        BY <4>1, <4>2
    <3>4. CASE UNCHANGED vars
      <4>1. phase' = phase /\ cursor' = cursor
        BY <3>4 DEF vars
      <4>2. (Known(cursor) => Known(cursor)') /\ (Known(seeded) => Known(seeded)')
        BY <2>1, <4>1 DEF Known, IsUsage
      <4>3. QED
        BY <4>1, <4>2 DEF ReplayInv
    <3>5. QED
      BY <1>6, <3>1, <3>2, <3>3, <3>4
  <2>6. QED
    BY <2>2, <2>3, <2>4, <2>5 DEF ReplayInv
<1>7. QED
  BY <1>2, <1>3, <1>4, <1>5, <1>6, Zenon DEF Next, Following

(* A line is emitted a second time, or emitted although an earlier run     *)
(* wrote it, only when its message grew: what usage.ts:77-78 and usage.ts: *)
(* 86 promise, with the exception the code makes.                          *)
THEOREM UsageReplays == Spec => []OnlyGrowthRepeats
<1>1. Init => ReplayInv
  BY DEF Init, ReplayInv, CountsAreWritten, OnlyGrowthRepeats
<1>2. IInv /\ ReplayInv /\ [Next]_vars => ReplayInv'
  BY ReplayNext
<1>3. ReplayInv => OnlyGrowthRepeats
  BY DEF ReplayInv
<1>4. QED
  BY <1>1, <1>2, <1>3, TailInvariant, PTL DEF Spec
=============================================================================
