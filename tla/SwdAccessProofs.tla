-------------------------- MODULE SwdAccessProofs ---------------------------
(***************************************************************************)
(* Proofs about the debug port accesses over SWD, for any number of ports  *)
(* on the bus and any number of disturbances.                              *)
(***************************************************************************)
EXTENDS SwdAccess, SequenceTheorems, TLAPS

Ports == DPs \cup {Initial}
Decisions == {"new_ap", "cidr", "probed", "release"}
Kinds == Answered \cup Decisions \cup {"reset", "targetsel", "error", "clear"}
Entries == Kinds \X Ports

SessionJobs == {"attach", "mem", "regs", "reset", "detach", "stop",
                "resume", "haltreq", "poll"}
ScanPhases == ScanJobs \cup {"loop", "scanned"}

Jobs == [name : {"idle"} \cup SessionJobs \cup ScanPhases,
         d : Ports \cup {Nobody}, bad : BOOLEAN, late : BOOLEAN,
         err : BOOLEAN, val : {"run", "halt"}]

Chips == [v2 : {TRUE}, dps : SUBSET DPs \ {{}}] \cup [v2 : {FALSE}, dps : {{0}}]

(***************************************************************************)
(* What the accesses of an operation have in common, whichever of them are *)
(* left: all are in A; and in a session the recovery from an error is made *)
(* in one piece, which ends with dp->fault cleared.                        *)
(***************************************************************************)
Among(s, A) == \A i \in 1..Len(s) : s[i] \in A

Recovery == {"reset", "targetsel", "idcode", "ctrlstat", "abort"}

Follows(k, l) ==
    \/ k = "reset" /\ l = "targetsel"
    \/ k = "targetsel" /\ l = "idcode"
    \/ k = "idcode" /\ l = "ctrlstat"
    \/ k = "ctrlstat" /\ l = "abort"
    \/ k = "abort" /\ l = "clear"

Chained(s, K) ==
    \A i \in 1..Len(s) :
        s[i][1] \in K => i + 1 \in 1..Len(s) /\ Follows(s[i][1], s[i + 1][1])

\* The next access is k, or there is none.
NextIs(s, K) == s # <<>> /\ s[1][1] \in K

Recovering(s) == NextIs(s, Recovery \cup {"error", "clear"})

SessionKinds == {"select", "reg", "rdbuff", "error", "clear"} \cup Transactions \cup Recovery

-----------------------------------------------------------------------------
Types ==
    /\ TypeOK
    /\ chip \in Chips
    /\ todo \in Seq(Entries)
    /\ job \in Jobs
    /\ scan \in [next : 0..NrDps, trouble : BOOLEAN]

\* Who may be doing what.
Control ==
    /\ job.name = "idle" => job = Idle
    /\ job.name \in {"idle", "loop", "scanned"} => todo = <<>>
    /\ job.name \in ScanPhases => cur = Nobody /\ wait = "no"
    /\ wait # "no" => cur # Nobody /\ job.name \in {"idle", "resume", "haltreq", "poll"}
    /\ ~chip.v2 => /\ sel \in {0, Nobody} /\ cur \in {0, Nobody}
                   /\ Among(list, {0})
                   /\ Among(todo, Kinds \X {0, Initial})
                   /\ job.d \in {0, Nobody, Initial}

(***************************************************************************)
(* While a session is at work, the selected port is its own or none is,    *)
(* unless the next access is a reselection; and dp->fault says the truth:  *)
(* the port has an error or a timeout was met, unless the flag is about to *)
(* be cleared.                                                             *)
(***************************************************************************)
Selecting(s, d) ==
    \/ NextIs(s, {"reset", "targetsel"})
    \/ NextIs(s, {"error"}) /\ fault[d] /\ chip.v2

OnPort(d) == sel \in {d, Nobody}
Explained(d) == fault[d] => d \in late \/ sticky[d]

Session ==
    job.name \in SessionJobs =>
        /\ job.d \in DPs
        /\ job.name # "attach" => job.d = cur
        /\ Among(todo, SessionKinds \X {job.d})
        /\ Chained(todo, Recovery)
        /\ OnPort(job.d) \/ Selecting(todo, job.d)
        /\ Explained(job.d) \/ Recovering(todo)

Between ==
    job.name = "idle" /\ cur # Nobody => OnPort(cur) /\ Explained(cur)

(***************************************************************************)
(* A memory packet: it ends with the check for errors; until CTRLSTAT is   *)
(* read its failures are in the port, from then on in what was read.       *)
(***************************************************************************)
MemPlan(s) ==
    s # <<>> =>
        /\ s[Len(s)][1] \in {"error", "clear"}
        /\ \A i \in 1..Len(s) : i + 1 \in 1..Len(s) =>
              /\ s[i][1] \notin {"error", "clear"}
              /\ s[i + 1][1] = "abort" => s[i][1] = "ctrlstat"
              /\ s[i + 1][1] = "clear" => s[i][1] = "abort"

Checked(s) == s = <<>> \/ NextIs(s, {"abort", "clear"})

MemPacket ==
    job.name = "mem" =>
        /\ MemPlan(todo)
        /\ job.err => job.bad
        /\ ~Checked(todo) =>
              /\ job.bad => sticky[job.d] \/ job.late
              /\ sticky[job.d] => job.bad \/ NextIs(todo, {"select"})
        /\ Checked(todo) =>
              /\ job.bad => job.err \/ job.late
              /\ busy[job.d] # "no" => job.late

(***************************************************************************)
(* A scan without trouble.                                                 *)
(***************************************************************************)
Quiet ==
    /\ \A d \in DPs : ~sticky[d] /\ busy[d] = "no"
    /\ \A p \in Ports : ~fault[p]

Below(n) == {d \in chip.dps : d < n}

\* The ports found before d is probed, and with d.
BeforeProbe(s, d) ==
    /\ Range(list) = Below(d)
    /\ \E i \in 1..Len(s) : s[i][1] = "probed"
    /\ \A i, j \in 1..Len(s) :
          i < j /\ s[i][1] \in {"probed", "release"} => s[j][1] \notin {"probed", "halt"}

AfterProbe(s, d) ==
    /\ Range(list) = Below(d + 1)
    /\ \A i \in 1..Len(s) : s[i][1] \notin {"probed", "halt"}
    /\ core[d] = "run" \/ \E i \in 1..Len(s) : s[i][1] = "run"

Running(S) == \A d \in S : core[d] = "run"

Scan ==
    /\ job.name \in {"first", "old"} =>
          /\ Among(todo, {"reset", "idcode"} \X {Initial})
          /\ scan.next = 0 /\ list = <<>>
          /\ ~chip.v2 => sel = 0 \/ NextIs(todo, {"reset"})
    /\ job.name = "id" =>
          /\ Among(todo, {"select", "ctrlstat", "ctrlw"} \X {Initial})
          /\ scan.next = 0 /\ list = <<>> /\ chip.v2
    /\ job.name = "loop" /\ ~chip.v2 => sel = 0 /\ scan.next <= 1
    /\ job.name = "pick" =>
          /\ chip.v2 /\ scan.next \in DPs /\ job.d = scan.next
          /\ Among(todo, {<<"reset", job.d>>, <<"targetsel", job.d>>, <<"idcode", Initial>>})
          /\ Chained(todo, {"reset", "targetsel"})
    /\ job.name = "init" =>
          /\ scan.next \in DPs /\ job.d = scan.next /\ (~chip.v2 => scan.next = 0)
          /\ Among(todo, Kinds \X DPs) /\ (~chip.v2 => sel = 0)
          /\ \A i \in 1..Len(todo) : todo[i][1] \in Decisions => todo[i][2] = job.d

ScanProgress ==
    job.name \in ScanPhases /\ ~scan.trouble =>
        /\ Quiet
        /\ job.name \in {"loop", "pick"} => Range(list) = Below(scan.next)
        /\ Running(Below(scan.next))
        /\ job.name = "pick" =>
              /\ NextIs(todo, {"idcode"}) => sel = IF job.d \in chip.dps THEN job.d ELSE Nobody
              /\ todo = <<>> => sel = job.d /\ job.d \in chip.dps
        /\ job.name = "init" =>
              /\ sel = job.d /\ job.d \in chip.dps
              /\ Among(todo, (Kinds \ {"reset", "targetsel"}) \X DPs)
              /\ BeforeProbe(todo, job.d) \/ AfterProbe(todo, job.d)
        /\ job.name = "scanned" => Range(list) = chip.dps /\ Running(chip.dps)

IInv ==
    /\ Types /\ Control /\ Session /\ Between /\ MemPacket /\ ReportIsExact
    /\ ~wrong /\ Scan /\ ScanProgress

-----------------------------------------------------------------------------
(***************************************************************************)
(* Sequences of accesses.                                                  *)
(***************************************************************************)
LEMMA KindFacts ==
    /\ Always \subseteq Answered /\ ApAccess \subseteq Answered
    /\ Transactions \subseteq ApAccess
    /\ Answered \subseteq Kinds /\ SessionKinds \subseteq Kinds
    /\ Decisions \cap SessionKinds = {} /\ Decisions \cap Answered = {}
    /\ \A k \in {"reset", "targetsel", "error", "clear"} : k \notin Answered
    /\ Recovery \subseteq SessionKinds
BY DEF Always, Answered, ApAccess, Transactions, Kinds, SessionKinds, Decisions, Recovery

LEMMA TailFacts ==
    ASSUME NEW S, NEW s \in Seq(S), s # <<>>, NEW t, t = Tail(s)
    PROVE  /\ t \in Seq(S) /\ Len(s) \in Nat /\ Len(s) > 0 /\ Len(t) = Len(s) - 1
           /\ \A i \in 1..Len(t) : t[i] = s[i + 1] /\ i + 1 \in 1..Len(s)
           /\ Head(s) = s[1] /\ s[1] \in S
           /\ t = <<>> <=> Len(s) = 1
<1>1. Len(s) \in Nat /\ Len(s) > 0
  BY EmptySeq, LenProperties
<1>2. t \in Seq(S) /\ Len(t) = Len(s) - 1 /\ \A i \in 1..Len(t) : t[i] = s[i + 1]
  BY <1>1, HeadTailProperties
<1>3. \A i \in 1..Len(t) : i + 1 \in 1..Len(s)
  BY <1>1, <1>2
<1>4. Head(s) = s[1] /\ s[1] \in S
  BY <1>1, ElementOfSeq
<1>5. t = <<>> <=> Len(t) = 0
  BY <1>2, EmptySeq
<1> QED
  BY <1>1, <1>2, <1>3, <1>4, <1>5

LEMMA TailAmong ==
    ASSUME NEW S, NEW s \in Seq(S), s # <<>>, NEW A, Among(s, A)
    PROVE  s[1] \in A /\ Among(Tail(s), A)
BY TailFacts DEF Among

LEMMA TailChained ==
    ASSUME NEW S, NEW s \in Seq(S), s # <<>>, NEW t, t = Tail(s), NEW K, Chained(s, K)
    PROVE  /\ Chained(t, K)
           /\ s[1][1] \in K => t # <<>> /\ Follows(s[1][1], t[1][1])
<1>1. /\ Len(s) \in Nat /\ Len(s) > 0 /\ Len(t) = Len(s) - 1
      /\ \A i \in 1..Len(t) : t[i] = s[i + 1] /\ i + 1 \in 1..Len(s)
      /\ t = <<>> <=> Len(s) = 1
  BY TailFacts
<1>2. Chained(t, K)
  BY <1>1 DEF Chained
<1>3. ASSUME s[1][1] \in K PROVE t # <<>> /\ Follows(s[1][1], t[1][1])
  BY <1>1, <1>3 DEF Chained
<1> QED
  BY <1>2, <1>3

LEMMA TailMemPlan ==
    ASSUME NEW S, NEW s \in Seq(S), s # <<>>, NEW t, t = Tail(s), MemPlan(s)
    PROVE  /\ MemPlan(t)
           /\ s[1][1] \in {"error", "clear"} <=> t = <<>>
           /\ NextIs(t, {"abort"}) => s[1][1] = "ctrlstat"
           /\ NextIs(t, {"clear"}) => s[1][1] = "abort"
<1>1. /\ Len(s) \in Nat /\ Len(s) > 0 /\ Len(t) = Len(s) - 1
      /\ \A i \in 1..Len(t) : t[i] = s[i + 1] /\ i + 1 \in 1..Len(s)
      /\ t = <<>> <=> Len(s) = 1
  BY TailFacts
<1>2. /\ s[Len(s)][1] \in {"error", "clear"}
      /\ \A i \in 1..Len(s) : i + 1 \in 1..Len(s) =>
              /\ s[i][1] \notin {"error", "clear"}
              /\ s[i + 1][1] = "abort" => s[i][1] = "ctrlstat"
              /\ s[i + 1][1] = "clear" => s[i][1] = "abort"
  BY DEF MemPlan
<1>3. MemPlan(t)
  BY <1>1, <1>2 DEF MemPlan
<1>4. t # <<>> => 1 \in 1..Len(t) /\ t[1] = s[2] /\ 1 \in 1..Len(s) /\ 2 \in 1..Len(s)
  BY <1>1
<1>5. t # <<>> => s[1][1] \notin {"error", "clear"}
  BY <1>2, <1>4
<1>6. t = <<>> => s[1][1] \in {"error", "clear"}
  BY <1>1, <1>2
<1> QED
  BY <1>2, <1>3, <1>4, <1>5, <1>6 DEF NextIs

LEMMA ConcatFacts ==
    ASSUME NEW S, NEW s \in Seq(S), NEW t \in Seq(S), NEW u, u = s \o t
    PROVE  /\ u \in Seq(S) /\ Len(s) \in Nat /\ Len(t) \in Nat
           /\ Len(u) = Len(s) + Len(t)
           /\ \A i \in 1..Len(s) : u[i] = s[i] /\ i \in 1..Len(u)
           /\ \A i \in 1..Len(t) : u[Len(s) + i] = t[i] /\ Len(s) + i \in 1..Len(u)
           /\ \A i \in 1..Len(u) : i \in 1..Len(s) \/ i - Len(s) \in 1..Len(t)
BY ConcatProperties, LenProperties

LEMMA ConcatAmong ==
    ASSUME NEW S, NEW s \in Seq(S), NEW t \in Seq(S), NEW A, Among(s, A), Among(t, A)
    PROVE  Among(s \o t, A)
<1>1. PICK u : u = s \o t
  OBVIOUS
<1>2. /\ Len(s) \in Nat /\ Len(t) \in Nat /\ Len(u) = Len(s) + Len(t)
      /\ \A i \in 1..Len(s) : u[i] = s[i]
      /\ \A i \in 1..Len(t) : u[Len(s) + i] = t[i]
      /\ \A i \in 1..Len(u) : i \in 1..Len(s) \/ i - Len(s) \in 1..Len(t)
  BY <1>1, ConcatFacts
<1>3. ASSUME NEW i \in 1..Len(u) PROVE u[i] \in A
  <2>1. CASE i \in 1..Len(s)
    BY <1>2, <2>1 DEF Among
  <2>2. CASE i - Len(s) \in 1..Len(t)
    <3>1. u[Len(s) + (i - Len(s))] = t[i - Len(s)] /\ Len(s) + (i - Len(s)) = i
      BY <1>2, <2>2
    <3> QED
      BY <2>2, <3>1 DEF Among
  <2> QED
    BY <1>2, <2>1, <2>2
<1> QED
  BY <1>1, <1>3 DEF Among

LEMMA ConcatChained ==
    ASSUME NEW S, NEW s \in Seq(S), NEW t \in Seq(S), NEW K,
           Chained(s, K), Chained(t, K)
    PROVE  Chained(s \o t, K)
<1>1. PICK u : u = s \o t
  OBVIOUS
<1>2. /\ Len(s) \in Nat /\ Len(t) \in Nat /\ Len(u) = Len(s) + Len(t)
      /\ \A i \in 1..Len(s) : u[i] = s[i]
      /\ \A i \in 1..Len(t) : u[Len(s) + i] = t[i]
      /\ \A i \in 1..Len(u) : i \in 1..Len(s) \/ i - Len(s) \in 1..Len(t)
  BY <1>1, ConcatFacts
<1>3. ASSUME NEW i \in 1..Len(u), u[i][1] \in K
      PROVE  i + 1 \in 1..Len(u) /\ Follows(u[i][1], u[i + 1][1])
  <2>1. CASE i \in 1..Len(s)
    <3>1. i + 1 \in 1..Len(s) /\ Follows(s[i][1], s[i + 1][1])
      BY <1>2, <1>3, <2>1 DEF Chained
    <3> QED
      BY <1>2, <2>1, <3>1
  <2>2. CASE i - Len(s) \in 1..Len(t)
    <3>1. PICK j \in 1..Len(t) : j = i - Len(s)
      BY <2>2
    <3>2. i = Len(s) + j /\ u[i] = t[j]
      BY <1>2, <3>1
    <3>3. j + 1 \in 1..Len(t) /\ Follows(t[j][1], t[j + 1][1])
      BY <1>3, <3>2 DEF Chained
    <3>4. u[Len(s) + (j + 1)] = t[j + 1] /\ Len(s) + (j + 1) = i + 1 /\ i + 1 \in 1..Len(u)
      BY <1>2, <3>2, <3>3
    <3> QED
      BY <3>2, <3>3, <3>4
  <2> QED
    BY <1>2, <2>1, <2>2
<1> QED
  BY <1>1, <1>3 DEF Chained

-----------------------------------------------------------------------------
(***************************************************************************)
(* The sequences operations start with.                                    *)
(***************************************************************************)
LEMMA ForFacts ==
    ASSUME NEW d, NEW K, NEW kinds \in Seq(K)
    PROVE  /\ For(d, kinds) \in Seq(K \X {d})
           /\ Len(For(d, kinds)) = Len(kinds)
           /\ \A i \in 1..Len(kinds) : For(d, kinds)[i] = <<kinds[i], d>> /\ kinds[i] \in K
           /\ Among(For(d, kinds), K \X {d})
<1>1. Len(kinds) \in Nat /\ \A i \in 1..Len(kinds) : kinds[i] \in K
  BY LenProperties, ElementOfSeq
<1>2. PICK f : f = [i \in 1..Len(kinds) |-> <<kinds[i], d>>]
  OBVIOUS
<1>3. f \in [1..Len(kinds) -> K \X {d}]
  BY <1>1, <1>2
<1>4. f \in Seq(K \X {d}) /\ Len(f) = Len(kinds)
  BY <1>1, <1>3, SeqDef, LenProperties
<1>5. \A i \in 1..Len(kinds) : f[i] = <<kinds[i], d>>
  BY <1>2
<1>6. For(d, kinds) = f
  BY <1>2 DEF For
<1>7. Among(f, K \X {d})
  BY <1>1, <1>4, <1>5 DEF Among
<1> QED
  BY <1>1, <1>4, <1>5, <1>6, <1>7

\* Among a larger set of accesses.
LEMMA AmongMore ==
    ASSUME NEW s, NEW A, NEW B, Among(s, A), A \subseteq B
    PROVE  Among(s, B)
BY DEF Among

LEMMA MemReadFacts ==
    ASSUME NEW d \in Ports
    PROVE  /\ MemRead(d) \in Seq(SessionKinds \X {d}) /\ Chained(MemRead(d), Recovery)
           /\ Len(MemRead(d)) = 4
           /\ MemRead(d)[1] = <<"select", d>> /\ MemRead(d)[2] = <<"reg", d>>
           /\ MemRead(d)[3] = <<"read", d>> /\ MemRead(d)[4] = <<"rdbuff", d>>
<1>1. PICK k : k = <<"select", "reg", "read", "rdbuff">>
  OBVIOUS
<1>2. k \in Seq(SessionKinds) /\ Len(k) = 4
  BY <1>1 DEF SessionKinds, Transactions
<1>3. PICK r : r = For(d, k)
  OBVIOUS
<1>4. r \in Seq(SessionKinds \X {d}) /\ Len(r) = 4 /\ \A i \in 1..4 : r[i] = <<k[i], d>>
  BY <1>2, <1>3, ForFacts
<1>5. /\ r[1] = <<"select", d>> /\ r[2] = <<"reg", d>>
      /\ r[3] = <<"read", d>> /\ r[4] = <<"rdbuff", d>>
  BY <1>1, <1>4
<1>6. \A i \in 1..4 : i = 1 \/ i = 2 \/ i = 3 \/ i = 4
  OBVIOUS
<1>7. Chained(r, Recovery)
  BY <1>4, <1>5, <1>6 DEF Chained, Recovery
<1> QED
  BY <1>1, <1>3, <1>4, <1>5, <1>7 DEF MemRead

LEMMA MemWriteFacts ==
    ASSUME NEW d \in Ports, NEW w \in Transactions
    PROVE  /\ MemWrite(d, w) \in Seq(SessionKinds \X {d}) /\ Chained(MemWrite(d, w), Recovery)
           /\ Len(MemWrite(d, w)) = 3
           /\ MemWrite(d, w)[1] = <<"select", d>> /\ MemWrite(d, w)[2] = <<"reg", d>>
           /\ MemWrite(d, w)[3] = <<w, d>>
<1>1. PICK k : k = <<"select", "reg", w>>
  OBVIOUS
<1>2. k \in Seq(SessionKinds) /\ Len(k) = 3
  BY <1>1 DEF SessionKinds
<1>3. PICK r : r = For(d, k)
  OBVIOUS
<1>4. r \in Seq(SessionKinds \X {d}) /\ Len(r) = 3 /\ \A i \in 1..3 : r[i] = <<k[i], d>>
  BY <1>2, <1>3, ForFacts
<1>5. /\ r[1] = <<"select", d>> /\ r[2] = <<"reg", d>> /\ r[3] = <<w, d>>
  BY <1>1, <1>4
<1>6. \A i \in 1..3 : i = 1 \/ i = 2 \/ i = 3
  OBVIOUS
<1>7. w \notin Recovery
  BY DEF Recovery, Transactions
<1>8. Chained(r, Recovery)
  BY <1>4, <1>5, <1>6, <1>7 DEF Chained, Recovery
<1> QED
  BY <1>1, <1>3, <1>4, <1>5, <1>8 DEF MemWrite

LEMMA CallFacts ==
    ASSUME NEW d \in Ports
    PROVE  /\ Call(d) \in Seq(SessionKinds \X {d}) /\ Chained(Call(d), Recovery)
           /\ Len(Call(d)) = 1 /\ Call(d)[1] = <<"error", d>>
<1>1. PICK k : k = <<"error">>
  OBVIOUS
<1>2. k \in Seq(SessionKinds) /\ Len(k) = 1 /\ k[1] = "error"
  BY <1>1 DEF SessionKinds
<1>3. PICK r : r = For(d, k)
  OBVIOUS
<1>4. r \in Seq(SessionKinds \X {d}) /\ Len(r) = 1 /\ \A i \in 1..1 : r[i] = <<k[i], d>>
  BY <1>2, <1>3, ForFacts
<1>5. r[1] = <<"error", d>>
  BY <1>2, <1>4
<1>6. Chained(r, Recovery)
  BY <1>4, <1>5 DEF Chained, Recovery
<1> QED
  BY <1>1, <1>3, <1>4, <1>5, <1>6 DEF Call

LEMMA CheckFacts ==
    ASSUME NEW d \in Ports, NEW r, r = For(d, <<"ctrlstat", "abort", "clear">>)
    PROVE  /\ r \in Seq(SessionKinds \X {d}) /\ Chained(r, Recovery) /\ Len(r) = 3
           /\ r[1] = <<"ctrlstat", d>> /\ r[2] = <<"abort", d>> /\ r[3] = <<"clear", d>>
<1>1. PICK k : k = <<"ctrlstat", "abort", "clear">>
  OBVIOUS
<1>2. k \in Seq(SessionKinds) /\ Len(k) = 3
  BY <1>1 DEF SessionKinds, Recovery
<1>3. r \in Seq(SessionKinds \X {d}) /\ Len(r) = 3 /\ \A i \in 1..3 : r[i] = <<k[i], d>>
  BY <1>1, <1>2, ForFacts
<1>4. r[1] = <<"ctrlstat", d>> /\ r[2] = <<"abort", d>> /\ r[3] = <<"clear", d>>
  BY <1>1, <1>3
<1>5. \A i \in 1..3 : i = 1 \/ i = 2 \/ i = 3
  OBVIOUS
<1>6. Chained(r, Recovery)
  BY <1>3, <1>4, <1>5 DEF Chained, Recovery, Follows
<1> QED
  BY <1>3, <1>4, <1>6

LEMMA ReselectFacts ==
    ASSUME NEW d \in Ports, NEW e \in Ports, NEW r, r = Reselect(d, e)
    PROVE  /\ r \in Seq(SessionKinds \X {d, e}) /\ Len(r) = 3
           /\ r[1] = <<"reset", d>> /\ r[2] = <<"targetsel", d>> /\ r[3] = <<"idcode", e>>
<1>1. PICK k : k = <<"reset", "targetsel">>
  OBVIOUS
<1>2. k \in Seq(SessionKinds) /\ Len(k) = 2
  BY <1>1 DEF SessionKinds, Recovery
<1>3. PICK l : l = <<"idcode">>
  OBVIOUS
<1>4. l \in Seq(SessionKinds) /\ Len(l) = 1
  BY <1>3 DEF SessionKinds, Recovery
<1>5. PICK a : a = For(d, k)
  OBVIOUS
<1>6. PICK b : b = For(e, l)
  OBVIOUS
<1>7. a \in Seq(SessionKinds \X {d}) /\ Len(a) = 2 /\ \A i \in 1..2 : a[i] = <<k[i], d>>
  BY <1>2, <1>5, ForFacts
<1>8. b \in Seq(SessionKinds \X {e}) /\ Len(b) = 1 /\ \A i \in 1..1 : b[i] = <<l[i], e>>
  BY <1>4, <1>6, ForFacts
<1>9. a \in Seq(SessionKinds \X {d, e}) /\ b \in Seq(SessionKinds \X {d, e})
  BY <1>7, <1>8, SeqMonotonic
<1>10. r = a \o b
  BY <1>1, <1>3, <1>5, <1>6 DEF Reselect
<1>11. /\ r \in Seq(SessionKinds \X {d, e}) /\ Len(r) = 3
       /\ r[1] = a[1] /\ r[2] = a[2] /\ r[3] = b[1]
  <2>1. /\ r \in Seq(SessionKinds \X {d, e}) /\ Len(r) = Len(a) + Len(b)
        /\ \A i \in 1..Len(a) : r[i] = a[i]
        /\ \A i \in 1..Len(b) : r[Len(a) + i] = b[i]
    BY <1>9, <1>10, ConcatFacts
  <2>2. 1 \in 1..2 /\ 2 \in 1..2 /\ 1 \in 1..1 /\ 2 + 1 = 3
    OBVIOUS
  <2> QED
    BY <1>7, <1>8, <2>1, <2>2
<1>12. a[1] = <<"reset", d>> /\ a[2] = <<"targetsel", d>> /\ b[1] = <<"idcode", e>>
  BY <1>1, <1>3, <1>7, <1>8
<1> QED
  BY <1>11, <1>12

LEMMA ErrorFacts ==
    ASSUME NEW d \in Ports, NEW r, r = firmware_swdp_error(d)
    PROVE  /\ r \in Seq(SessionKinds \X {d}) /\ Chained(r, Recovery)
           /\ fault[d] /\ chip.v2 =>
                 /\ Len(r) = 6
                 /\ r[1][1] = "reset" /\ r[2][1] = "targetsel" /\ r[3][1] = "idcode"
                 /\ r[4][1] = "ctrlstat" /\ r[5][1] = "abort" /\ r[6][1] = "clear"
           /\ ~(fault[d] /\ chip.v2) =>
                 /\ Len(r) = 3
                 /\ r[1][1] = "ctrlstat" /\ r[2][1] = "abort" /\ r[3][1] = "clear"
<1>1. PICK c : c = For(d, <<"ctrlstat", "abort", "clear">>)
  OBVIOUS
<1>2. /\ c \in Seq(SessionKinds \X {d}) /\ Chained(c, Recovery) /\ Len(c) = 3
      /\ c[1] = <<"ctrlstat", d>> /\ c[2] = <<"abort", d>> /\ c[3] = <<"clear", d>>
  BY <1>1, CheckFacts
<1>3. CASE fault[d] /\ chip.v2
  <2>1. PICK a : a = Reselect(d, d)
    OBVIOUS
  <2>2. /\ a \in Seq(SessionKinds \X {d}) /\ Len(a) = 3
        /\ a[1] = <<"reset", d>> /\ a[2] = <<"targetsel", d>> /\ a[3] = <<"idcode", d>>
    <3>1. {d, d} = {d}
      OBVIOUS
    <3> QED
      BY <2>1, <3>1, ReselectFacts
  <2>3. r = a \o c
    BY <1>1, <1>3, <2>1 DEF firmware_swdp_error
  <2>4. /\ r \in Seq(SessionKinds \X {d}) /\ Len(r) = 6
        /\ r[1] = a[1] /\ r[2] = a[2] /\ r[3] = a[3]
        /\ r[4] = c[1] /\ r[5] = c[2] /\ r[6] = c[3]
    <3>1. a \in Seq(SessionKinds \X {d}) /\ c \in Seq(SessionKinds \X {d})
      BY <1>2, <2>2
    <3>2. /\ r \in Seq(SessionKinds \X {d}) /\ Len(r) = Len(a) + Len(c)
          /\ \A i \in 1..Len(a) : r[i] = a[i]
          /\ \A i \in 1..Len(c) : r[Len(a) + i] = c[i]
      BY <3>1, <2>3, ConcatFacts
    <3>3. /\ 1 \in 1..3 /\ 2 \in 1..3 /\ 3 \in 1..3
          /\ 3 + 1 = 4 /\ 3 + 2 = 5 /\ 3 + 3 = 6
      OBVIOUS
    <3> QED
      BY <1>2, <2>2, <3>2, <3>3
  <2>5. /\ r[1][1] = "reset" /\ r[2][1] = "targetsel" /\ r[3][1] = "idcode"
        /\ r[4][1] = "ctrlstat" /\ r[5][1] = "abort" /\ r[6][1] = "clear"
    BY <1>2, <2>2, <2>4
  <2>6. \A i \in 1..6 : i = 1 \/ i = 2 \/ i = 3 \/ i = 4 \/ i = 5 \/ i = 6
    OBVIOUS
  <2>7. Chained(r, Recovery)
    BY <2>4, <2>5, <2>6 DEF Chained, Recovery, Follows
  <2> QED
    BY <1>3, <2>4, <2>5, <2>7
<1>4. CASE ~(fault[d] /\ chip.v2)
  <2>1. r = <<>> \o c
    BY <1>1, <1>4 DEF firmware_swdp_error
  <2>2. r = c
    BY <1>2, <2>1, ConcatEmptySeq
  <2> QED
    BY <1>2, <1>4, <2>2
<1> QED
  BY <1>3, <1>4

-----------------------------------------------------------------------------
(***************************************************************************)
(* The next access, and what is known of it in each operation.             *)
(***************************************************************************)
LEMMA ConstantFacts ==
    /\ NrDps \in Nat /\ NrDps > 0 /\ DPs = 0..NrDps - 1 /\ DPs \subseteq Nat /\ 0 \in DPs
    /\ Nobody \notin DPs /\ Initial \notin DPs /\ Nobody # Initial
    /\ \A d \in DPs : d + 1 \in 0..NrDps
    /\ DPs \subseteq Ports /\ Initial \in Ports /\ Nobody \notin Ports
BY SwdAssumption DEF DPs, Nobody, Initial, Ports

LEMMA NameFacts ==
    /\ SessionJobs \cap ScanPhases = {}
    /\ "idle" \notin SessionJobs /\ "idle" \notin ScanPhases
    /\ ScanJobs \subseteq ScanPhases
    /\ "loop" \notin ScanJobs /\ "scanned" \notin ScanJobs
    /\ \A n \in {"idle"} \cup SessionJobs \cup ScanPhases :
          \/ n = "idle" \/ n \in SessionJobs \/ n = "loop" \/ n = "scanned"
          \/ n = "first" \/ n = "old" \/ n = "id" \/ n = "pick" \/ n = "init"
BY DEF SessionJobs, ScanPhases, ScanJobs

LEMMA HeadFacts ==
    ASSUME IInv, todo # <<>>
    PROVE  /\ kind \in Kinds /\ dp \in Ports /\ todo[1] = <<kind, dp>>
           /\ kind = todo[1][1] /\ dp = todo[1][2]
           /\ Tail(todo) \in Seq(Entries)
           /\ job.name \in SessionJobs \cup ScanJobs
<1>1. todo \in Seq(Entries) /\ job \in Jobs
  BY DEF IInv, Types
<1>2. Head(todo) = todo[1] /\ todo[1] \in Entries /\ Tail(todo) \in Seq(Entries)
  BY <1>1, TailFacts
<1>3. /\ todo[1][1] \in Kinds /\ todo[1][2] \in Ports
      /\ todo[1] = <<todo[1][1], todo[1][2]>>
  BY <1>2 DEF Entries
<1>4. kind = todo[1][1] /\ dp = todo[1][2]
  BY <1>2 DEF kind, dp
<1>5. job.name \notin {"idle", "loop", "scanned"}
  BY DEF IInv, Control
<1>6. job.name \in {"idle"} \cup SessionJobs \cup ScanPhases
  BY <1>1 DEF Jobs
<1>7. job.name \in SessionJobs \cup ScanJobs
  BY <1>5, <1>6 DEF ScanPhases
<1> QED
  BY <1>2, <1>3, <1>4, <1>7

LEMMA HeadOfSession ==
    ASSUME IInv, todo # <<>>, job.name \in SessionJobs
    PROVE  kind \in SessionKinds /\ dp = job.d /\ job.d \in DPs
<1>1. Among(todo, SessionKinds \X {job.d}) /\ job.d \in DPs
  BY DEF IInv, Session
<1>2. todo[1] \in SessionKinds \X {job.d}
  BY <1>1, TailAmong DEF IInv, Types
<1> QED
  BY <1>1, <1>2, HeadFacts

LEMMA HeadOfScan ==
    ASSUME IInv, todo # <<>>, job.name \in ScanJobs
    PROVE  /\ job.name \in {"first", "old"} => kind \in {"reset", "idcode"} /\ dp = Initial
           /\ job.name = "id" => kind \in {"select", "ctrlstat", "ctrlw"} /\ dp = Initial
           /\ job.name = "pick" =>
                 \/ kind = "reset" /\ dp = job.d
                 \/ kind = "targetsel" /\ dp = job.d
                 \/ kind = "idcode" /\ dp = Initial
           /\ job.name = "init" => dp \in DPs /\ (kind \in Decisions => dp = job.d)
<1>1. todo \in Seq(Entries) /\ todo[1] = <<kind, dp>>
  BY HeadFacts DEF IInv, Types
<1>2. ASSUME job.name \in {"first", "old"}
      PROVE  kind \in {"reset", "idcode"} /\ dp = Initial
  <2>1. Among(todo, {"reset", "idcode"} \X {Initial})
    BY <1>2 DEF IInv, Scan
  <2>2. todo[1] \in {"reset", "idcode"} \X {Initial}
    BY <1>1, <2>1, TailAmong
  <2> QED
    BY <1>1, <2>2
<1>3. ASSUME job.name = "id"
      PROVE  kind \in {"select", "ctrlstat", "ctrlw"} /\ dp = Initial
  <2>1. Among(todo, {"select", "ctrlstat", "ctrlw"} \X {Initial})
    BY <1>3 DEF IInv, Scan
  <2>2. todo[1] \in {"select", "ctrlstat", "ctrlw"} \X {Initial}
    BY <1>1, <2>1, TailAmong
  <2> QED
    BY <1>1, <2>2
<1>4. ASSUME job.name = "pick"
      PROVE  \/ kind = "reset" /\ dp = job.d
             \/ kind = "targetsel" /\ dp = job.d
             \/ kind = "idcode" /\ dp = Initial
  <2>1. Among(todo, {<<"reset", job.d>>, <<"targetsel", job.d>>, <<"idcode", Initial>>})
    BY <1>4 DEF IInv, Scan
  <2>2. todo[1] \in {<<"reset", job.d>>, <<"targetsel", job.d>>, <<"idcode", Initial>>}
    BY <1>1, <2>1, TailAmong
  <2> QED
    BY <1>1, <2>2
<1>5. ASSUME job.name = "init"
      PROVE  dp \in DPs /\ (kind \in Decisions => dp = job.d)
  <2>1. /\ Among(todo, Kinds \X DPs)
        /\ \A i \in 1..Len(todo) : todo[i][1] \in Decisions => todo[i][2] = job.d
    BY <1>5 DEF IInv, Scan
  <2>2. todo[1] \in Kinds \X DPs /\ 1 \in 1..Len(todo)
    BY <1>1, <2>1, TailAmong, TailFacts
  <2> QED
    BY <1>1, <2>1, <2>2
<1> QED
  BY <1>2, <1>3, <1>4, <1>5

-----------------------------------------------------------------------------
(***************************************************************************)
(* What the steps have in common that make the next access of an operation *)
(* and go on with it.                                                      *)
(***************************************************************************)
Advance ==
    /\ todo # <<>> /\ todo' = Tail(todo)
    /\ job' \in Jobs /\ job'.name = job.name /\ job'.d = job.d
    /\ scan' \in [next : 0..NrDps, trouble : BOOLEAN] /\ scan'.next = scan.next
    /\ UNCHANGED <<chip, list, cur, wait>>
    /\ ~chip.v2 => sel' = sel \/ sel' = 0
    /\ sel' # sel => kind \in {"reset", "targetsel"}

LEMMA AdvanceControl ==
    ASSUME IInv, Advance, TypeOK'
    PROVE  Types' /\ Control'
<1>1. PICK t : t = Tail(todo)
  OBVIOUS
<1>2. t \in Seq(Entries) /\ todo' = t
  BY <1>1, HeadFacts DEF Advance
<1>3. Types'
  BY <1>2 DEF IInv, Types, Advance
<1>4. job.name \in SessionJobs \cup ScanJobs
  BY HeadFacts DEF Advance
<1>5. job.name \notin {"idle", "loop", "scanned"}
  BY <1>4 DEF SessionJobs, ScanJobs
<1>6. Among(todo, Kinds \X {0, Initial}) => Among(t, Kinds \X {0, Initial})
  BY <1>1, TailAmong DEF IInv, Types, Advance
<1>7. Control'
  <2>1. job'.name \notin {"idle", "loop", "scanned"}
    BY <1>5 DEF Advance
  <2>2. job'.name \in ScanPhases => cur' = Nobody /\ wait' = "no"
    BY DEF Advance, IInv, Control
  <2>3. wait' # "no" => cur' # Nobody /\ job'.name \in {"idle", "resume", "haltreq", "poll"}
    BY DEF Advance, IInv, Control
  <2>4. ~chip'.v2 =>
            /\ sel' \in {0, Nobody} /\ cur' \in {0, Nobody} /\ Among(list', {0})
            /\ Among(t, Kinds \X {0, Initial}) /\ job'.d \in {0, Nobody, Initial}
    BY <1>6 DEF Advance, IInv, Control
  <2> QED
    BY <1>2, <2>1, <2>2, <2>3, <2>4 DEF Control
<1> QED
  BY <1>3, <1>7

LEMMA AdvanceScan ==
    ASSUME IInv, Advance,
           \/ chip.v2 \/ sel # Nobody \/ sel' = 0
           \/ kind = "targetsel" \/ job.name \notin {"first", "old"}
    PROVE  Scan'
<1>1. PICK t : t = Tail(todo)
  OBVIOUS
<1>2. todo \in Seq(Entries) /\ todo # <<>> /\ todo' = t
  BY <1>1 DEF Advance, IInv, Types
<1>3. /\ Len(t) = Len(todo) - 1 /\ Len(todo) \in Nat
      /\ \A i \in 1..Len(t) : t[i] = todo[i + 1] /\ i + 1 \in 1..Len(todo)
  BY <1>1, <1>2, TailFacts
<1>4. \A A : Among(todo, A) => Among(t, A)
  BY <1>1, <1>2, TailAmong
<1>5. \A K : Chained(todo, K) => Chained(t, K)
  BY <1>1, <1>2, TailChained
<1>6. ASSUME job.name \in {"first", "old"}
      PROVE  /\ Among(t, {"reset", "idcode"} \X {Initial})
             /\ scan'.next = 0 /\ list' = <<>>
             /\ ~chip'.v2 => sel' = 0
  <2>1. kind # "targetsel"
    BY <1>2, <1>6, HeadOfScan DEF ScanJobs
  <2>2. ~chip.v2 => sel \in {0, Nobody}
    BY DEF IInv, Control
  <2> QED
    BY <1>4, <1>6, <2>1, <2>2 DEF IInv, Scan, Advance
<1>7. ASSUME job.name = "id"
      PROVE  /\ Among(t, {"select", "ctrlstat", "ctrlw"} \X {Initial})
             /\ scan'.next = 0 /\ list' = <<>> /\ chip'.v2
  BY <1>4, <1>7 DEF IInv, Scan, Advance
<1>8. ASSUME job.name = "pick"
      PROVE  /\ chip'.v2 /\ scan'.next \in DPs /\ job'.d = scan'.next
             /\ Among(t, {<<"reset", job'.d>>, <<"targetsel", job'.d>>, <<"idcode", Initial>>})
             /\ Chained(t, {"reset", "targetsel"})
  <2>1. /\ chip.v2 /\ scan.next \in DPs /\ job.d = scan.next
        /\ Among(todo, {<<"reset", job.d>>, <<"targetsel", job.d>>, <<"idcode", Initial>>})
        /\ Chained(todo, {"reset", "targetsel"})
    BY <1>8 DEF IInv, Scan
  <2>2. job'.d = job.d /\ scan'.next = scan.next /\ chip' = chip
    BY DEF Advance
  <2> QED
    BY <1>4, <1>5, <2>1, <2>2
<1>9. ASSUME job.name = "init"
      PROVE  /\ scan'.next \in DPs /\ job'.d = scan'.next /\ (~chip'.v2 => scan'.next = 0)
             /\ Among(t, Kinds \X DPs) /\ (~chip'.v2 => sel' = 0)
             /\ \A i \in 1..Len(t) : t[i][1] \in Decisions => t[i][2] = job'.d
  <2>1. /\ scan.next \in DPs /\ job.d = scan.next /\ (~chip.v2 => scan.next = 0)
        /\ Among(todo, Kinds \X DPs) /\ (~chip.v2 => sel = 0)
        /\ \A i \in 1..Len(todo) : todo[i][1] \in Decisions => todo[i][2] = job.d
    BY <1>9 DEF IInv, Scan
  <2>2. \A i \in 1..Len(t) : t[i][1] \in Decisions => t[i][2] = job.d
    BY <1>3, <2>1
  <2>3. /\ job'.d = job.d /\ scan'.next = scan.next /\ chip' = chip
        /\ ~chip.v2 => sel' = sel \/ sel' = 0
    BY DEF Advance
  <2> QED
    BY <1>4, <2>1, <2>2, <2>3
<1>10. job'.name = job.name /\ job.name # "loop"
  BY HeadFacts DEF Advance, SessionJobs, ScanJobs
<1> QED
  BY <1>2, <1>6, <1>7, <1>8, <1>9, <1>10 DEF Scan

(***************************************************************************)
(* A step of a session: the port is reselected by the first accesses of a  *)
(* recovery, and dp->fault only changes together with its reasons.         *)
(***************************************************************************)
LEMMA AdvanceSession ==
    ASSUME IInv, Advance,
           job.name \in SessionJobs =>
               /\ kind \in {"reset", "error"} \/ sel' \in {sel, job.d, Nobody}
               /\ kind = "targetsel" => sel' \in {job.d, Nobody}
               /\ kind # "error"
               /\ Explained(job.d) => Explained(job.d)' \/ kind = "abort"
               /\ kind = "clear" => ~fault'[job.d]
    PROVE  Session' /\ Between'
<1>1. PICK t : t = Tail(todo)
  OBVIOUS
<1>2. todo \in Seq(Entries) /\ todo # <<>> /\ todo' = t
  BY <1>1 DEF Advance, IInv, Types
<1>3. job'.name = job.name /\ job'.d = job.d /\ cur' = cur /\ chip' = chip
  BY DEF Advance
<1>4. job.name # "idle"
  BY <1>2, HeadFacts, NameFacts
<1>5. Between'
  BY <1>3, <1>4 DEF Between
<1>6. ASSUME job.name \in SessionJobs
      PROVE  /\ job'.d \in DPs
             /\ job'.name # "attach" => job'.d = cur'
             /\ Among(t, SessionKinds \X {job'.d})
             /\ Chained(t, Recovery)
             /\ sel' \in {job'.d, Nobody} \/ NextIs(t, {"reset", "targetsel"})
             /\ Explained(job.d)' \/ Recovering(t)
  <2>1. /\ job.d \in DPs /\ (job.name # "attach" => job.d = cur)
        /\ Among(todo, SessionKinds \X {job.d}) /\ Chained(todo, Recovery)
        /\ OnPort(job.d) \/ Selecting(todo, job.d)
        /\ Explained(job.d) \/ Recovering(todo)
    BY <1>6 DEF IInv, Session
  <2>2. /\ Among(t, SessionKinds \X {job.d}) /\ Chained(t, Recovery)
        /\ kind \in Recovery => t # <<>> /\ Follows(kind, t[1][1])
    <3>1. kind = todo[1][1]
      BY <1>2, HeadFacts
    <3>2. Among(t, SessionKinds \X {job.d})
      BY <1>1, <1>2, <2>1, TailAmong
    <3>3. /\ Chained(t, Recovery)
          /\ todo[1][1] \in Recovery => t # <<>> /\ Follows(todo[1][1], t[1][1])
      BY <1>1, <1>2, <2>1, TailChained
    <3> QED
      BY <3>1, <3>2, <3>3
  <2>3. kind = todo[1][1]
    BY <1>2, HeadFacts
  <2>4. sel' \in {job.d, Nobody} \/ NextIs(t, {"reset", "targetsel"})
    <3>1. CASE kind = "reset"
      BY <2>2, <3>1 DEF Recovery, Follows, NextIs
    <3>2. CASE kind = "targetsel"
      BY <1>6, <3>2
    <3>3. CASE kind \notin {"reset", "targetsel"}
      <4>1. ~Selecting(todo, job.d)
        BY <1>6, <2>3, <3>3 DEF Selecting, NextIs
      <4> QED
        BY <1>6, <2>1, <3>3, <4>1 DEF OnPort
    <3> QED
      BY <3>1, <3>2, <3>3
  <2>5. Explained(job.d)' \/ Recovering(t)
    <3>1. CASE kind \in Recovery
      BY <2>2, <3>1 DEF Recovering, Recovery, Follows, NextIs
    <3>2. CASE kind = "clear"
      BY <1>3, <1>6, <3>2 DEF Explained
    <3>3. CASE kind \notin Recovery \cup {"clear"}
      <4>1. ~Recovering(todo)
        BY <1>6, <2>3, <3>3 DEF Recovering, NextIs
      <4>2. Explained(job.d)
        BY <2>1, <4>1
      <4> QED
        BY <1>6, <3>3, <4>2 DEF Recovery
    <3> QED
      BY <3>1, <3>2, <3>3
  <2> QED
    BY <1>3, <2>1, <2>2, <2>4, <2>5
<1>7. Session'
  BY <1>2, <1>3, <1>6 DEF Session, OnPort, Selecting, Explained
<1> QED
  BY <1>5, <1>7

(***************************************************************************)
(* A step of a memory packet.                                              *)
(***************************************************************************)
LEMMA MemHead ==
    ASSUME IInv, todo # <<>>, job.name = "mem", NEW t, t = Tail(todo)
    PROVE  /\ MemPlan(t)
           /\ Checked(todo) <=> kind \in {"abort", "clear"}
           /\ kind # "error" => (Checked(t) <=> kind \in {"ctrlstat", "abort", "clear"})
           /\ NextIs(todo, {"select"}) <=> kind = "select"
<1>1. todo \in Seq(Entries) /\ MemPlan(todo) /\ Chained(todo, Recovery)
  BY DEF IInv, Types, MemPacket, Session, SessionJobs
<1>2. kind = todo[1][1]
  BY HeadFacts
<1>3. /\ MemPlan(t)
      /\ todo[1][1] \in {"error", "clear"} <=> t = <<>>
      /\ NextIs(t, {"abort"}) => todo[1][1] = "ctrlstat"
      /\ NextIs(t, {"clear"}) => todo[1][1] = "abort"
  <2>1. todo \in Seq(Entries) /\ MemPlan(todo) /\ todo # <<>> /\ t = Tail(todo)
    BY <1>1
  <2>2. MemPlan(t)
    BY <2>1, TailMemPlan
  <2>3. todo[1][1] \in {"error", "clear"} <=> t = <<>>
    BY <2>1, TailMemPlan
  <2>4. NextIs(t, {"abort"}) => todo[1][1] = "ctrlstat"
    BY <2>1, TailMemPlan
  <2>5. NextIs(t, {"clear"}) => todo[1][1] = "abort"
    BY <2>1, TailMemPlan
  <2> QED
    BY <2>2, <2>3, <2>4, <2>5
<1>4. todo[1][1] \in Recovery => t # <<>> /\ Follows(todo[1][1], t[1][1])
  BY <1>1, TailChained
<1>5. kind = "ctrlstat" => NextIs(t, {"abort"})
  BY <1>2, <1>4 DEF Follows, NextIs, Recovery
<1>6. kind = "abort" => NextIs(t, {"clear"})
  BY <1>2, <1>4 DEF Follows, NextIs, Recovery
<1>7. Checked(t) <=> t = <<>> \/ NextIs(t, {"abort"}) \/ NextIs(t, {"clear"})
  BY DEF Checked, NextIs
<1>8. kind # "error" => (Checked(t) <=> kind \in {"ctrlstat", "abort", "clear"})
  BY <1>2, <1>3, <1>5, <1>6, <1>7
<1> QED
  BY <1>2, <1>3, <1>8 DEF Checked, NextIs

LEMMA AdvanceMem ==
    ASSUME IInv, Advance,
           job.name = "mem" =>
               /\ kind # "error"
               /\ job'.err => job'.bad
               /\ kind \notin {"ctrlstat", "abort", "clear"} =>
                     /\ job'.bad => sticky'[job.d] \/ job'.late
                     /\ sticky'[job.d] => job'.bad
               /\ kind \in {"ctrlstat", "abort", "clear"} =>
                     /\ job'.bad => job'.err \/ job'.late
                     /\ busy'[job.d] # "no" => job'.late
    PROVE  MemPacket'
<1>1. PICK t : t = Tail(todo)
  OBVIOUS
<1>2. todo # <<>> /\ todo' = t /\ job'.name = job.name /\ job'.d = job.d
  BY <1>1 DEF Advance
<1>3. ASSUME job.name = "mem"
      PROVE  /\ MemPlan(t)
             /\ Checked(t) <=> kind \in {"ctrlstat", "abort", "clear"}
  BY <1>1, <1>2, <1>3, MemHead
<1> QED
  BY <1>2, <1>3 DEF MemPacket

\* What MemPacket says before the step, in terms of the next access.
LEMMA MemNow ==
    ASSUME IInv, todo # <<>>, job.name = "mem"
    PROVE  /\ job.err => job.bad
           /\ kind \notin {"abort", "clear"} =>
                 /\ job.bad => sticky[job.d] \/ job.late
                 /\ sticky[job.d] => job.bad \/ kind = "select"
           /\ kind \in {"abort", "clear"} =>
                 /\ job.bad => job.err \/ job.late
                 /\ busy[job.d] # "no" => job.late
<1>1. /\ Checked(todo) <=> kind \in {"abort", "clear"}
      /\ NextIs(todo, {"select"}) <=> kind = "select"
  BY MemHead
<1> QED
  BY <1>1 DEF IInv, MemPacket

(***************************************************************************)
(* A step of a scan without trouble.                                       *)
(***************************************************************************)
CoreStep ==
    /\ \A e \in DPs : e # sel \/ kind \notin {"halt", "run"} => core'[e] = core[e]
    /\ kind \in {"halt", "run"} /\ sel \in DPs => core'[sel] = kind

LEMMA TailProbe ==
    ASSUME NEW s \in Seq(Entries), s # <<>>, NEW t, t = Tail(s), NEW d,
           s[1][1] # "probed", BeforeProbe(s, d)
    PROVE  BeforeProbe(t, d)
<1>1. /\ Len(s) \in Nat /\ Len(t) = Len(s) - 1
      /\ \A i \in 1..Len(t) : t[i] = s[i + 1] /\ i + 1 \in 1..Len(s)
  BY TailFacts
<1>2. PICK i \in 1..Len(s) : s[i][1] = "probed"
  BY DEF BeforeProbe
<1>3. i # 1
  BY <1>2
<1>4. i - 1 \in 1..Len(t) /\ (i - 1) + 1 = i
  BY <1>1, <1>3
<1>5. t[i - 1][1] = "probed"
  BY <1>1, <1>2, <1>4
<1>6. ASSUME NEW j \in 1..Len(t), NEW l \in 1..Len(t), j < l, t[j][1] \in {"probed", "release"}
      PROVE  t[l][1] \notin {"probed", "halt"}
  <2>1. /\ j + 1 \in 1..Len(s) /\ l + 1 \in 1..Len(s) /\ j + 1 < l + 1
        /\ t[j] = s[j + 1] /\ t[l] = s[l + 1]
    BY <1>1, <1>6
  <2> QED
    BY <1>6, <2>1 DEF BeforeProbe
<1> QED
  BY <1>4, <1>5, <1>6 DEF BeforeProbe

LEMMA TailProbed ==
    ASSUME IInv, Advance, sel \in DPs, CoreStep, AfterProbe(todo, sel)
    PROVE  /\ kind \notin {"probed", "halt"}
           /\ \A i \in 1..Len(todo') : todo'[i][1] \notin {"probed", "halt"}
           /\ core'[sel] = "run" \/ \E i \in 1..Len(todo') : todo'[i][1] = "run"
<1>1. PICK t : t = Tail(todo)
  OBVIOUS
<1>2. todo \in Seq(Entries) /\ todo # <<>> /\ todo' = t /\ kind = todo[1][1]
  BY <1>1, HeadFacts DEF Advance, IInv, Types
<1>3. /\ Len(todo) \in Nat /\ Len(todo) > 0 /\ Len(t) = Len(todo) - 1
      /\ \A i \in 1..Len(t) : t[i] = todo[i + 1] /\ i + 1 \in 1..Len(todo)
  BY <1>1, <1>2, TailFacts
<1>4. \A i \in 1..Len(todo) : todo[i][1] \notin {"probed", "halt"}
  BY DEF AfterProbe
<1>5. 1 \in 1..Len(todo) /\ kind \notin {"probed", "halt"}
  BY <1>2, <1>3, <1>4
<1>6. \A i \in 1..Len(t) : t[i][1] \notin {"probed", "halt"}
  BY <1>3, <1>4
<1>7. core'[sel] = "run" \/ \E i \in 1..Len(t) : t[i][1] = "run"
  <2>1. CASE kind = "run"
    BY <2>1 DEF CoreStep
  <2>2. CASE kind # "run" /\ core[sel] = "run"
    BY <1>5, <2>2 DEF CoreStep
  <2>3. CASE kind # "run" /\ \E i \in 1..Len(todo) : todo[i][1] = "run"
    <3>1. PICK i \in 1..Len(todo) : todo[i][1] = "run"
      BY <2>3
    <3>2. i # 1
      BY <1>2, <2>3, <3>1
    <3>3. i - 1 \in 1..Len(t) /\ (i - 1) + 1 = i
      BY <1>3, <3>2
    <3>4. t[i - 1] = todo[i]
      BY <1>3, <3>3
    <3> QED
      BY <3>1, <3>3, <3>4
  <2> QED
    BY <2>1, <2>2, <2>3 DEF AfterProbe
<1> QED
  BY <1>2, <1>5, <1>6, <1>7

LEMMA BelowFacts ==
    ASSUME IInv
    PROVE  /\ chip.dps \subseteq DPs /\ Below(0) = {} /\ Below(NrDps) = chip.dps
           /\ \A d \in DPs : d \notin Below(d) /\ Below(d) \subseteq DPs
           /\ \A d \in DPs : d \in chip.dps => Below(d + 1) = Below(d) \cup {d}
           /\ \A d \in DPs : d \notin chip.dps => Below(d + 1) = Below(d)
           /\ ~chip.v2 => chip.dps = {0} /\ Below(1) = chip.dps
<1>1. chip.dps \subseteq DPs /\ (~chip.v2 => chip.dps = {0})
  BY ConstantFacts DEF IInv, Types, Chips
<1>2. NrDps \in Nat /\ DPs = 0..NrDps - 1
  BY ConstantFacts
<1>3. /\ Below(0) = {} /\ Below(NrDps) = chip.dps
      /\ \A d \in DPs : d \notin Below(d) /\ Below(d) \subseteq DPs
  BY <1>1, <1>2 DEF Below
<1>4. \A d \in DPs : d \in chip.dps => Below(d + 1) = Below(d) \cup {d}
  BY <1>1, <1>2 DEF Below
<1>5. \A d \in DPs : d \notin chip.dps => Below(d + 1) = Below(d)
  BY <1>1, <1>2 DEF Below
<1>6. ~chip.v2 => Below(1) = chip.dps
  BY <1>1 DEF Below
<1> QED
  BY <1>1, <1>3, <1>4, <1>5, <1>6

LEMMA AdvanceProgress ==
    ASSUME IInv, Advance,
           job.name \in ScanJobs /\ ~scan'.trouble =>
               /\ ~scan.trouble /\ Quiet' /\ CoreStep
               /\ kind \notin {"probed", "error", "release"}
               /\ kind \in Answered => sel # Nobody
               /\ kind \notin {"reset", "targetsel"} => sel' = sel
               /\ kind = "targetsel" => sel' = IF dp \in chip.dps THEN dp ELSE Nobody
    PROVE  ScanProgress'
<1> SUFFICES ASSUME job'.name \in ScanPhases, ~scan'.trouble
             PROVE  ScanProgress'
  BY DEF ScanProgress
<1>1. PICK t : t = Tail(todo)
  OBVIOUS
<1>2. /\ todo \in Seq(Entries) /\ todo # <<>> /\ todo' = t /\ kind = todo[1][1]
      /\ todo[1] = <<kind, dp>>
  BY <1>1, HeadFacts DEF Advance, IInv, Types
<1>3. /\ job'.name = job.name /\ job'.d = job.d /\ scan'.next = scan.next
      /\ chip' = chip /\ list' = list
  BY DEF Advance
<1>4. job.name \in ScanJobs
  BY <1>2, <1>3, HeadFacts, NameFacts
<1>5. /\ ~scan.trouble /\ Quiet' /\ CoreStep
      /\ kind \notin {"probed", "error", "release"}
      /\ kind \in Answered => sel # Nobody
      /\ kind \notin {"reset", "targetsel"} => sel' = sel
      /\ kind = "targetsel" => sel' = IF dp \in chip.dps THEN dp ELSE Nobody
  BY <1>4
<1>6. /\ job.name \in {"loop", "pick"} => Range(list) = Below(scan.next)
      /\ Running(Below(scan.next))
      /\ job.name = "pick" =>
            /\ NextIs(todo, {"idcode"}) => sel = IF job.d \in chip.dps THEN job.d ELSE Nobody
      /\ job.name = "init" =>
            /\ sel = job.d /\ job.d \in chip.dps
            /\ Among(todo, (Kinds \ {"reset", "targetsel"}) \X DPs)
            /\ BeforeProbe(todo, job.d) \/ AfterProbe(todo, job.d)
  BY <1>4, <1>5, NameFacts DEF IInv, ScanProgress
<1>7. Below(scan.next)' = Below(scan.next) /\ Below(job.d + 1)' = Below(job.d + 1)
      /\ Below(job.d)' = Below(job.d)
  BY <1>3 DEF Below
<1>8. job.name \in {"first", "old", "id", "pick"} => kind \notin {"halt", "run"}
  BY <1>2, <1>4, HeadOfScan
<1>9. Running(Below(scan.next))'
  <2>1. ASSUME NEW e \in Below(scan.next) PROVE core'[e] = "run"
    <3>1. core[e] = "run" /\ e \in DPs
      BY <1>6, BelowFacts DEF Running, Below
    <3>2. CASE job.name = "init"
      <4>1. e # sel
        BY <1>6, <3>2, BelowFacts DEF IInv, Scan
      <4> QED
        BY <1>5, <3>1, <4>1 DEF CoreStep
    <3>3. CASE job.name \in {"first", "old", "id", "pick"}
      BY <1>5, <1>8, <3>1, <3>3 DEF CoreStep
    <3> QED
      BY <1>4, <3>2, <3>3 DEF ScanJobs
  <2> QED
    BY <1>7, <2>1 DEF Running
<1>10. ASSUME job.name = "pick"
       PROVE  /\ NextIs(t, {"idcode"}) => sel' = IF job.d \in chip.dps THEN job.d ELSE Nobody
              /\ t = <<>> => sel' = job.d /\ job.d \in chip.dps
  <2>1. Chained(todo, {"reset", "targetsel"})
    BY <1>10 DEF IInv, Scan
  <2>2. kind \in {"reset", "targetsel"} => t # <<>> /\ Follows(kind, t[1][1])
    BY <1>1, <1>2, <2>1, TailChained
  <2>3. CASE kind = "reset"
    BY <2>2, <2>3 DEF Follows, NextIs
  <2>4. CASE kind = "targetsel"
    <3>1. dp = job.d
      BY <1>2, <1>4, <1>10, <2>4, HeadOfScan
    <3> QED
      BY <1>5, <2>2, <2>4, <3>1
  <2>5. CASE kind = "idcode"
    <3>1. "idcode" \in Answered
      BY DEF Answered, Always
    <3>2. sel # Nobody /\ sel' = sel
      BY <1>5, <2>5, <3>1
    <3>3. sel = IF job.d \in chip.dps THEN job.d ELSE Nobody
      BY <1>2, <1>6, <1>10, <2>5 DEF NextIs
    <3> QED
      BY <3>2, <3>3
  <2> QED
    BY <1>2, <1>4, <1>10, <2>3, <2>4, <2>5, HeadOfScan
<1>11. ASSUME job.name = "init"
       PROVE  /\ sel' = job.d /\ job.d \in chip.dps
              /\ Among(t, (Kinds \ {"reset", "targetsel"}) \X DPs)
              /\ (BeforeProbe(todo, job.d) \/ AfterProbe(todo, job.d))'
  <2>1. /\ todo[1] \in (Kinds \ {"reset", "targetsel"}) \X DPs
        /\ Among(t, (Kinds \ {"reset", "targetsel"}) \X DPs)
    BY <1>1, <1>2, <1>6, <1>11, TailAmong
  <2>2. kind \notin {"reset", "targetsel"}
    BY <1>2, <2>1
  <2>3. sel' = job.d /\ sel = job.d /\ job.d \in DPs
    BY <1>5, <1>6, <1>11, <2>2, BelowFacts
  <2>4. ASSUME BeforeProbe(todo, job.d) PROVE BeforeProbe(todo, job.d)'
    <3>1. BeforeProbe(t, job.d)
      BY <1>1, <1>2, <1>5, <2>4, TailProbe
    <3> QED
      BY <1>2, <1>3, <1>7, <3>1 DEF BeforeProbe
  <2>5. ASSUME AfterProbe(todo, job.d) PROVE AfterProbe(todo, job.d)'
    <3>1. /\ \A i \in 1..Len(t) : t[i][1] \notin {"probed", "halt"}
          /\ core'[job.d] = "run" \/ \E i \in 1..Len(t) : t[i][1] = "run"
      BY <1>2, <1>5, <2>3, <2>5, TailProbed
    <3> QED
      BY <1>2, <1>3, <1>7, <2>5, <3>1 DEF AfterProbe
  <2> QED
    BY <1>6, <1>11, <2>1, <2>3, <2>4, <2>5
<1>12. job.name \notin {"loop", "scanned"}
  BY <1>4, NameFacts
<1> QED
  BY <1>2, <1>3, <1>5, <1>6, <1>7, <1>9, <1>10, <1>11, <1>12 DEF ScanProgress

-----------------------------------------------------------------------------
(***************************************************************************)
(* low_access.                                                             *)
(***************************************************************************)
LEMMA SessionHead ==
    ASSUME IInv, todo # <<>>, job.name \in SessionJobs
    PROVE  /\ kind \notin {"reset", "targetsel", "error"} => sel \in {job.d, Nobody}
           /\ kind \notin Recovery \cup {"error", "clear"} => Explained(job.d)
<1>1. /\ OnPort(job.d) \/ Selecting(todo, job.d)
      /\ Explained(job.d) \/ Recovering(todo)
  BY DEF IInv, Session
<1>2. kind = todo[1][1]
  BY HeadFacts
<1>3. kind \notin {"reset", "targetsel", "error"} => ~Selecting(todo, job.d)
  BY <1>2 DEF Selecting, NextIs
<1>4. kind \notin Recovery \cup {"error", "clear"} => ~Recovering(todo)
  BY <1>2 DEF Recovering, NextIs
<1> QED
  BY <1>1, <1>3, <1>4 DEF OnPort

LEMMA AnsweredFacts ==
    ASSUME kind \in Answered
    PROVE  /\ kind \notin {"reset", "targetsel", "error", "clear", "probed", "release"}
           /\ kind \notin Always => kind \notin Recovery
           /\ kind \in ApAccess => kind \notin Always /\ kind # "select"
           /\ kind \in Transactions => kind \in ApAccess
           /\ kind \notin {"ctrlstat", "abort"} => kind \notin {"ctrlstat", "abort", "clear"}
BY DEF Answered, Always, ApAccess, Transactions, Recovery

LEMMA SkipIInv ==
    ASSUME IInv, Skip
    PROVE  IInv'
<1>1. PICK l : l = (job.late \/ dp \in late)
  OBVIOUS
<1>2. /\ todo # <<>> /\ todo' = Tail(todo) /\ kind \in ApAccess /\ fault[dp]
      /\ job' = [job EXCEPT !.bad = TRUE, !.late = l]
      /\ UNCHANGED <<chip, sel, sticky, busy, core, rdbuf, trouble>>
      /\ UNCHANGED <<fault, list, cur, wait, scan, reply, wrong, late>>
  BY <1>1 DEF Skip, Step, bus
<1>3. job \in Jobs /\ l \in BOOLEAN /\ scan \in [next : 0..NrDps, trouble : BOOLEAN]
  BY <1>1 DEF IInv, Types, Jobs
<1>4. /\ job' \in Jobs /\ job'.name = job.name /\ job'.d = job.d
      /\ job'.bad = TRUE /\ job'.late = l /\ job'.err = job.err
  BY <1>2, <1>3 DEF Jobs
<1>5. Advance
  BY <1>2, <1>3, <1>4 DEF Advance
<1>6. TypeOK'
  BY <1>2 DEF IInv, Types, TypeOK
<1>7. Types' /\ Control'
  BY <1>5, <1>6, AdvanceControl
<1>8. /\ kind \in Answered /\ kind \notin {"ctrlstat", "abort"}
      /\ kind \notin {"reset", "targetsel", "error", "clear", "idcode"} /\ kind \notin Recovery
  BY <1>2 DEF ApAccess, Answered, Transactions, Recovery
<1>9. Scan'
  <2>1. job.name \notin {"first", "old"}
    BY <1>2, <1>8, HeadOfScan DEF ScanJobs
  <2> QED
    BY <1>5, <2>1, AdvanceScan
<1>10. Session' /\ Between'
  <2>1. Explained(job.d)' = Explained(job.d)
    BY <1>2, <1>4 DEF Explained
  <2> QED
    BY <1>2, <1>5, <1>8, <2>1, AdvanceSession
<1>11. MemPacket'
  <2>1. ASSUME job.name = "mem" PROVE sticky[job.d] \/ l
    <3>1. job.name \in SessionJobs
      BY <2>1 DEF SessionJobs
    <3>2. Explained(job.d) /\ dp = job.d
      BY <1>2, <1>8, <3>1, SessionHead, HeadOfSession
    <3> QED
      BY <1>1, <1>2, <3>2 DEF Explained
  <2> QED
    BY <1>2, <1>4, <1>5, <1>8, <2>1, AdvanceMem
<1>12. ScanProgress'
  <2>1. dp \in Ports
    BY <1>2, HeadFacts
  <2>2. job.name \in ScanJobs => scan.trouble
    BY <1>2, <2>1, NameFacts DEF IInv, ScanProgress, Quiet
  <2> QED
    BY <1>2, <1>5, <2>2, AdvanceProgress
<1> QED
  BY <1>2, <1>7, <1>9, <1>10, <1>11, <1>12 DEF IInv, ReportIsExact

LEMMA AccessFacts ==
    ASSUME IInv, Access, sel # Nobody
    PROVE  /\ todo # <<>> /\ sel \in DPs /\ dp \in Ports /\ kind \in Answered
           /\ kind \notin {"reset", "targetsel", "error", "clear", "probed", "release"}
           /\ job.name \in SessionJobs => sel = job.d /\ dp = job.d /\ job.d \in DPs
           /\ job.name \in SessionJobs /\ kind \notin Always => Explained(job.d)
           /\ job.name \in SessionJobs \cup ScanJobs
<1>1. todo # <<>> /\ kind \in Answered
  BY DEF Access
<1>2. /\ kind \notin {"reset", "targetsel", "error", "clear", "probed", "release"}
      /\ kind \notin Always => kind \notin Recovery
  BY <1>1, AnsweredFacts
<1>3. sel \in DPs
  BY DEF IInv, Types, TypeOK
<1>4. dp \in Ports /\ job.name \in SessionJobs \cup ScanJobs
  BY <1>1, HeadFacts
<1>5. job.name \in SessionJobs => sel = job.d /\ dp = job.d /\ job.d \in DPs
  BY <1>1, <1>2, SessionHead, HeadOfSession
<1>6. job.name \in SessionJobs /\ kind \notin Always => Explained(job.d)
  BY <1>1, <1>2, SessionHead
<1> QED
  BY <1>1, <1>2, <1>3, <1>4, <1>5, <1>6

LEMMA AckFaultIInv ==
    ASSUME IInv, AckFault
    PROVE  IInv'
<1>1. /\ todo # <<>> /\ todo' = Tail(todo) /\ kind \notin Always
      /\ Access /\ sel # Nobody /\ sticky[sel]
      /\ fault' = [fault EXCEPT ![dp] = TRUE]
      /\ job' = [job EXCEPT !.bad = TRUE]
      /\ UNCHANGED <<chip, sel, sticky, busy, core, rdbuf, trouble>>
      /\ UNCHANGED <<list, cur, wait, scan, reply, wrong, late>>
  BY DEF AckFault, Step, bus
<1>2. /\ sel \in DPs /\ dp \in Ports /\ kind \in Answered
      /\ kind \notin {"reset", "targetsel", "error", "clear", "probed", "release"}
      /\ job.name \in SessionJobs => sel = job.d /\ dp = job.d /\ job.d \in DPs
  BY <1>1, AccessFacts
<1>3. job \in Jobs /\ scan \in [next : 0..NrDps, trouble : BOOLEAN] /\ TypeOK
  BY DEF IInv, Types
<1>4. /\ job' \in Jobs /\ job'.name = job.name /\ job'.d = job.d
      /\ job'.bad = TRUE /\ job'.late = job.late /\ job'.err = job.err
  BY <1>1, <1>3 DEF Jobs
<1>5. Advance
  BY <1>1, <1>3, <1>4 DEF Advance
<1>6. TypeOK'
  BY <1>1, <1>2, <1>3 DEF TypeOK, Ports
<1>7. Types' /\ Control'
  BY <1>5, <1>6, AdvanceControl
<1>8. Scan'
  BY <1>1, <1>5, AdvanceScan
<1>9. Session' /\ Between'
  <2>1. job.name \in SessionJobs => Explained(job.d)'
    BY <1>1, <1>2, <1>4 DEF Explained
  <2> QED
    BY <1>1, <1>2, <1>5, <2>1, AdvanceSession
<1>10. MemPacket'
  <2>1. job.name = "mem" => sticky[job.d]
    BY <1>1, <1>2 DEF SessionJobs
  <2>2. kind \notin {"ctrlstat", "abort", "clear"}
    BY <1>1, <1>2 DEF Always
  <2> QED
    BY <1>1, <1>2, <1>4, <1>5, <2>1, <2>2, AdvanceMem
<1>11. ScanProgress'
  <2>1. job.name \in ScanJobs => scan.trouble
    BY <1>1, <1>2, NameFacts DEF IInv, ScanProgress, Quiet
  <2> QED
    BY <1>1, <1>5, <2>1, AdvanceProgress
<1> QED
  BY <1>1, <1>7, <1>8, <1>9, <1>10, <1>11 DEF IInv, ReportIsExact

\* What is common to the ways an access is acknowledged.
Acknowledged ==
    /\ Access /\ sel # Nobody
    /\ todo # <<>> /\ todo' = Tail(todo)
    /\ UNCHANGED <<chip, sel, fault, list, cur, wait, reply, late>>
    /\ wrong' = (wrong \/ (job.name \notin ScanJobs /\ sel # dp))

LEMMA AcknowledgedIInv ==
    ASSUME IInv, Acknowledged,
           job' \in Jobs, job'.name = job.name, job'.d = job.d,
           scan' \in [next : 0..NrDps, trouble : BOOLEAN], scan'.next = scan.next,
           TypeOK',
           job.name \in SessionJobs => (sticky[sel] => sticky'[sel] \/ kind = "abort"),
           job.name = "mem" =>
               /\ job'.err => job'.bad
               /\ kind \notin {"ctrlstat", "abort"} =>
                     /\ job'.bad => sticky'[job.d] \/ job'.late
                     /\ sticky'[job.d] => job'.bad
               /\ kind \in {"ctrlstat", "abort"} =>
                     /\ job'.bad => job'.err \/ job'.late
                     /\ busy'[job.d] # "no" => job'.late,
           job.name \in ScanJobs /\ ~scan'.trouble => ~scan.trouble /\ Quiet' /\ CoreStep
    PROVE  IInv'
<1>1. /\ Access /\ sel # Nobody /\ todo # <<>> /\ todo' = Tail(todo)
      /\ UNCHANGED <<chip, sel, fault, list, cur, wait, reply, late>>
      /\ wrong' = (wrong \/ (job.name \notin ScanJobs /\ sel # dp))
  BY DEF Acknowledged
<1>2. /\ sel \in DPs /\ dp \in Ports /\ kind \in Answered
      /\ kind \notin {"reset", "targetsel", "error", "clear", "probed", "release"}
      /\ job.name \in SessionJobs => sel = job.d /\ dp = job.d /\ job.d \in DPs
      /\ job.name \in SessionJobs \cup ScanJobs
  BY <1>1, AccessFacts
<1>3. Advance
  BY <1>1 DEF Advance
<1>4. Types' /\ Control'
  BY <1>3, AdvanceControl
<1>5. Scan'
  BY <1>1, <1>3, AdvanceScan
<1>6. Session' /\ Between'
  <2>1. job.name \in SessionJobs /\ Explained(job.d) => Explained(job.d)' \/ kind = "abort"
    BY <1>1, <1>2 DEF Explained
  <2> QED
    BY <1>1, <1>2, <1>3, <2>1, AdvanceSession
<1>7. MemPacket'
  BY <1>2, <1>3, AdvanceMem
<1>8. ScanProgress'
  BY <1>1, <1>2, <1>3, AdvanceProgress
<1>9. ~wrong'
  BY <1>1, <1>2 DEF IInv
<1> QED
  BY <1>1, <1>4, <1>5, <1>6, <1>7, <1>8, <1>9 DEF IInv, ReportIsExact

LEMMA AckOkIInv ==
    ASSUME IInv, AckOk
    PROVE  IInv'
<1>1. Acknowledged
  BY DEF AckOk, Acknowledged, Step
<1>2. /\ sel \in DPs /\ dp \in Ports /\ kind \in Answered /\ todo # <<>>
      /\ job.name \in SessionJobs => sel = job.d /\ dp = job.d /\ job.d \in DPs
      /\ job.name \in SessionJobs \cup ScanJobs
      /\ kind \notin {"clear"}
  BY <1>1, AccessFacts DEF Acknowledged
<1>3. /\ job \in Jobs /\ scan \in [next : 0..NrDps, trouble : BOOLEAN] /\ TypeOK
      /\ MaxTrouble \in Nat
  BY SwdAssumption DEF IInv, Types
<1>4. /\ UNCHANGED <<chip, sel, fault, list, cur, wait, reply, late>>
      /\ wrong' \in BOOLEAN
      /\ kind \in Always \/ (busy[sel] = "no" /\ ~sticky[sel])
  BY DEF AckOk
<1>5. job.name = "mem" => job.name \in SessionJobs
  BY DEF SessionJobs
<1>6. job.name \in ScanJobs /\ ~scan.trouble => Quiet
  BY NameFacts DEF IInv, ScanProgress
<1>7. kind \in Transactions => kind \notin {"ctrlstat", "abort", "clear", "select"}
  BY DEF Transactions
<1>8. CASE /\ kind \in Transactions /\ Done(sel, kind)
           /\ UNCHANGED <<sticky, busy, trouble, job, scan>>
  <2>1. TypeOK' /\ CoreStep
    BY <1>2, <1>3, <1>4, <1>8 DEF TypeOK, Done, CoreStep
  <2>2. job.name \in ScanJobs /\ ~scan'.trouble => ~scan.trouble /\ Quiet' /\ CoreStep
    BY <1>4, <1>6, <1>8, <2>1 DEF Quiet
  <2>3. job.name = "mem" =>
            /\ job'.err => job'.bad
            /\ job'.bad => sticky'[job.d] \/ job'.late
            /\ sticky'[job.d] => job'.bad
    BY <1>2, <1>7, <1>8, MemNow
  <2> QED
    BY <1>1, <1>3, <1>7, <1>8, <2>1, <2>2, <2>3, AcknowledgedIInv
<1>9. CASE /\ kind \in Transactions /\ Trouble
           /\ sticky' = [sticky EXCEPT ![sel] = TRUE]
           /\ job' = [job EXCEPT !.bad = TRUE] /\ scan' = [scan EXCEPT !.trouble = TRUE]
           /\ UNCHANGED <<busy, core, rdbuf>>
  <2>1. /\ job' \in Jobs /\ job'.name = job.name /\ job'.d = job.d /\ job'.bad = TRUE
        /\ scan' \in [next : 0..NrDps, trouble : BOOLEAN] /\ scan'.next = scan.next
        /\ scan'.trouble = TRUE /\ sticky'[sel] = TRUE
    BY <1>2, <1>3, <1>9 DEF Jobs, TypeOK
  <2>2. TypeOK'
    BY <1>2, <1>3, <1>4, <1>9, <2>1 DEF TypeOK, Trouble
  <2> QED
    BY <1>1, <1>2, <1>5, <1>7, <1>9, <2>1, <2>2, AcknowledgedIInv
<1>10. CASE /\ kind \in Transactions /\ Trouble
            /\ busy' = [busy EXCEPT ![sel] = kind] /\ scan' = [scan EXCEPT !.trouble = TRUE]
            /\ UNCHANGED <<sticky, core, rdbuf, job>>
  <2>1. /\ scan' \in [next : 0..NrDps, trouble : BOOLEAN] /\ scan'.next = scan.next
        /\ scan'.trouble = TRUE
    BY <1>3, <1>10
  <2>2. TypeOK'
    BY <1>2, <1>3, <1>4, <1>10, <2>1 DEF TypeOK, Trouble
  <2>3. job.name = "mem" =>
            /\ job'.err => job'.bad
            /\ job'.bad => sticky'[job.d] \/ job'.late
            /\ sticky'[job.d] => job'.bad
    BY <1>2, <1>7, <1>10, MemNow
  <2> QED
    BY <1>1, <1>3, <1>7, <1>10, <2>1, <2>2, <2>3, AcknowledgedIInv
<1>11. CASE /\ kind = "abort"
            /\ sticky' = [sticky EXCEPT ![sel] = @ /\ ~job.err]
            /\ UNCHANGED <<busy, core, rdbuf, trouble, job, scan>>
  <2>1. \A d \in DPs : ~sticky[d] => ~sticky'[d]
    BY <1>2, <1>3, <1>11 DEF TypeOK
  <2>2. TypeOK'
    BY <1>2, <1>3, <1>4, <1>11 DEF TypeOK
  <2>3. CoreStep
    BY <1>11 DEF CoreStep
  <2>4. job.name \in ScanJobs /\ ~scan'.trouble => ~scan.trouble /\ Quiet' /\ CoreStep
    BY <1>4, <1>6, <1>11, <2>1, <2>3 DEF Quiet
  <2>5. job.name = "mem" =>
            /\ job'.err => job'.bad
            /\ job'.bad => job'.err \/ job'.late
            /\ busy'[job.d] # "no" => job'.late
    BY <1>2, <1>11, MemNow
  <2> QED
    BY <1>1, <1>3, <1>11, <2>2, <2>4, <2>5, AcknowledgedIInv
<1>12. CASE /\ kind \notin Transactions \cup {"abort"}
            /\ job' = CASE kind = "ctrlstat" ->
                             [job EXCEPT !.err = sticky[sel], !.late = @ \/ busy[sel] # "no"]
                      [] kind = "rdbuff"   -> [job EXCEPT !.val = rdbuf[sel]]
                      [] OTHER             -> job
            /\ UNCHANGED <<sticky, busy, core, rdbuf, trouble, scan>>
  <2>1. TypeOK'
    BY <1>2, <1>3, <1>4, <1>12 DEF TypeOK
  <2>2. CoreStep
    BY <1>12 DEF CoreStep, Transactions
  <2>3. job.name \in ScanJobs /\ ~scan'.trouble => ~scan.trouble /\ Quiet' /\ CoreStep
    BY <1>4, <1>6, <1>12, <2>2 DEF Quiet
  <2>4. CASE kind = "ctrlstat"
    <3>1. PICK l : l = (job.late \/ busy[sel] # "no")
      OBVIOUS
    <3>2. l \in BOOLEAN /\ sticky[sel] \in BOOLEAN
      BY <1>2, <1>3, <3>1 DEF TypeOK, Jobs
    <3>3. job' = [job EXCEPT !.err = sticky[sel], !.late = l]
      BY <1>12, <2>4, <3>1
    <3>4. /\ job' \in Jobs /\ job'.name = job.name /\ job'.d = job.d
          /\ job'.bad = job.bad /\ job'.err = sticky[sel] /\ job'.late = l
      BY <1>3, <3>2, <3>3 DEF Jobs
    <3>5. job.name = "mem" =>
              /\ job'.err => job'.bad
              /\ job'.bad => job'.err \/ job'.late
              /\ busy'[job.d] # "no" => job'.late
      BY <1>2, <1>5, <1>12, <2>4, <3>1, <3>4, MemNow
    <3> QED
      BY <1>1, <1>3, <1>12, <2>1, <2>3, <2>4, <3>4, <3>5, AcknowledgedIInv
  <2>5. CASE kind # "ctrlstat"
    <3>1. job' = [job EXCEPT !.val = rdbuf[sel]] \/ job' = job
      BY <1>12, <2>5
    <3>2. rdbuf[sel] \in {"run", "halt"}
      BY <1>2, <1>3 DEF TypeOK
    <3>3. /\ job' \in Jobs /\ job'.name = job.name /\ job'.d = job.d
          /\ job'.bad = job.bad /\ job'.err = job.err /\ job'.late = job.late
      BY <1>3, <3>1, <3>2 DEF Jobs
    <3>4. job.name = "mem" =>
              /\ job'.err => job'.bad
              /\ job'.bad => sticky'[job.d] \/ job'.late
              /\ sticky'[job.d] => job'.bad
      <4>1. kind = "select" => ~sticky[sel]
        BY <1>4 DEF Always
      <4> QED
        BY <1>2, <1>5, <1>12, <2>5, <3>3, <4>1, MemNow
    <3> QED
      BY <1>1, <1>3, <1>12, <2>1, <2>3, <2>5, <3>3, <3>4, AcknowledgedIInv
  <2> QED
    BY <2>4, <2>5
<1> QED
  BY <1>8, <1>9, <1>10, <1>11, <1>12 DEF AckOk

LEMMA WaitTimeoutIInv ==
    ASSUME IInv, WaitTimeout
    PROVE  IInv'
<1>1. /\ todo # <<>> /\ todo' = Tail(todo) /\ kind \notin Always
      /\ Access /\ sel # Nobody /\ busy[sel] # "no"
      /\ busy' = [busy EXCEPT ![sel] = "no"]
      /\ Done(sel, busy[sel]) \/ UNCHANGED <<core, rdbuf>>
      /\ fault' = [fault EXCEPT ![dp] = TRUE]
      /\ job' = [job EXCEPT !.bad = TRUE, !.late = TRUE]
      /\ late' = late \cup {dp}
      /\ UNCHANGED <<chip, sel, sticky, trouble, list, cur, wait, scan, reply, wrong>>
  BY DEF WaitTimeout, Step
<1>2. /\ sel \in DPs /\ dp \in Ports /\ kind \in Answered
      /\ kind \notin {"reset", "targetsel", "error", "clear", "probed", "release"}
      /\ job.name \in SessionJobs => sel = job.d /\ dp = job.d /\ job.d \in DPs
  BY <1>1, AccessFacts
<1>3. job \in Jobs /\ scan \in [next : 0..NrDps, trouble : BOOLEAN] /\ TypeOK
  BY DEF IInv, Types
<1>4. /\ job' \in Jobs /\ job'.name = job.name /\ job'.d = job.d
      /\ job'.bad = TRUE /\ job'.late = TRUE /\ job'.err = job.err
  BY <1>1, <1>3 DEF Jobs
<1>5. Advance
  BY <1>1, <1>3, <1>4 DEF Advance
<1>6. TypeOK'
  BY <1>1, <1>2, <1>3 DEF TypeOK, Ports, Done
<1>7. Types' /\ Control'
  BY <1>5, <1>6, AdvanceControl
<1>8. Scan'
  BY <1>1, <1>5, AdvanceScan
<1>9. Session' /\ Between'
  <2>1. job.name \in SessionJobs => Explained(job.d)'
    BY <1>1, <1>2, <1>4 DEF Explained
  <2> QED
    BY <1>1, <1>2, <1>5, <2>1, AdvanceSession
<1>10. MemPacket'
  <2>1. kind \notin {"ctrlstat", "abort", "clear"}
    BY <1>1, <1>2 DEF Always
  <2> QED
    BY <1>1, <1>2, <1>4, <1>5, <2>1, AdvanceMem
<1>11. ScanProgress'
  <2>1. job.name \in ScanJobs => scan.trouble
    BY <1>1, <1>2, NameFacts DEF IInv, ScanProgress, Quiet
  <2> QED
    BY <1>1, <1>5, <2>1, AdvanceProgress
<1> QED
  BY <1>1, <1>7, <1>8, <1>9, <1>10, <1>11 DEF IInv, ReportIsExact

LEMMA SettleIInv ==
    ASSUME IInv, Settle
    PROVE  IInv'
<1>1. PICK d \in DPs :
        /\ busy[d] # "no"
        /\ busy' = [busy EXCEPT ![d] = "no"]
        /\ \/ Done(d, busy[d]) /\ UNCHANGED <<sticky, job>>
           \/ /\ sticky' = [sticky EXCEPT ![d] = TRUE]
              /\ job' = [job EXCEPT !.bad = @ \/ job.d = d] /\ UNCHANGED <<core, rdbuf>>
  BY DEF Settle
<1>2. UNCHANGED <<chip, sel, trouble, fault, list, cur, wait, todo, scan, reply, wrong, late>>
  BY DEF Settle
<1>3. job \in Jobs /\ TypeOK
  BY DEF IInv, Types
<1>4. /\ job' \in Jobs /\ job'.name = job.name /\ job'.d = job.d
      /\ job'.err = job.err /\ job'.late = job.late
      /\ job'.bad = job.bad \/ (job.d = d /\ job'.bad /\ sticky'[d])
      /\ sticky'[d] => sticky[d] \/ (job.d = d => job'.bad)
      /\ job.bad => job'.bad
  <2>1. CASE UNCHANGED <<sticky, job>>
    BY <1>3, <2>1
  <2>2. CASE /\ sticky' = [sticky EXCEPT ![d] = TRUE]
             /\ job' = [job EXCEPT !.bad = @ \/ job.d = d]
    <3>1. PICK b : b = (job.bad \/ job.d = d)
      OBVIOUS
    <3>2. b \in BOOLEAN /\ job' = [job EXCEPT !.bad = b]
      BY <1>3, <2>2, <3>1 DEF Jobs
    <3>3. /\ job' \in Jobs /\ job'.name = job.name /\ job'.d = job.d
          /\ job'.err = job.err /\ job'.late = job.late /\ job'.bad = b
      BY <1>3, <3>2 DEF Jobs
    <3>4. sticky'[d] = TRUE
      BY <1>3, <2>2 DEF TypeOK
    <3>5. job.bad \in BOOLEAN
      BY <1>3 DEF Jobs
    <3> QED
      BY <3>1, <3>3, <3>4, <3>5
  <2> QED
    BY <1>1, <2>1, <2>2
<1>5. \A e \in DPs : (sticky[e] => sticky'[e]) /\ (e # d => sticky'[e] = sticky[e])
  BY <1>1, <1>3 DEF TypeOK
<1>6. \A e \in DPs : busy'[e] # "no" => busy[e] # "no"
  BY <1>1, <1>3 DEF TypeOK
<1>7. TypeOK'
  BY <1>1, <1>2, <1>3 DEF TypeOK, Done
<1>8. Types'
  BY <1>2, <1>4, <1>7 DEF IInv, Types
<1>9. job.name = "idle" => job' = job
  <2>1. ASSUME job = Idle PROVE job' = job
    <3>1. job.d = Nobody /\ job.d # d /\ job.bad = FALSE
      BY <2>1, ConstantFacts DEF Idle
    <3>2. [job EXCEPT !.bad = FALSE] = job
      BY <1>3, <3>1 DEF Jobs
    <3> QED
      BY <1>1, <3>1, <3>2
  <2> QED
    BY <2>1 DEF IInv, Control
<1>10. Control'
  BY <1>2, <1>4, <1>9 DEF IInv, Control
<1>11. ASSUME NEW e \in DPs, Explained(e) PROVE Explained(e)'
  BY <1>2, <1>5, <1>11 DEF Explained
<1>12. Session'
  <2>1. ASSUME job.name \in SessionJobs
        PROVE  /\ job.d \in DPs
               /\ job.name # "attach" => job.d = cur
               /\ Among(todo, SessionKinds \X {job.d})
               /\ Chained(todo, Recovery)
               /\ OnPort(job.d) \/ Selecting(todo, job.d)
               /\ Explained(job.d) \/ Recovering(todo)
    BY <2>1 DEF IInv, Session
  <2>2. job.name \in SessionJobs => Explained(job.d)' \/ Recovering(todo)
    BY <2>1, <1>11, <1>4 DEF Explained
  <2> QED
    BY <1>2, <1>4, <2>1, <2>2 DEF Session, OnPort, Selecting, Explained
<1>13. Between'
  BY <1>2, <1>4, <1>11 DEF IInv, Between, OnPort, Explained, Types, TypeOK
<1>14. MemPacket'
  <2>1. ASSUME job.name = "mem"
        PROVE  /\ job'.err => job'.bad
               /\ ~Checked(todo) =>
                     /\ job'.bad => sticky'[job.d] \/ job'.late
                     /\ sticky'[job.d] => job'.bad \/ NextIs(todo, {"select"})
               /\ Checked(todo) =>
                     /\ job'.bad => job'.err \/ job'.late
                     /\ busy'[job.d] # "no" => job'.late
    <3>1. job.d \in DPs
      BY <2>1 DEF IInv, Session, SessionJobs
    <3>2. /\ job.err => job.bad
          /\ ~Checked(todo) =>
                /\ job.bad => sticky[job.d] \/ job.late
                /\ sticky[job.d] => job.bad \/ NextIs(todo, {"select"})
          /\ Checked(todo) =>
                /\ job.bad => job.err \/ job.late
                /\ busy[job.d] # "no" => job.late
      BY <2>1 DEF IInv, MemPacket
    <3> QED
      BY <1>1, <1>4, <1>5, <1>6, <3>1, <3>2
  <2> QED
    BY <1>2, <1>4, <2>1 DEF MemPacket, IInv
<1>15. Scan'
  BY <1>2, <1>4 DEF IInv, Scan
<1>16. ScanProgress'
  BY <1>1, <1>2, <1>4 DEF IInv, ScanProgress, Quiet
<1> QED
  BY <1>2, <1>8, <1>10, <1>12, <1>13, <1>14, <1>15, <1>16 DEF IInv, ReportIsExact

-----------------------------------------------------------------------------
(***************************************************************************)
(* The steps without an answer.                                            *)
(***************************************************************************)
LEMMA SilentFacts ==
    ASSUME IInv, todo # <<>>, kind \in {"reset", "targetsel"}
    PROVE  /\ job.name \in SessionJobs => dp = job.d
           /\ kind = "targetsel" /\ ~chip.v2 => dp = 0
           /\ ~chip.v2 => chip.dps = {0}
           /\ chip.dps \subseteq DPs
           /\ kind \notin Answered
           /\ job.name = "mem" =>
                 /\ job.err => job.bad
                 /\ job.bad => sticky[job.d] \/ job.late
                 /\ sticky[job.d] => job.bad
<1>1. job.name \in SessionJobs \cup ScanJobs /\ todo[1] = <<kind, dp>> /\ todo \in Seq(Entries)
  BY HeadFacts DEF IInv, Types
<1>2. job.name \in SessionJobs => dp = job.d /\ job.d \in DPs
  BY HeadOfSession
<1>3. ASSUME kind = "targetsel", ~chip.v2 PROVE dp = 0
  <2>1. Among(todo, Kinds \X {0, Initial})
    BY <1>3 DEF IInv, Control
  <2>2. todo[1] \in Kinds \X {0, Initial}
    BY <1>1, <2>1, TailAmong
  <2>3. dp \in {0, Initial}
    BY <1>1, <2>2
  <2>4. CASE job.name \in SessionJobs
    BY <1>2, <2>3, <2>4, ConstantFacts
  <2>5. CASE job.name \in ScanJobs
    <3>1. job.name = "init"
      BY <1>3, <2>5, HeadOfScan DEF IInv, Scan, ScanJobs
    <3>2. dp \in DPs
      BY <2>5, <3>1, HeadOfScan
    <3> QED
      BY <2>3, <3>2, ConstantFacts
  <2> QED
    BY <1>1, <2>4, <2>5
<1>4. chip.dps \subseteq DPs /\ (~chip.v2 => chip.dps = {0})
  BY BelowFacts
<1>5. kind \notin Answered
  BY DEF Answered, Always, ApAccess, Transactions
<1> QED
  BY <1>2, <1>3, <1>4, <1>5, MemNow

LEMMA SilentIInv ==
    ASSUME IInv, todo # <<>>, todo' = Tail(todo), kind \in {"reset", "targetsel"},
           UNCHANGED <<chip, sticky, busy, core, rdbuf, trouble, fault, list, cur>>,
           UNCHANGED <<wait, job, scan, reply, wrong, late>>,
           sel' \in chip.dps \cup {Nobody},
           ~chip.v2 => sel' = 0,
           kind = "targetsel" => sel' = IF dp \in chip.dps THEN dp ELSE Nobody
    PROVE  IInv'
<1>1. job \in Jobs /\ scan \in [next : 0..NrDps, trouble : BOOLEAN] /\ TypeOK
  BY DEF IInv, Types
<1>2. Advance
  BY <1>1 DEF Advance
<1>3. TypeOK'
  BY <1>1, SilentFacts DEF TypeOK
<1>4. Types' /\ Control'
  BY <1>2, <1>3, AdvanceControl
<1>5. Scan'
  BY <1>2, AdvanceScan
<1>6. Session' /\ Between'
  <2>1. Explained(job.d)' = Explained(job.d)
    BY DEF Explained
  <2>2. job.name \in SessionJobs /\ kind = "targetsel" => sel' \in {job.d, Nobody}
    BY SilentFacts
  <2> QED
    BY <1>2, <2>1, <2>2, AdvanceSession
<1>7. MemPacket'
  BY <1>2, SilentFacts, AdvanceMem
<1>8. ScanProgress'
  <2>1. CoreStep
    BY DEF CoreStep
  <2>2. job.name \in ScanJobs /\ ~scan.trouble => Quiet'
    BY NameFacts DEF IInv, ScanProgress, Quiet
  <2> QED
    BY <1>2, <2>1, <2>2, SilentFacts, AdvanceProgress
<1> QED
  BY <1>4, <1>5, <1>6, <1>7, <1>8 DEF IInv, ReportIsExact

LEMMA LineResetIInv ==
    ASSUME IInv, dp_line_reset
    PROVE  IInv'
<1>1. /\ todo # <<>> /\ todo' = Tail(todo) /\ kind = "reset"
      /\ UNCHANGED <<chip, sticky, busy, core, rdbuf, trouble, fault, list, cur>>
      /\ UNCHANGED <<wait, job, scan, reply, wrong, late>>
      /\ sel' \in IF chip.v2 THEN chip.dps \cup {Nobody} ELSE chip.dps
  BY DEF dp_line_reset, Step
<1>2. ~chip.v2 => chip.dps = {0}
  BY <1>1, SilentFacts
<1>3. sel' \in chip.dps \cup {Nobody} /\ (~chip.v2 => sel' = 0)
  BY <1>1, <1>2
<1> QED
  BY <1>1, <1>3, SilentIInv

LEMMA LowWriteIInv ==
    ASSUME IInv, dp_low_write
    PROVE  IInv'
<1>1. /\ todo # <<>> /\ todo' = Tail(todo) /\ kind = "targetsel"
      /\ UNCHANGED <<chip, sticky, busy, core, rdbuf, trouble, fault, list, cur>>
      /\ UNCHANGED <<wait, job, scan, reply, wrong, late>>
      /\ sel' = IF dp \in chip.dps THEN dp ELSE Nobody
  BY DEF dp_low_write, Step
<1>2. ~chip.v2 => chip.dps = {0} /\ dp = 0
  BY <1>1, SilentFacts
<1>3. sel' \in chip.dps \cup {Nobody} /\ (~chip.v2 => sel' = 0)
  BY <1>1, <1>2
<1> QED
  BY <1>1, <1>3, SilentIInv

LEMMA ClearIInv ==
    ASSUME IInv, Clear
    PROVE  IInv'
<1>1. /\ todo # <<>> /\ todo' = Tail(todo) /\ kind = "clear"
      /\ fault' = [fault EXCEPT ![dp] = FALSE] /\ late' = late \ {dp}
      /\ UNCHANGED <<chip, sel, sticky, busy, core, rdbuf, trouble>>
      /\ UNCHANGED <<list, cur, wait, job, scan, reply, wrong>>
  BY DEF Clear, Step, bus
<1>2. job \in Jobs /\ scan \in [next : 0..NrDps, trouble : BOOLEAN] /\ TypeOK
  BY DEF IInv, Types
<1>3. Advance
  BY <1>1, <1>2 DEF Advance
<1>4. TypeOK' /\ dp \in Ports
  BY <1>1, <1>2, HeadFacts DEF TypeOK
<1>5. Types' /\ Control'
  BY <1>3, <1>4, AdvanceControl
<1>6. Scan'
  <2>1. job.name \notin {"first", "old"}
    BY <1>1, HeadOfScan DEF ScanJobs
  <2> QED
    BY <1>3, <2>1, AdvanceScan
<1>7. Session' /\ Between'
  <2>1. job.name \in SessionJobs => ~fault'[job.d] /\ Explained(job.d)'
    BY <1>1, <1>2, HeadOfSession, ConstantFacts DEF TypeOK, Explained, Ports
  <2> QED
    BY <1>1, <1>3, <2>1, AdvanceSession
<1>8. MemPacket'
  BY <1>1, <1>3, MemNow, AdvanceMem
<1>9. ScanProgress'
  <2>1. CoreStep
    BY <1>1 DEF CoreStep
  <2>2. job.name \in ScanJobs /\ ~scan.trouble => Quiet'
    BY <1>1, <1>2, <1>4, NameFacts DEF IInv, ScanProgress, Quiet, TypeOK, Ports
  <2>3. kind \notin Answered
    BY <1>1 DEF Answered, Always, ApAccess, Transactions
  <2> QED
    BY <1>1, <1>3, <2>1, <2>2, <2>3, AdvanceProgress
<1> QED
  BY <1>1, <1>5, <1>6, <1>7, <1>8, <1>9 DEF IInv, ReportIsExact

-----------------------------------------------------------------------------
(***************************************************************************)
(* Exceptions.                                                             *)
(***************************************************************************)
LEMMA JobFacts ==
    ASSUME NEW n \in {"idle"} \cup SessionJobs \cup ScanPhases, NEW d \in Ports \cup {Nobody}
    PROVE  /\ Job(n, d) \in Jobs /\ Job(n, d).name = n /\ Job(n, d).d = d
           /\ Job(n, d).bad = FALSE /\ Job(n, d).late = FALSE /\ Job(n, d).err = FALSE
BY DEF Job, Idle, Jobs

LEMMA PhaseFacts ==
    /\ "loop" \in ScanPhases /\ "scanned" \in ScanPhases
    /\ Job("loop", Nobody) \in Jobs /\ Job("loop", Nobody).name = "loop"
    /\ Job("loop", Nobody).d = Nobody
    /\ Job("scanned", Nobody) \in Jobs /\ Job("scanned", Nobody).name = "scanned"
    /\ Job("scanned", Nobody).d = Nobody
<1>1. "loop" \in ScanPhases /\ "scanned" \in ScanPhases
  BY DEF ScanPhases
<1>2. Nobody \in Ports \cup {Nobody}
  OBVIOUS
<1> QED
  BY <1>1, <1>2, JobFacts

LEMMA IdleFacts == Idle \in Jobs /\ Idle.name = "idle" /\ Idle.d = Nobody
BY DEF Idle, Jobs

LEMMA NoAccess ==
    /\ \A S : <<>> \in Seq(S)
    /\ \A A : Among(<<>>, A)
    /\ \A K : Chained(<<>>, K) /\ ~NextIs(<<>>, K)
<1>1. Len(<<>>) = 0
  OBVIOUS
<1>2. 1..0 = {}
  OBVIOUS
<1>3. \A S : <<>> \in Seq(S)
  OBVIOUS
<1> QED
  BY <1>1, <1>2, <1>3 DEF Among, Chained, NextIs

\* A step of the scan; and the end of everything.
LEMMA ScanStepIInv ==
    ASSUME IInv, job'.name \in ScanPhases, Types', Control', Scan', ScanProgress',
           UNCHANGED <<reply, wrong>>
    PROVE  IInv'
<1>1. job'.name \notin SessionJobs /\ job'.name # "idle" /\ job'.name # "mem"
  BY DEF SessionJobs, ScanPhases, ScanJobs
<1>2. Session' /\ Between' /\ MemPacket'
  BY <1>1 DEF Session, Between, MemPacket
<1> QED
  BY <1>2 DEF IInv, ReportIsExact

LEMMA EndIInv ==
    ASSUME IInv, Types', job' = Idle, todo' = <<>>, list' = <<>>, cur' = Nobody, wait' = "no",
           UNCHANGED <<chip, reply, wrong>>, ~chip.v2 => sel' \in {0, Nobody}
    PROVE  IInv'
<1>1. job'.name = "idle" /\ job'.d = Nobody
  BY IdleFacts
<1>2. job'.name \notin SessionJobs /\ job'.name \notin ScanPhases
  BY <1>1, NameFacts
<1>3. Control'
  BY <1>1, <1>2, NoAccess DEF Control
<1>4. Session' /\ Between' /\ MemPacket'
  BY <1>1, <1>2 DEF Session, Between, MemPacket
<1>5. Scan' /\ ScanProgress'
  BY <1>1, <1>2 DEF Scan, ScanProgress
<1> QED
  BY <1>3, <1>4, <1>5 DEF IInv, ReportIsExact

LEMMA InitialReset ==
    ASSUME NEW r, r = For(Initial, <<"reset", "idcode">>)
    PROVE  /\ r \in Seq(Entries) /\ NextIs(r, {"reset"})
           /\ Among(r, {"reset", "idcode"} \X {Initial})
           /\ Among(r, Kinds \X {0, Initial})
<1>1. PICK k : k = <<"reset", "idcode">>
  OBVIOUS
<1>2. k \in Seq({"reset", "idcode"}) /\ Len(k) = 2 /\ k[1] = "reset"
  BY <1>1
<1>3. /\ r \in Seq({"reset", "idcode"} \X {Initial}) /\ Len(r) = 2
      /\ \A i \in 1..2 : r[i] = <<k[i], Initial>>
      /\ Among(r, {"reset", "idcode"} \X {Initial})
  BY <1>1, <1>2, ForFacts
<1>4. {"reset", "idcode"} \subseteq Kinds
  BY DEF Kinds, Answered, Always
<1>5. /\ {"reset", "idcode"} \X {Initial} \subseteq Entries
      /\ {"reset", "idcode"} \X {Initial} \subseteq Kinds \X {0, Initial}
  BY <1>4 DEF Entries, Ports
<1>6. r \in Seq(Entries)
  BY <1>3, <1>5, SeqMonotonic
<1>7. NextIs(r, {"reset"})
  BY <1>2, <1>3 DEF NextIs
<1> QED
  BY <1>3, <1>5, <1>6, <1>7, AmongMore

LEMMA RaisedIInv ==
    ASSUME IInv, NEW f \in [Ports -> BOOLEAN], NEW noise \in BOOLEAN,
           Access, Raised(f, noise),
           UNCHANGED <<chip, sticky, busy, core, rdbuf, reply, wrong, late>>,
           trouble' \in 0..MaxTrouble, sel' \in {sel, Nobody}, ~chip.v2 => sel' = sel,
           ~noise => f = fault /\ sel = Nobody,
           \A p \in Ports : p # dp => f[p] = fault[p]
    PROVE  IInv'
<1>1. /\ TypeOK /\ chip \in Chips /\ job \in Jobs
      /\ scan \in [next : 0..NrDps, trouble : BOOLEAN]
  BY DEF IInv, Types
<1>2. todo # <<>> /\ kind \in Answered
  BY DEF Access
<1>3. /\ job.name \in SessionJobs \cup ScanJobs /\ dp \in Ports
      /\ kind = todo[1][1]
  BY <1>2, HeadFacts
<1>4. ~chip.v2 => sel' \in {0, Nobody}
  BY DEF IInv, Control
<1>5. job.name \in ScanJobs => cur = Nobody /\ wait = "no"
  BY NameFacts DEF IInv, Control
<1>6. ~chip.v2 => Among(list, {0})
  BY DEF IInv, Control
<1>7. Below(scan.next)' = {d \in chip.dps : d < scan'.next}
  BY DEF Below
<1>8. CASE job.name = "first" /\ OldSequence(f) /\ UNCHANGED <<list, cur, wait, scan>>
  <2>1. PICK r : r = For(Initial, <<"reset", "idcode">>)
    OBVIOUS
  <2>2. /\ job' = Job("old", Initial) /\ todo' = r
        /\ fault' = [f EXCEPT ![Initial] = FALSE]
        /\ UNCHANGED <<list, cur, wait, scan>>
    BY <1>8, <2>1 DEF OldSequence
  <2>3. /\ r \in Seq(Entries) /\ NextIs(r, {"reset"})
        /\ Among(r, {"reset", "idcode"} \X {Initial}) /\ Among(r, Kinds \X {0, Initial})
    BY <2>1, InitialReset
  <2>4. "first" \in ScanJobs /\ "old" \in ScanPhases
    BY DEF ScanPhases, ScanJobs
  <2>5. job' \in Jobs /\ job'.name = "old" /\ job'.d = Initial
    BY <2>2, <2>4, JobFacts, ConstantFacts
  <2>6. Types'
    BY <1>1, <2>2, <2>3, <2>5 DEF Types, TypeOK, Ports
  <2>7. Control'
    BY <1>4, <1>5, <1>6, <1>8, <2>2, <2>3, <2>5, <2>4 DEF Control
  <2>8. Scan'
    BY <1>8, <2>2, <2>3, <2>5 DEF IInv, Scan
  <2>9. ScanProgress'
    <3>1. ASSUME ~scan.trouble
          PROVE  Quiet /\ Running(Below(scan.next))
      BY <1>8, <2>4, <3>1, NameFacts DEF IInv, ScanProgress
    <3>2. dp = Initial
      BY <1>2, <1>8, <2>4, HeadOfScan
    <3>3. ASSUME ~scan.trouble PROVE \A p \in Ports : ~fault'[p]
      BY <2>2, <3>1, <3>2, <3>3 DEF Quiet
    <3>4. ASSUME ~scan.trouble PROVE Quiet' /\ Running(Below(scan.next))'
      BY <2>2, <3>1, <3>3, <3>4 DEF Quiet, Running, Below
    <3> QED
      BY <2>2, <2>5, <3>4 DEF ScanProgress
  <2> QED
    BY <2>5, <2>4, <2>6, <2>7, <2>8, <2>9, ScanStepIInv
<1>9. CASE /\ job.name = "pick" /\ fault' = f
           /\ job' = Job("loop", Nobody) /\ todo' = <<>>
           /\ scan' = [next |-> scan.next + 1, trouble |-> scan.trouble \/ noise]
           /\ UNCHANGED <<list, cur, wait>>
  <2>1. "pick" \in ScanJobs /\ "loop" \in ScanPhases
    BY DEF ScanPhases, ScanJobs
  <2>2. job' \in Jobs /\ job'.name = "loop" /\ job'.d = Nobody
    BY <1>9, PhaseFacts
  <2>3. chip.v2 /\ scan.next \in DPs /\ job.d = scan.next
    BY <1>9 DEF IInv, Scan
  <2>4. /\ scan' \in [next : 0..NrDps, trouble : BOOLEAN]
        /\ scan'.next = scan.next + 1 /\ scan'.trouble = (scan.trouble \/ noise)
    BY <1>1, <1>9, <2>3, ConstantFacts
  <2>5. Types'
    BY <1>1, <1>9, <2>2, <2>4, NoAccess DEF Types, TypeOK, Ports
  <2>6. Control'
    BY <1>5, <1>9, <2>2, <2>1, <2>3, NoAccess DEF Control
  <2>7. Scan'
    BY <2>2, <2>3 DEF Scan
  <2>8. ScanProgress'
    <3> SUFFICES ASSUME ~scan'.trouble PROVE ScanProgress'
      BY DEF ScanProgress
    <3>1. ~scan.trouble /\ f = fault /\ sel = Nobody
      BY <2>4
    <3>2. kind = "idcode"
      BY <1>2, <1>9, <2>1, HeadOfScan, AnsweredFacts
    <3>3. /\ Quiet /\ Range(list) = Below(scan.next) /\ Running(Below(scan.next))
          /\ NextIs(todo, {"idcode"}) => sel = IF job.d \in chip.dps THEN job.d ELSE Nobody
      BY <1>9, <2>1, <3>1, NameFacts DEF IInv, ScanProgress
    <3>4. scan.next \notin chip.dps
      BY <1>2, <1>3, <2>3, <3>1, <3>2, <3>3, ConstantFacts DEF NextIs
    <3>5. Below(scan.next + 1) = Below(scan.next)
      BY <2>3, <3>4, BelowFacts
    <3>6. Below(scan.next)' = Below(scan.next)
      BY <1>7, <2>4, <3>5 DEF Below
    <3>7. Quiet' /\ Running(Below(scan.next))'
      BY <1>9, <3>1, <3>3, <3>6 DEF Quiet, Running
    <3> QED
      BY <1>9, <2>2, <3>3, <3>6, <3>7 DEF ScanProgress
  <2> QED
    BY <2>2, <2>1, <2>5, <2>6, <2>7, <2>8, ScanStepIInv
<1>10. CASE /\ job.name \in {"old", "id", "init"} /\ fault' = f
            /\ Scanned(TRUE) /\ UNCHANGED <<list, cur, wait>>
  <2>1. /\ job' = Job("scanned", Nobody) /\ todo' = <<>>
        /\ scan' = [scan EXCEPT !.trouble = TRUE]
    BY <1>1, <1>10 DEF Scanned
  <2>2. job.name \in ScanJobs /\ "scanned" \in ScanPhases
    BY <1>10 DEF ScanPhases, ScanJobs
  <2>3. job' \in Jobs /\ job'.name = "scanned" /\ job'.d = Nobody
    BY <2>1, PhaseFacts
  <2>4. scan' \in [next : 0..NrDps, trouble : BOOLEAN] /\ scan'.trouble = TRUE
    BY <1>1, <2>1
  <2>5. Types'
    BY <1>1, <1>10, <2>1, <2>3, <2>4, NoAccess DEF Types, TypeOK, Ports
  <2>6. Control'
    BY <1>4, <1>5, <1>6, <1>10, <2>1, <2>3, <2>2, NoAccess DEF Control
  <2>7. Scan' /\ ScanProgress'
    BY <2>3, <2>4 DEF Scan, ScanProgress
  <2> QED
    BY <2>3, <2>2, <2>5, <2>6, <2>7, ScanStepIInv
<1>11. CASE /\ job.name \notin ScanJobs /\ fault' = f
            /\ job' = Idle /\ todo' = <<>> /\ list' = <<>> /\ cur' = Nobody /\ wait' = "no"
            /\ UNCHANGED scan
  <2>1. Types'
    BY <1>1, <1>11, IdleFacts, NoAccess DEF Types, TypeOK, Ports
  <2> QED
    BY <1>4, <1>11, <2>1, EndIInv
<1> QED
  BY <1>8, <1>9, <1>10, <1>11 DEF Raised

LEMMA InvalidAckIInv ==
    ASSUME IInv, InvalidAck
    PROVE  IInv'
<1>1. /\ Access /\ Raised(fault, sel # Nobody)
      /\ UNCHANGED <<chip, sticky, busy, core, rdbuf, reply, wrong, late>>
  BY DEF InvalidAck
<1>2. trouble' \in 0..MaxTrouble /\ sel' \in {sel, Nobody} /\ (~chip.v2 => sel' = sel)
  BY SwdAssumption DEF InvalidAck, Trouble, IInv, Types, TypeOK
<1>3. fault \in [Ports -> BOOLEAN]
  BY DEF IInv, Types, TypeOK, Ports
<1>4. PICK noise \in BOOLEAN : noise = (sel # Nobody)
  OBVIOUS
<1> QED
  BY <1>1, <1>2, <1>3, <1>4, RaisedIInv

LEMMA ParityErrorIInv ==
    ASSUME IInv, ParityError
    PROVE  IInv'
<1>1. PICK f : f = [fault EXCEPT ![dp] = TRUE]
  OBVIOUS
<1>2. /\ Access /\ Raised(f, TRUE)
      /\ UNCHANGED <<chip, sel, sticky, busy, core, rdbuf, reply, wrong, late>>
  BY <1>1 DEF ParityError
<1>3. trouble' \in 0..MaxTrouble
  BY SwdAssumption DEF ParityError, Trouble, IInv, Types, TypeOK
<1>4. f \in [Ports -> BOOLEAN] /\ \A p \in Ports : p # dp => f[p] = fault[p]
  BY <1>1 DEF IInv, Types, TypeOK, Ports
<1> QED
  BY <1>2, <1>3, <1>4, RaisedIInv

-----------------------------------------------------------------------------
(***************************************************************************)
(* The recovery from an error, and the decisions of adiv5_dp_init.         *)
(***************************************************************************)
\* No access of s is of a kind in K.
Without(s, K) == \A i \in 1..Len(s) : s[i][1] \notin K

LEMMA PrependProbe ==
    ASSUME NEW s \in Seq(Entries), NEW t \in Seq(Entries), NEW u, u = s \o t, NEW d
    PROVE  /\ Without(s, {"probed", "release"}) /\ BeforeProbe(t, d) => BeforeProbe(u, d)
           /\ Without(s, {"probed", "halt"}) /\ AfterProbe(t, d) => AfterProbe(u, d)
<1>1. /\ Len(s) \in Nat /\ Len(t) \in Nat /\ Len(u) = Len(s) + Len(t)
      /\ \A i \in 1..Len(s) : u[i] = s[i] /\ i \in 1..Len(u)
      /\ \A i \in 1..Len(t) : u[Len(s) + i] = t[i] /\ Len(s) + i \in 1..Len(u)
      /\ \A i \in 1..Len(u) : i \in 1..Len(s) \/ i - Len(s) \in 1..Len(t)
  BY ConcatFacts
<1>2. ASSUME NEW i \in 1..Len(u), i \notin 1..Len(s)
      PROVE  i - Len(s) \in 1..Len(t) /\ u[i] = t[i - Len(s)]
  <2>1. PICK j \in 1..Len(t) : j = i - Len(s)
    BY <1>1, <1>2
  <2>2. i = Len(s) + j
    BY <1>1, <2>1
  <2> QED
    BY <1>1, <2>1, <2>2
<1>3. ASSUME NEW k, \E i \in 1..Len(t) : t[i][1] = k
      PROVE  \E i \in 1..Len(u) : u[i][1] = k
  BY <1>1, <1>3
<1>4. ASSUME Without(s, {"probed", "release"}), BeforeProbe(t, d)
      PROVE  BeforeProbe(u, d)
  <2>1. ASSUME NEW i \in 1..Len(u), NEW j \in 1..Len(u), i < j,
               u[i][1] \in {"probed", "release"}
        PROVE  u[j][1] \notin {"probed", "halt"}
    <3>1. i \notin 1..Len(s)
      BY <1>1, <1>4, <2>1 DEF Without
    <3>2. j \notin 1..Len(s)
      BY <1>1, <2>1, <3>1
    <3>3. /\ i - Len(s) \in 1..Len(t) /\ u[i] = t[i - Len(s)]
          /\ j - Len(s) \in 1..Len(t) /\ u[j] = t[j - Len(s)]
      BY <1>2, <3>1, <3>2
    <3>4. i - Len(s) < j - Len(s)
      BY <1>1, <2>1
    <3> QED
      BY <1>4, <2>1, <3>3, <3>4 DEF BeforeProbe
  <2> QED
    BY <1>3, <1>4, <2>1 DEF BeforeProbe
<1>5. ASSUME Without(s, {"probed", "halt"}), AfterProbe(t, d)
      PROVE  AfterProbe(u, d)
  <2>1. ASSUME NEW i \in 1..Len(u) PROVE u[i][1] \notin {"probed", "halt"}
    <3>1. CASE i \in 1..Len(s)
      BY <1>1, <1>5, <3>1 DEF Without
    <3>2. CASE i \notin 1..Len(s)
      BY <1>2, <1>5, <3>2 DEF AfterProbe
    <3> QED
      BY <3>1, <3>2
  <2> QED
    BY <1>3, <1>5, <2>1 DEF AfterProbe
<1> QED
  BY <1>4, <1>5

LEMMA DropProbe ==
    ASSUME NEW s \in Seq(Entries), s # <<>>, NEW t, t = Tail(s), NEW d,
           s[1][1] \notin {"probed", "run"}, BeforeProbe(s, d) \/ AfterProbe(s, d)
    PROVE  BeforeProbe(t, d) \/ AfterProbe(t, d)
<1>1. CASE BeforeProbe(s, d)
  BY <1>1, TailProbe
<1>2. CASE AfterProbe(s, d)
  <2>1. /\ Len(s) \in Nat /\ Len(t) = Len(s) - 1
        /\ \A i \in 1..Len(t) : t[i] = s[i + 1] /\ i + 1 \in 1..Len(s)
    BY TailFacts
  <2>2. \A i \in 1..Len(t) : t[i][1] \notin {"probed", "halt"}
    BY <1>2, <2>1 DEF AfterProbe
  <2>3. ASSUME NEW i \in 1..Len(s), s[i][1] = "run"
        PROVE  \E j \in 1..Len(t) : t[j][1] = "run"
    <3>1. i # 1
      BY <2>3
    <3>2. i - 1 \in 1..Len(t) /\ (i - 1) + 1 = i
      BY <2>1, <3>1
    <3>3. t[i - 1] = s[i]
      BY <2>1, <3>2
    <3> QED
      BY <2>3, <3>2, <3>3
  <2> QED
    BY <1>2, <2>2, <2>3 DEF AfterProbe
<1> QED
  BY <1>1, <1>2

LEMMA ErrorIInv ==
    ASSUME IInv, Error
    PROVE  IInv'
<1>1. PICK t : t = Tail(todo)
  OBVIOUS
<1>2. PICK e : e = firmware_swdp_error(dp)
  OBVIOUS
<1>3. PICK u : u = e \o t
  OBVIOUS
<1>4. /\ todo # <<>> /\ kind = "error" /\ todo' = u
      /\ UNCHANGED <<chip, sel, sticky, busy, core, rdbuf, trouble>>
      /\ UNCHANGED <<fault, list, cur, wait, job, scan, reply, wrong, late>>
  BY <1>1, <1>2, <1>3 DEF Error, bus
<1>5. /\ todo \in Seq(Entries) /\ t \in Seq(Entries) /\ dp \in Ports
      /\ job.name \in SessionJobs \cup ScanJobs
      /\ todo[1] = <<kind, dp>> /\ kind = todo[1][1]
  BY <1>1, <1>4, HeadFacts DEF IInv, Types
<1>6. /\ e \in Seq(SessionKinds \X {dp}) /\ Chained(e, Recovery)
      /\ fault[dp] /\ chip.v2 =>
            /\ Len(e) = 6
            /\ e[1][1] = "reset" /\ e[2][1] = "targetsel" /\ e[3][1] = "idcode"
            /\ e[4][1] = "ctrlstat" /\ e[5][1] = "abort" /\ e[6][1] = "clear"
      /\ ~(fault[dp] /\ chip.v2) =>
            /\ Len(e) = 3
            /\ e[1][1] = "ctrlstat" /\ e[2][1] = "abort" /\ e[3][1] = "clear"
  BY <1>2, <1>5, ErrorFacts
<1>7. e \in Seq(Entries) /\ Among(e, SessionKinds \X {dp})
  <2>1. SessionKinds \X {dp} \subseteq Entries
    BY <1>5, KindFacts DEF Entries
  <2> QED
    BY <1>6, <2>1, SeqMonotonic, LenProperties, ElementOfSeq DEF Among
<1>8. /\ u \in Seq(Entries) /\ Len(e) \in Nat /\ Len(t) \in Nat /\ Len(u) = Len(e) + Len(t)
      /\ \A i \in 1..Len(e) : u[i] = e[i] /\ i \in 1..Len(u)
      /\ \A i \in 1..Len(t) : u[Len(e) + i] = t[i] /\ Len(e) + i \in 1..Len(u)
      /\ \A i \in 1..Len(u) : i \in 1..Len(e) \/ i - Len(e) \in 1..Len(t)
  BY <1>3, <1>5, <1>7, ConcatFacts
<1>9. Len(e) > 0 /\ u # <<>> /\ u[1] = e[1]
  <2>1. Len(e) = 6 \/ Len(e) = 3
    BY <1>6
  <2>2. Len(u) = Len(e) + Len(t) /\ Len(t) \in Nat
    BY <1>8
  <2>3. Len(e) > 0 /\ 1 \in 1..Len(e) /\ Len(u) # 0
    BY <2>1, <2>2
  <2> QED
    BY <1>8, <2>3, EmptySeq
<1>10. \A A : Among(todo, A) => todo[1] \in A /\ Among(t, A)
  BY <1>1, <1>4, <1>5, TailAmong
<1>11. Types'
  BY <1>4, <1>8 DEF IInv, Types, TypeOK
<1>12. Control'
  <2>1. ASSUME ~chip.v2 PROVE Among(u, Kinds \X {0, Initial})
    <3>1. todo[1] \in Kinds \X {0, Initial} /\ Among(t, Kinds \X {0, Initial})
      BY <1>10, <2>1 DEF IInv, Control
    <3>2. SessionKinds \X {dp} \subseteq Kinds \X {0, Initial}
      BY <1>5, <3>1, KindFacts
    <3> QED
      BY <1>3, <1>5, <1>7, <3>1, <3>2, AmongMore, ConcatAmong
  <2>2. job.name \notin {"idle", "loop", "scanned"}
    BY <1>5 DEF SessionJobs, ScanJobs
  <2> QED
    BY <1>4, <2>1, <2>2 DEF IInv, Control
<1>13. Session' /\ Between'
  <2>1. ASSUME job.name \in SessionJobs
        PROVE  /\ Among(u, SessionKinds \X {job.d}) /\ Chained(u, Recovery)
               /\ OnPort(job.d) \/ Selecting(u, job.d)
               /\ Recovering(u)
    <3>1. dp = job.d
      BY <1>4, <2>1, HeadOfSession
    <3>2. /\ Among(todo, SessionKinds \X {job.d}) /\ Chained(todo, Recovery)
          /\ OnPort(job.d) \/ Selecting(todo, job.d)
      BY <2>1 DEF IInv, Session
    <3>3. Among(t, SessionKinds \X {job.d}) /\ Chained(t, Recovery)
      BY <1>1, <1>4, <1>5, <1>10, <3>2, TailChained
    <3>4. Among(u, SessionKinds \X {job.d})
      BY <1>3, <1>5, <1>7, <3>1, <3>3, ConcatAmong
    <3>5. Chained(u, Recovery)
      BY <1>3, <1>5, <1>6, <1>7, <3>3, ConcatChained
    <3>6. OnPort(job.d) \/ Selecting(u, job.d)
      BY <1>4, <1>5, <1>6, <1>9, <3>1, <3>2 DEF Selecting, NextIs
    <3>7. Recovering(u)
      BY <1>6, <1>9 DEF Recovering, NextIs, Recovery
    <3> QED
      BY <3>4, <3>5, <3>6, <3>7
  <2>2. job.name # "idle"
    BY <1>5 DEF SessionJobs, ScanJobs
  <2>3. Session'
    BY <1>4, <2>1 DEF IInv, Session, OnPort, Selecting, Explained
  <2> QED
    BY <1>4, <2>2, <2>3 DEF Between
<1>14. MemPacket'
  <2>1. ASSUME job.name = "mem"
        PROVE  MemPlan(u) /\ ~Checked(u)
    <3>1. MemPlan(todo)
      BY <2>1 DEF IInv, MemPacket
    <3>2. t = <<>>
      BY <1>1, <1>4, <1>5, <3>1, TailMemPlan
    <3>3. u = e
      BY <1>3, <1>7, <3>2, ConcatEmptySeq
    <3>4. \A i \in 1..6 : i = 1 \/ i = 2 \/ i = 3 \/ i = 4 \/ i = 5 \/ i = 6
      OBVIOUS
    <3>5. \A i \in 1..3 : i = 1 \/ i = 2 \/ i = 3
      OBVIOUS
    <3>6. MemPlan(u)
      <4>1. CASE fault[dp] /\ chip.v2
        <5>1. /\ Len(u) = 6
              /\ u[1][1] = "reset" /\ u[2][1] = "targetsel" /\ u[3][1] = "idcode"
              /\ u[4][1] = "ctrlstat" /\ u[5][1] = "abort" /\ u[6][1] = "clear"
          BY <1>6, <3>3, <4>1
        <5>2. ASSUME NEW i \in 1..6, i + 1 \in 1..6
              PROVE  /\ u[i][1] \notin {"error", "clear"}
                     /\ u[i + 1][1] = "abort" => u[i][1] = "ctrlstat"
                     /\ u[i + 1][1] = "clear" => u[i][1] = "abort"
          BY <3>4, <5>1, <5>2
        <5> QED
          BY <5>1, <5>2 DEF MemPlan
      <4>2. CASE ~(fault[dp] /\ chip.v2)
        <5>1. /\ Len(u) = 3
              /\ u[1][1] = "ctrlstat" /\ u[2][1] = "abort" /\ u[3][1] = "clear"
          BY <1>6, <3>3, <4>2
        <5>2. ASSUME NEW i \in 1..3, i + 1 \in 1..3
              PROVE  /\ u[i][1] \notin {"error", "clear"}
                     /\ u[i + 1][1] = "abort" => u[i][1] = "ctrlstat"
                     /\ u[i + 1][1] = "clear" => u[i][1] = "abort"
          BY <3>5, <5>1, <5>2
        <5> QED
          BY <5>1, <5>2 DEF MemPlan
      <4> QED
        BY <4>1, <4>2
    <3>7. ~Checked(u)
      BY <1>6, <1>9 DEF Checked, NextIs
    <3> QED
      BY <3>6, <3>7
  <2>2. ASSUME job.name = "mem"
        PROVE  /\ job.err => job.bad
               /\ job.bad => sticky[job.d] \/ job.late
               /\ sticky[job.d] => job.bad
    BY <1>4, <2>2, MemNow
  <2> QED
    BY <1>4, <2>1, <2>2 DEF MemPacket
<1>15. job.name \in ScanJobs => job.name = "init"
  BY <1>4, HeadOfScan DEF ScanJobs
<1>16. ASSUME job.name = "init" PROVE dp \in DPs
  BY <1>4, <1>16, HeadOfScan DEF ScanJobs
<1>17. Scan'
  <2>1. ASSUME job.name = "init"
        PROVE  /\ Among(u, Kinds \X DPs)
               /\ \A i \in 1..Len(u) : u[i][1] \in Decisions => u[i][2] = job.d
    <3>1. /\ Among(todo, Kinds \X DPs)
          /\ \A i \in 1..Len(todo) : todo[i][1] \in Decisions => todo[i][2] = job.d
      BY <2>1 DEF IInv, Scan
    <3>2. SessionKinds \X {dp} \subseteq Kinds \X DPs
      BY <1>16, <2>1, KindFacts
    <3>3. Among(u, Kinds \X DPs)
      BY <1>3, <1>5, <1>7, <1>10, <3>1, <3>2, AmongMore, ConcatAmong
    <3>4. \A i \in 1..Len(t) : t[i] = todo[i + 1] /\ i + 1 \in 1..Len(todo)
      BY <1>1, <1>4, <1>5, TailFacts
    <3>5. ASSUME NEW i \in 1..Len(u), u[i][1] \in Decisions PROVE u[i][2] = job.d
      <4>1. i \notin 1..Len(e)
        <5>1. ASSUME i \in 1..Len(e) PROVE FALSE
          <6>1. u[i] \in SessionKinds \X {dp}
            BY <1>7, <1>8, <5>1 DEF Among
          <6> QED
            BY <3>5, <6>1, KindFacts
        <5> QED
          BY <5>1
      <4>2. PICK j \in 1..Len(t) : j = i - Len(e)
        BY <1>8, <4>1
      <4>3. u[i] = t[j]
        BY <1>8, <4>2
      <4> QED
        BY <3>1, <3>4, <3>5, <4>3
    <3> QED
      BY <3>3, <3>5
  <2>2. job.name \notin {"first", "old", "id", "pick", "loop"}
    BY <1>5, <1>15 DEF ScanJobs, SessionJobs
  <2> QED
    BY <1>4, <2>1, <2>2 DEF IInv, Scan
<1>18. ScanProgress'
  <2>1. ASSUME job.name = "init", ~scan.trouble
        PROVE  /\ Among(u, (Kinds \ {"reset", "targetsel"}) \X DPs)
               /\ BeforeProbe(u, job.d) \/ AfterProbe(u, job.d)
    <3>1. /\ Quiet /\ Among(todo, (Kinds \ {"reset", "targetsel"}) \X DPs)
          /\ BeforeProbe(todo, job.d) \/ AfterProbe(todo, job.d)
      BY <2>1 DEF IInv, ScanProgress, ScanPhases, ScanJobs
    <3>2. ~fault[dp]
      BY <1>5, <3>1 DEF Quiet
    <3>3. \A i \in 1..3 : i = 1 \/ i = 2 \/ i = 3
      OBVIOUS
    <3>4. \A i \in 1..Len(e) : e[i][1] \in {"ctrlstat", "abort", "clear"}
      BY <1>6, <3>2, <3>3
    <3>5. Without(e, {"probed", "release"}) /\ Without(e, {"probed", "halt"})
      BY <3>4 DEF Without
    <3>6. Among(e, (Kinds \ {"reset", "targetsel"}) \X DPs)
      <4>1. ASSUME NEW i \in 1..Len(e) PROVE e[i] \in (Kinds \ {"reset", "targetsel"}) \X DPs
        <5>1. e[i] \in SessionKinds \X {dp}
          BY <1>7 DEF Among
        <5>2. e[i][1] \in Kinds \ {"reset", "targetsel"}
          BY <3>4, <5>1, KindFacts
        <5> QED
          BY <1>16, <2>1, <5>1, <5>2
      <4> QED
        BY <4>1 DEF Among
    <3>7. Among(u, (Kinds \ {"reset", "targetsel"}) \X DPs)
      BY <1>3, <1>5, <1>7, <1>10, <3>1, <3>6, ConcatAmong
    <3>8. BeforeProbe(t, job.d) \/ AfterProbe(t, job.d)
      BY <1>1, <1>4, <1>5, <3>1, DropProbe
    <3> QED
      BY <1>3, <1>5, <1>7, <3>5, <3>7, <3>8, PrependProbe
  <2>2. job.name \notin {"pick", "loop", "scanned"}
    BY <1>5, <1>15 DEF ScanJobs, SessionJobs
  <2> QED
    BY <1>4, <2>1, <2>2
       DEF IInv, ScanProgress, Quiet, Running, Below, BeforeProbe, AfterProbe
<1> QED
  BY <1>4, <1>11, <1>12, <1>13, <1>14, <1>17, <1>18 DEF IInv, ReportIsExact

LEMMA DecisionFacts ==
    ASSUME IInv, todo # <<>>, kind \in Decisions
    PROVE  /\ job.name = "init" /\ dp = job.d /\ dp \in DPs /\ scan.next = dp
           /\ todo \in Seq(Entries) /\ todo[1] = <<kind, dp>>
           /\ Tail(todo) \in Seq(Entries)
           /\ Among(Tail(todo), Kinds \X DPs)
           /\ \A i \in 1..Len(Tail(todo)) :
                 Tail(todo)[i][1] \in Decisions => Tail(todo)[i][2] = job.d
           /\ ~chip.v2 => /\ dp = 0 /\ sel = 0
                          /\ Among(Tail(todo), Kinds \X {0, Initial})
<1>1. PICK t : t = Tail(todo)
  OBVIOUS
<1>2. /\ job.name \in SessionJobs \cup ScanJobs /\ todo[1] = <<kind, dp>>
      /\ todo \in Seq(Entries) /\ t \in Seq(Entries)
  BY <1>1, HeadFacts DEF IInv, Types
<1>3. job.name \notin SessionJobs
  BY HeadOfSession, KindFacts
<1>4. job.name = "init"
  BY <1>2, <1>3, HeadOfScan DEF Decisions, ScanJobs
<1>5. dp = job.d /\ dp \in DPs
  BY <1>4, HeadOfScan DEF ScanJobs
<1>6. /\ scan.next = job.d /\ (~chip.v2 => scan.next = 0 /\ sel = 0)
      /\ Among(todo, Kinds \X DPs)
      /\ \A i \in 1..Len(todo) : todo[i][1] \in Decisions => todo[i][2] = job.d
  BY <1>4 DEF IInv, Scan
<1>7. \A A : Among(todo, A) => Among(t, A)
  BY <1>1, <1>2, TailAmong
<1>8. \A i \in 1..Len(t) : t[i] = todo[i + 1] /\ i + 1 \in 1..Len(todo)
  BY <1>1, <1>2, TailFacts
<1>9. \A i \in 1..Len(t) : t[i][1] \in Decisions => t[i][2] = job.d
  BY <1>6, <1>8
<1>10. ~chip.v2 => Among(todo, Kinds \X {0, Initial})
  BY DEF IInv, Control
<1> QED
  BY <1>1, <1>2, <1>4, <1>5, <1>6, <1>7, <1>9, <1>10

\* adiv5_dp_init goes on with the accesses u.
LEMMA DecideIInv ==
    ASSUME IInv, job.name = "init",
           UNCHANGED <<chip, sel, sticky, busy, core, rdbuf, trouble>>,
           UNCHANGED <<fault, cur, wait, job, scan, reply, wrong, late>>,
           list' \in Seq(DPs), ~chip.v2 => Among(list', {0}),
           NEW u \in Seq(Entries), todo' = u, Among(u, Kinds \X DPs),
           \A i \in 1..Len(u) : u[i][1] \in Decisions => u[i][2] = job.d,
           ~chip.v2 => Among(u, Kinds \X {0, Initial}),
           ~scan.trouble => /\ Among(u, (Kinds \ {"reset", "targetsel"}) \X DPs)
                            /\ BeforeProbe(todo, job.d)' \/ AfterProbe(todo, job.d)'
    PROVE  IInv'
<1>1. job.name \in ScanPhases /\ job.name \in ScanJobs
  BY DEF ScanPhases, ScanJobs
<1>2. Types'
  BY DEF IInv, Types, TypeOK
<1>3. Control'
  BY <1>1 DEF IInv, Control
<1>4. Scan'
  BY DEF IInv, Scan
<1>5. ScanProgress'
  <2>1. ASSUME ~scan.trouble
        PROVE  Quiet /\ Running(Below(scan.next)) /\ sel = job.d /\ job.d \in chip.dps
    BY <1>1, <2>1 DEF IInv, ScanProgress
  <2>2. Quiet' = Quiet /\ Running(Below(scan.next))' = Running(Below(scan.next))
    BY DEF Quiet, Running, Below
  <2> QED
    BY <2>1, <2>2 DEF ScanProgress
<1> QED
  BY <1>1, <1>2, <1>3, <1>4, <1>5, ScanStepIInv

LEMMA QuietInit ==
    ASSUME IInv, todo # <<>>, kind \in Decisions, ~scan.trouble
    PROVE  /\ Quiet /\ ~fault[dp] /\ sel = job.d /\ job.d \in chip.dps
           /\ Running(Below(scan.next))
           /\ Among(Tail(todo), (Kinds \ {"reset", "targetsel"}) \X DPs)
           /\ BeforeProbe(todo, job.d) \/ AfterProbe(todo, job.d)
           /\ kind # "probed" => BeforeProbe(Tail(todo), job.d) \/ AfterProbe(Tail(todo), job.d)
<1>1. job.name = "init" /\ dp \in DPs /\ todo \in Seq(Entries) /\ todo[1] = <<kind, dp>>
  BY DecisionFacts
<1>2. /\ Quiet /\ sel = job.d /\ job.d \in chip.dps /\ Running(Below(scan.next))
      /\ Among(todo, (Kinds \ {"reset", "targetsel"}) \X DPs)
      /\ BeforeProbe(todo, job.d) \/ AfterProbe(todo, job.d)
  BY <1>1 DEF IInv, ScanProgress, ScanPhases, ScanJobs
<1>3. ~fault[dp]
  BY <1>1, <1>2, ConstantFacts DEF Quiet
<1>4. Among(Tail(todo), (Kinds \ {"reset", "targetsel"}) \X DPs)
  BY <1>1, <1>2, TailAmong
<1>5. kind # "run" /\ todo[1][1] = kind
  BY <1>1 DEF Decisions
<1>6. kind # "probed" => BeforeProbe(Tail(todo), job.d) \/ AfterProbe(Tail(todo), job.d)
  BY <1>1, <1>2, <1>5, DropProbe
<1> QED
  BY <1>2, <1>3, <1>4, <1>6

\* The port is left, and the next one is tried.
LEMMA NextDpIInv ==
    ASSUME IInv, job.name \in {"pick", "init"}, NextDp,
           UNCHANGED <<chip, sel, sticky, busy, core, rdbuf, trouble>>,
           UNCHANGED <<fault, list, cur, wait, reply, wrong, late>>,
           ~scan.trouble => /\ Range(list) = Below(scan.next + 1)
                            /\ Running(Below(scan.next + 1))
    PROVE  IInv'
<1>1. /\ job' = Job("loop", Nobody) /\ todo' = <<>>
      /\ scan' = [scan EXCEPT !.next = scan.next + 1]
  BY DEF NextDp
<1>2. job' \in Jobs /\ job'.name = "loop" /\ job'.d = Nobody /\ "loop" \in ScanPhases
  BY <1>1, PhaseFacts
<1>3. scan.next \in DPs /\ (~chip.v2 => scan.next = 0 /\ sel = 0)
  BY DEF IInv, Scan
<1>4. /\ scan' \in [next : 0..NrDps, trouble : BOOLEAN]
      /\ scan'.next = scan.next + 1 /\ scan'.trouble = scan.trouble
  BY <1>1, <1>3, ConstantFacts DEF IInv, Types
<1>5. job.name \in ScanPhases
  BY DEF ScanPhases, ScanJobs
<1>6. Types'
  BY <1>1, <1>2, <1>4, NoAccess DEF IInv, Types, TypeOK
<1>7. Control'
  BY <1>1, <1>2, <1>5, NoAccess DEF IInv, Control
<1>8. Scan'
  BY <1>2, <1>3, <1>4 DEF Scan
<1>9. ScanProgress'
  <2>1. Below(scan.next)' = Below(scan.next + 1)
    BY <1>4 DEF Below
  <2>2. ~scan.trouble => Quiet'
    BY <1>5 DEF IInv, ScanProgress, Quiet
  <2>3. ~scan.trouble => Running(Below(scan.next))'
    BY <2>1 DEF Running
  <2> QED
    BY <1>2, <1>4, <2>1, <2>2, <2>3 DEF ScanProgress
<1> QED
  BY <1>2, <1>6, <1>7, <1>8, <1>9, ScanStepIInv

LEMMA StayIInv ==
    ASSUME IInv, todo # <<>>, kind \in Decisions \ {"probed"}, todo' = Tail(todo),
           UNCHANGED <<chip, sel, sticky, busy, core, rdbuf, trouble>>,
           UNCHANGED <<fault, list, cur, wait, job, scan, reply, wrong, late>>
    PROVE  IInv'
<1>1. PICK u : u = Tail(todo)
  OBVIOUS
<1>2. /\ job.name = "init" /\ u \in Seq(Entries) /\ Among(u, Kinds \X DPs)
      /\ \A i \in 1..Len(u) : u[i][1] \in Decisions => u[i][2] = job.d
      /\ ~chip.v2 => Among(u, Kinds \X {0, Initial})
  BY <1>1, DecisionFacts
<1>3. list' \in Seq(DPs) /\ (~chip.v2 => Among(list', {0}))
  BY DEF IInv, Types, TypeOK, Control
<1>4. ASSUME ~scan.trouble
      PROVE  /\ Among(u, (Kinds \ {"reset", "targetsel"}) \X DPs)
             /\ BeforeProbe(todo, job.d)' \/ AfterProbe(todo, job.d)'
  <2>1. /\ Among(u, (Kinds \ {"reset", "targetsel"}) \X DPs)
        /\ BeforeProbe(u, job.d) \/ AfterProbe(u, job.d)
    BY <1>1, <1>4, QuietInit
  <2> QED
    BY <1>1, <2>1 DEF BeforeProbe, AfterProbe, Below
<1> QED
  BY <1>1, <1>2, <1>3, <1>4, DecideIInv

LEMMA NewApIInv ==
    ASSUME IInv, NewAp
    PROVE  IInv'
<1>1. /\ todo # <<>> /\ kind = "new_ap" /\ kind \in Decisions
      /\ UNCHANGED <<chip, sel, sticky, busy, core, rdbuf, trouble>>
      /\ UNCHANGED <<fault, list, cur, wait, reply, wrong, late>>
  BY DEF NewAp, bus, Decisions
<1>2. CASE fault[dp] /\ NextDp
  <2>1. job.name = "init" /\ scan.trouble
    BY <1>1, <1>2, DecisionFacts, QuietInit
  <2> QED
    BY <1>1, <1>2, <2>1, NextDpIInv
<1>3. CASE Step /\ UNCHANGED <<job, scan>>
  BY <1>1, <1>3, StayIInv DEF Step
<1> QED
  BY <1>2, <1>3 DEF NewAp

LEMMA CidrIInv ==
    ASSUME IInv, Cidr
    PROVE  IInv'
<1>1. /\ todo # <<>> /\ kind = "cidr" /\ kind \in Decisions
      /\ todo' = IF fault[dp] THEN << <<"release", dp>> >> ELSE Tail(todo)
      /\ UNCHANGED <<chip, sel, sticky, busy, core, rdbuf, trouble>>
      /\ UNCHANGED <<fault, list, cur, wait, job, scan, reply, wrong, late>>
  BY DEF Cidr, bus, Decisions
<1>2. CASE fault[dp]
  <2>1. PICK u : u = << <<"release", dp>> >>
    OBVIOUS
  <2>2. job.name = "init" /\ scan.trouble /\ dp = job.d /\ dp \in DPs
    BY <1>1, <1>2, DecisionFacts, QuietInit
  <2>3. "release" \in Kinds
    BY DEF Kinds, Decisions
  <2>4. u \in Seq(Entries) /\ Len(u) = 1 /\ u[1] = <<"release", dp>>
    BY <2>1, <2>2, <2>3, ConstantFacts DEF Entries
  <2>5. \A i \in 1..Len(u) : u[i] = <<"release", dp>>
    BY <2>4
  <2>6. /\ Among(u, Kinds \X DPs)
        /\ \A i \in 1..Len(u) : u[i][1] \in Decisions => u[i][2] = job.d
    <3>1. <<"release", dp>> \in Kinds \X DPs /\ <<"release", dp>>[2] = job.d
      BY <2>2, <2>3
    <3> QED
      BY <2>5, <3>1 DEF Among
  <2>7. ~chip.v2 => dp = 0
    BY <1>1, DecisionFacts
  <2>8. ~chip.v2 => Among(u, Kinds \X {0, Initial})
    BY <2>3, <2>5, <2>7 DEF Among
  <2>9. list' \in Seq(DPs) /\ (~chip.v2 => Among(list', {0}))
    BY <1>1 DEF IInv, Types, TypeOK, Control
  <2> QED
    BY <1>1, <1>2, <2>1, <2>2, <2>4, <2>6, <2>9, <2>8, DecideIInv
<1>3. CASE ~fault[dp]
  BY <1>1, <1>3, StayIInv
<1> QED
  BY <1>2, <1>3

LEMMA RangeAppend ==
    ASSUME NEW s \in Seq(DPs), NEW x \in DPs
    PROVE  /\ Append(s, x) \in Seq(DPs)
           /\ Range(Append(s, x)) = Range(s) \cup {x}
<1>1. PICK u : u = Append(s, x)
  OBVIOUS
<1>2. /\ u \in Seq(DPs) /\ Len(u) = Len(s) + 1 /\ Len(s) \in Nat
      /\ \A i \in 1..Len(s) : u[i] = s[i]
      /\ u[Len(s) + 1] = x
  BY <1>1, AppendProperties, LenProperties
<1>3. DOMAIN u = 1..Len(u) /\ DOMAIN s = 1..Len(s)
  BY <1>2, LenProperties
<1>4. \A i \in 1..Len(u) : i \in 1..Len(s) \/ i = Len(s) + 1
  BY <1>2
<1>5. \A i \in 1..Len(s) : i \in 1..Len(u)
  BY <1>2
<1>6. Len(s) + 1 \in 1..Len(u)
  BY <1>2
<1> QED
  BY <1>1, <1>2, <1>3, <1>4, <1>5, <1>6 DEF Range

LEMMA ProbedIInv ==
    ASSUME IInv, Probed
    PROVE  IInv'
<1>1. /\ todo # <<>> /\ kind = "probed" /\ kind \in Decisions
      /\ \/ fault[dp] /\ todo' = Tail(todo) /\ UNCHANGED list
         \/ ~fault[dp] /\ todo' = MemWrite(dp, "run") \o Tail(todo) /\ list' = Append(list, dp)
      /\ UNCHANGED <<chip, sel, sticky, busy, core, rdbuf, trouble>>
      /\ UNCHANGED <<fault, cur, wait, job, scan, reply, wrong, late>>
  BY DEF Probed, bus, Decisions
<1>2. PICK t : t = Tail(todo)
  OBVIOUS
<1>3. /\ job.name = "init" /\ dp = job.d /\ dp \in DPs /\ scan.next = dp
      /\ t \in Seq(Entries) /\ Among(t, Kinds \X DPs)
      /\ \A i \in 1..Len(t) : t[i][1] \in Decisions => t[i][2] = job.d
      /\ ~chip.v2 => dp = 0 /\ Among(t, Kinds \X {0, Initial})
  BY <1>1, <1>2, DecisionFacts
<1>4. list \in Seq(DPs) /\ (~chip.v2 => Among(list, {0}))
  BY DEF IInv, Types, TypeOK, Control
<1>5. CASE fault[dp] /\ todo' = t /\ UNCHANGED list
  <2>1. scan.trouble
    BY <1>1, <1>5, QuietInit
  <2> QED
    BY <1>1, <1>3, <1>4, <1>5, <2>1, DecideIInv
<1>6. CASE ~fault[dp] /\ todo' = MemWrite(dp, "run") \o t /\ list' = Append(list, dp)
  <2>1. PICK w : w = MemWrite(dp, "run")
    OBVIOUS
  <2>2. PICK u : u = w \o t
    OBVIOUS
  <2>3. PICK l : l = Append(list, dp)
    OBVIOUS
  <2>4. /\ Len(w) = 3 /\ w[1] = <<"select", dp>> /\ w[2] = <<"reg", dp>> /\ w[3] = <<"run", dp>>
        /\ w \in Seq(SessionKinds \X {dp})
    <3>1. "run" \in Transactions /\ dp \in Ports
      BY <1>3, ConstantFacts DEF Transactions
    <3> QED
      BY <2>1, <3>1, MemWriteFacts
  <2>5. \A i \in 1..Len(w) : w[i] \in {"select", "reg", "run"} \X {dp}
    <3>1. \A i \in 1..3 : i = 1 \/ i = 2 \/ i = 3
      OBVIOUS
    <3> QED
      BY <2>4, <3>1
  <2>6. /\ {"select", "reg", "run"} \subseteq Kinds \ {"reset", "targetsel"}
        /\ {"select", "reg", "run"} \cap Decisions = {}
    BY DEF Kinds, Answered, ApAccess, Transactions, Decisions
  <2>7. w \in Seq(Entries)
    <3>1. SessionKinds \X {dp} \subseteq Entries
      BY <1>3, KindFacts, ConstantFacts DEF Entries
    <3> QED
      BY <2>4, <3>1, SeqMonotonic
  <2>8. /\ u \in Seq(Entries) /\ Len(w) \in Nat /\ Len(t) \in Nat
        /\ \A i \in 1..Len(w) : u[i] = w[i] /\ i \in 1..Len(u)
        /\ \A i \in 1..Len(t) : u[Len(w) + i] = t[i] /\ Len(w) + i \in 1..Len(u)
        /\ \A i \in 1..Len(u) : i \in 1..Len(w) \/ i - Len(w) \in 1..Len(t)
    BY <1>3, <2>2, <2>7, ConcatFacts
  <2>9. ASSUME NEW i \in 1..Len(u), u[i][1] \in Decisions PROVE u[i][2] = job.d
    <3>1. CASE i \in 1..Len(w)
      BY <2>5, <2>6, <2>8, <2>9, <3>1
    <3>2. CASE i - Len(w) \in 1..Len(t)
      <4>1. PICK j \in 1..Len(t) : j = i - Len(w)
        BY <3>2
      <4>2. i = Len(w) + j
        BY <2>8, <4>1
      <4> QED
        BY <1>3, <2>8, <2>9, <4>2
    <3> QED
      BY <2>8, <3>1, <3>2
  <2>10. /\ Among(w, Kinds \X DPs) /\ Among(w, (Kinds \ {"reset", "targetsel"}) \X DPs)
         /\ ~chip.v2 => Among(w, Kinds \X {0, Initial})
    BY <1>3, <2>5, <2>6 DEF Among
  <2>11. Among(u, Kinds \X DPs)
    BY <1>3, <2>2, <2>7, <2>10, ConcatAmong
  <2>12. ~chip.v2 => Among(u, Kinds \X {0, Initial})
    BY <1>3, <2>2, <2>7, <2>10, ConcatAmong
  <2>13. l \in Seq(DPs) /\ Range(l) = Range(list) \cup {dp}
    <3>1. list \in Seq(DPs) /\ dp \in DPs
      BY <1>3, <1>4
    <3>2. l \in Seq(DPs)
      BY <2>3, <3>1, RangeAppend
    <3>3. Range(l) = Range(list) \cup {dp}
      BY <2>3, <3>1, RangeAppend
    <3> QED
      BY <3>2, <3>3
  <2>14. ASSUME ~chip.v2 PROVE Among(l, {0})
    <3>1. dp = 0 /\ Among(list, {0})
      BY <1>3, <1>4, <2>14
    <3>2. /\ Len(l) = Len(list) + 1 /\ Len(list) \in Nat
          /\ \A i \in 1..Len(list) : l[i] = list[i]
          /\ l[Len(list) + 1] = dp
      BY <1>3, <1>4, <2>3, AppendProperties, LenProperties
    <3>3. \A i \in 1..Len(l) : i \in 1..Len(list) \/ i = Len(list) + 1
      BY <3>2
    <3> QED
      BY <3>1, <3>2, <3>3 DEF Among
  <2>15. ASSUME ~scan.trouble
         PROVE  /\ Among(u, (Kinds \ {"reset", "targetsel"}) \X DPs)
                /\ AfterProbe(todo, job.d)'
    <3>1. /\ job.d \in chip.dps /\ Among(t, (Kinds \ {"reset", "targetsel"}) \X DPs)
          /\ BeforeProbe(todo, job.d) \/ AfterProbe(todo, job.d)
      BY <1>1, <1>2, <2>15, QuietInit
    <3>2. Among(u, (Kinds \ {"reset", "targetsel"}) \X DPs)
      BY <1>3, <2>2, <2>7, <2>10, <3>1, ConcatAmong
    <3>3. /\ todo \in Seq(Entries) /\ todo[1][1] = "probed" /\ 1 \in 1..Len(todo)
          /\ Len(todo) \in Nat
          /\ \A i \in 1..Len(t) : t[i] = todo[i + 1] /\ i + 1 \in 1..Len(todo)
      <4>1. todo \in Seq(Entries) /\ todo[1] = <<kind, dp>>
        BY <1>1, DecisionFacts
      <4>2. /\ Len(todo) \in Nat /\ Len(todo) > 0
            /\ \A i \in 1..Len(t) : t[i] = todo[i + 1] /\ i + 1 \in 1..Len(todo)
        BY <1>1, <1>2, <4>1, TailFacts
      <4>3. 1 \in 1..Len(todo)
        BY <4>2
      <4> QED
        BY <1>1, <4>1, <4>2, <4>3
    <3>4. BeforeProbe(todo, job.d)
      BY <3>1, <3>3 DEF AfterProbe
    <3>5. ASSUME NEW i \in 1..Len(t) PROVE t[i][1] \notin {"probed", "halt"}
      <4>1. 1 < i + 1 /\ i + 1 \in 1..Len(todo) /\ t[i] = todo[i + 1]
        BY <2>8, <3>3
      <4> QED
        BY <3>3, <3>4, <4>1 DEF BeforeProbe
    <3>6. ASSUME NEW i \in 1..Len(u) PROVE u[i][1] \notin {"probed", "halt"}
      <4>1. CASE i \in 1..Len(w)
        BY <2>5, <2>8, <4>1
      <4>2. CASE i - Len(w) \in 1..Len(t)
        <5>1. PICK j \in 1..Len(t) : j = i - Len(w)
          BY <4>2
        <5>2. i = Len(w) + j
          BY <2>8, <5>1
        <5> QED
          BY <2>8, <3>5, <5>2
      <4> QED
        BY <2>8, <4>1, <4>2
    <3>7. \E i \in 1..Len(u) : u[i][1] = "run"
      <4>1. 3 \in 1..3
        OBVIOUS
      <4>2. 3 \in 1..Len(u) /\ u[3] = <<"run", dp>>
        BY <2>4, <2>8, <4>1
      <4> QED
        BY <4>2
    <3>8. Range(l) = Below(job.d + 1)
      BY <1>3, <2>13, <3>1, <3>4, BelowFacts DEF BeforeProbe
    <3>9. todo' = u /\ list' = l /\ job' = job /\ chip' = chip
      BY <1>1, <1>6, <2>1, <2>2, <2>3
    <3> QED
      BY <3>2, <3>6, <3>7, <3>8, <3>9 DEF AfterProbe, Below
  <2> QED
    BY <1>1, <1>3, <1>6, <2>1, <2>2, <2>3, <2>8, <2>9, <2>11, <2>12, <2>13, <2>14, <2>15, DecideIInv
<1> QED
  BY <1>1, <1>2, <1>5, <1>6

LEMMA ReleaseIInv ==
    ASSUME IInv, Release
    PROVE  IInv'
<1>1. PICK u : u = ResumeAll
  OBVIOUS
<1>2. /\ todo # <<>> /\ kind = "release" /\ kind \in Decisions /\ todo' = u
      /\ UNCHANGED <<chip, sel, sticky, busy, core, rdbuf, trouble>>
      /\ UNCHANGED <<fault, list, cur, wait, job, scan, reply, wrong, late>>
  BY <1>1 DEF Release, bus, Decisions
<1>3. list \in Seq(DPs) /\ (~chip.v2 => Among(list, {0})) /\ Len(list) \in Nat
  BY LenProperties DEF IInv, Types, TypeOK, Control
<1>4. PICK n \in Nat : n = 3 * Len(list)
  BY <1>3
<1>5. \A i \in 1..n : ((i - 1) % 3) + 1 \in 1..3 /\ ((i - 1) \div 3) + 1 \in 1..Len(list)
  BY <1>3, <1>4
<1>6. PICK w : w = <<"select", "reg", "run">>
  OBVIOUS
<1>7. /\ u = [i \in 1..n |-> <<w[((i - 1) % 3) + 1], list[((i - 1) \div 3) + 1]>>]
  BY <1>1, <1>4, <1>6 DEF ResumeAll
<1>8. \A i \in 1..3 : w[i] \in {"select", "reg", "run"}
  <2>1. \A i \in 1..3 : i = 1 \/ i = 2 \/ i = 3
    OBVIOUS
  <2> QED
    BY <1>6, <2>1
<1>9. \A i \in 1..Len(list) : list[i] \in DPs /\ (~chip.v2 => list[i] = 0)
  BY <1>3, ElementOfSeq DEF Among
<1>10. \A i \in 1..n : u[i] \in {"select", "reg", "run"} \X DPs /\ (~chip.v2 => u[i][2] = 0)
  BY <1>5, <1>7, <1>8, <1>9
<1>11. u \in [1..n -> {"select", "reg", "run"} \X DPs]
  BY <1>7, <1>10
<1>12. u \in Seq({"select", "reg", "run"} \X DPs) /\ Len(u) = n
  BY <1>4, <1>11, SeqDef, LenProperties
<1>13. /\ {"select", "reg", "run"} \subseteq Kinds \ {"reset", "targetsel"}
       /\ {"select", "reg", "run"} \cap Decisions = {}
  BY DEF Kinds, Answered, ApAccess, Transactions, Decisions
<1>14. u \in Seq(Entries)
  <2>1. {"select", "reg", "run"} \X DPs \subseteq Entries
    BY <1>13, ConstantFacts DEF Entries
  <2> QED
    BY <1>12, <2>1, SeqMonotonic
<1>15. /\ Among(u, Kinds \X DPs) /\ Among(u, (Kinds \ {"reset", "targetsel"}) \X DPs)
       /\ \A i \in 1..Len(u) : u[i][1] \in Decisions => u[i][2] = job.d
  BY <1>10, <1>12, <1>13 DEF Among
<1>16. ~chip.v2 => Among(u, Kinds \X {0, Initial})
  BY <1>10, <1>12, <1>13 DEF Among
<1>17. ASSUME ~scan.trouble PROVE AfterProbe(todo, job.d)'
  <2>1. /\ todo \in Seq(Entries) /\ todo[1][1] = "release" /\ job.d \in DPs
        /\ job.d \in chip.dps /\ (BeforeProbe(todo, job.d) \/ AfterProbe(todo, job.d))
    BY <1>2, <1>17, DecisionFacts, QuietInit
  <2>2. ~BeforeProbe(todo, job.d)
    <3>1. SUFFICES ASSUME BeforeProbe(todo, job.d) PROVE FALSE
      OBVIOUS
    <3>2. PICK i \in 1..Len(todo) : todo[i][1] = "probed"
      BY <3>1 DEF BeforeProbe
    <3>3. i # 1
      BY <2>1, <3>2
    <3>4. 1 < i /\ 1 \in 1..Len(todo)
      BY <3>2, <3>3
    <3> QED
      BY <2>1, <3>1, <3>2, <3>4 DEF BeforeProbe
  <2>3. Range(list) = Below(job.d + 1)
    BY <2>1, <2>2 DEF AfterProbe
  <2>4. job.d \in Range(list)
    BY <2>1, <2>3, BelowFacts
  <2>5. Len(list) > 0
    <3>1. DOMAIN list = 1..Len(list)
      BY <1>3, LenProperties
    <3>2. \E i \in 1..Len(list) : list[i] = job.d
      BY <2>4, <3>1 DEF Range
    <3> QED
      BY <1>3, <3>2
  <2>6. 3 \in 1..n /\ ((3 - 1) % 3) + 1 = 3
    BY <1>3, <1>4, <2>5
  <2>7. u[3] = <<w[((3 - 1) % 3) + 1], list[((3 - 1) \div 3) + 1]>>
    BY <1>7, <2>6
  <2>8. u[3][1] = "run"
    BY <1>6, <2>6, <2>7
  <2>9. \A i \in 1..Len(u) : u[i][1] \notin {"probed", "halt"}
    BY <1>10, <1>12
  <2> QED
    BY <1>2, <1>12, <2>3, <2>6, <2>8, <2>9 DEF AfterProbe, Below
<1>18. job.name = "init"
  BY <1>2, DecisionFacts
<1> QED
  BY <1>2, <1>3, <1>14, <1>15, <1>16, <1>17, <1>18, DecideIInv

-----------------------------------------------------------------------------
(***************************************************************************)
(* adiv5_swdp_scan.                                                        *)
(***************************************************************************)
InitKinds == Kinds \ {"reset", "targetsel", "probed", "release"}

LEMMA DpInitFacts ==
    ASSUME NEW d \in DPs, NEW p, p = adiv5_dp_init(d)
    PROVE  /\ p \in Seq(Entries)
           /\ Among(p, (Kinds \ {"reset", "targetsel"}) \X {d})
           /\ Range(list) = Below(d) => BeforeProbe(p, d)
<1>1. PICK k1 : k1 = <<"ctrlstat", "ctrlw", "ctrlstat", "select", "idr", "rdbuff", "new_ap",
                       "select", "reg", "ctrlw", "halt", "read">>
  OBVIOUS
<1>2. PICK k2 : k2 = <<"select", "reg", "read", "rdbuff">>
  OBVIOUS
<1>3. PICK k3 : k3 = <<"cidr", "error">>
  OBVIOUS
<1>4. PICK k4 : k4 = <<"probed", "release">>
  OBVIOUS
<1>5. {"ctrlstat", "ctrlw", "select", "idr", "rdbuff", "new_ap", "reg", "halt", "read",
       "cidr", "error"} \subseteq InitKinds
  BY DEF InitKinds, Kinds, Answered, Always, ApAccess, Transactions, Decisions
<1>6. k1 \in Seq(InitKinds)
  BY <1>1, <1>5
<1>7. k2 \in Seq(InitKinds) /\ k3 \in Seq(InitKinds)
  BY <1>2, <1>3, <1>5
<1>8. k4 \in Seq({"probed", "release"}) /\ Len(k4) = 2 /\ k4[1] = "probed" /\ k4[2] = "release"
  BY <1>4
<1>9. PICK a : a = For(d, k1)
  OBVIOUS
<1>10. PICK m : m = For(d, k2)
  OBVIOUS
<1>11. PICK c : c = For(d, k3)
  OBVIOUS
<1>12. PICK q : q = For(d, k4)
  OBVIOUS
<1>13. a \in Seq(InitKinds \X {d}) /\ m \in Seq(InitKinds \X {d}) /\ c \in Seq(InitKinds \X {d})
  BY <1>6, <1>7, <1>9, <1>10, <1>11, ForFacts
<1>14. /\ q \in Seq({"probed", "release"} \X {d}) /\ Len(q) = 2
       /\ \A i \in 1..2 : q[i] = <<k4[i], d>>
  BY <1>8, <1>12, ForFacts
<1>15. PICK s : s = a \o m \o c \o m
  OBVIOUS
<1>16. s \in Seq(InitKinds \X {d})
  <2>1. PICK s1 \in Seq(InitKinds \X {d}) : s1 = a \o m
    BY <1>13, ConcatProperties
  <2>2. PICK s2 \in Seq(InitKinds \X {d}) : s2 = s1 \o c
    BY <1>13, <2>1, ConcatProperties
  <2>3. s = s2 \o m
    BY <1>15, <2>1, <2>2
  <2> QED
    BY <1>13, <2>2, <2>3, ConcatProperties
<1>17. p = s \o q
  BY <1>1, <1>2, <1>3, <1>4, <1>9, <1>10, <1>11, <1>12, <1>15 DEF adiv5_dp_init, MemRead
<1>18. "probed" \in Kinds /\ "release" \in Kinds
  BY DEF Kinds, Decisions
<1>19. /\ InitKinds \X {d} \subseteq Entries /\ {"probed", "release"} \X {d} \subseteq Entries
       /\ InitKinds \X {d} \subseteq (Kinds \ {"reset", "targetsel"}) \X {d}
       /\ {"probed", "release"} \X {d} \subseteq (Kinds \ {"reset", "targetsel"}) \X {d}
  BY <1>18, ConstantFacts DEF InitKinds, Entries
<1>20. s \in Seq(Entries) /\ q \in Seq(Entries)
  BY <1>14, <1>16, <1>19, SeqMonotonic
<1>21. p \in Seq(Entries)
  BY <1>17, <1>20, ConcatProperties
<1>22. Among(p, (Kinds \ {"reset", "targetsel"}) \X {d})
  <2>1. Among(s, (Kinds \ {"reset", "targetsel"}) \X {d})
    BY <1>16, <1>19, ElementOfSeq DEF Among
  <2>2. Among(q, (Kinds \ {"reset", "targetsel"}) \X {d})
    BY <1>14, <1>19, ElementOfSeq DEF Among
  <2> QED
    BY <1>17, <1>20, <2>1, <2>2, ConcatAmong
<1>23. Without(s, {"probed", "release"})
  <2>1. ASSUME NEW i \in 1..Len(s) PROVE s[i][1] \notin {"probed", "release"}
    <3>1. s[i] \in InitKinds \X {d}
      BY <1>16, ElementOfSeq
    <3> QED
      BY <3>1 DEF InitKinds
  <2> QED
    BY <2>1 DEF Without
<1>24. ASSUME Range(list) = Below(d) PROVE BeforeProbe(p, d)
  <2>1. q[1][1] = "probed" /\ q[2][1] = "release"
    BY <1>8, <1>14
  <2>2. 1 \in 1..Len(q) /\ \A i \in 1..Len(q) : i = 1 \/ i = 2
    BY <1>14
  <2>3. BeforeProbe(q, d)
    BY <1>24, <2>1, <2>2 DEF BeforeProbe
  <2> QED
    BY <1>17, <1>20, <1>23, <2>3, PrependProbe
<1> QED
  BY <1>21, <1>22, <1>24

LEMMA EmptyRange == Range(<<>>) = {}
BY DEF Range

\* A step between two parts of a scan, after which s is left to do.
LEMMA PhaseIInv ==
    ASSUME IInv, NEW s \in Seq(Entries), todo' = s,
           UNCHANGED <<chip, sel, sticky, busy, core, rdbuf, trouble, reply, wrong>>,
           job' \in Jobs, job'.name \in ScanPhases,
           job'.name \in {"loop", "scanned"} => s = <<>>,
           scan' \in [next : 0..NrDps, trouble : BOOLEAN],
           fault' \in [Ports -> BOOLEAN], late' \subseteq Ports,
           list' \in Seq(DPs), cur' = Nobody, wait' = "no",
           ~chip.v2 => Among(list', {0}) /\ Among(s, Kinds \X {0, Initial})
                       /\ job'.d \in {0, Nobody, Initial},
           Scan', ScanProgress'
    PROVE  IInv'
<1>1. Types'
  BY DEF IInv, Types, TypeOK, Ports
<1>2. job'.name # "idle"
  BY DEF ScanPhases, ScanJobs
<1>3. Control'
  BY <1>2 DEF IInv, Control
<1> QED
  BY <1>1, <1>3, ScanStepIInv

LEMMA StartScanIInv ==
    ASSUME IInv, NEW given \in BOOLEAN, StartScan(given)
    PROVE  IInv'
<1>1. /\ given => chip.v2
      /\ list' = <<>> /\ cur' = Nobody /\ late' = {} /\ wait' = wait /\ wait = "no"
      /\ fault' = [d \in Ports |-> FALSE]
      /\ scan' = [next |-> 0, trouble |-> \E d \in DPs : sticky[d] \/ busy[d] # "no"]
      /\ IF given THEN job' = Job("loop", Nobody) /\ todo' = <<>>
         ELSE job' = Job("first", Initial) /\ todo' = For(Initial, <<"reset", "idcode">>)
      /\ UNCHANGED <<chip, sel, sticky, busy, core, rdbuf, trouble, reply, wrong>>
  BY DEF StartScan, CanCommand, Ports, bus
<1>2. PICK t \in BOOLEAN : t = (\E d \in DPs : sticky[d] \/ busy[d] # "no")
  OBVIOUS
<1>3. /\ scan' \in [next : 0..NrDps, trouble : BOOLEAN] /\ scan'.next = 0 /\ scan'.trouble = t
  BY <1>1, <1>2, ConstantFacts
<1>4. fault' \in [Ports -> BOOLEAN] /\ late' \subseteq Ports /\ list' \in Seq(DPs)
  BY <1>1
<1>5. ~t => Quiet'
  BY <1>1, <1>2 DEF Quiet
<1>6. Range(list)' = {} /\ Below(0)' = {} /\ Below(scan.next)' = {}
  BY <1>1, <1>3, EmptyRange, BelowFacts DEF Below
<1>7. Running(Below(scan.next))'
  BY <1>6 DEF Running
<1>8. Among(list', {0})
  BY <1>1, NoAccess
<1>9. CASE given
  <2>1. job' \in Jobs /\ job'.name = "loop" /\ "loop" \in ScanPhases
    BY <1>1, <1>9, PhaseFacts
  <2>2. Scan'
    BY <1>1, <1>9, <2>1 DEF Scan
  <2>3. ScanProgress'
    BY <1>3, <1>5, <1>6, <1>7, <2>1 DEF ScanProgress
  <2> QED
    BY <1>1, <1>3, <1>4, <1>8, <1>9, <2>1, <2>2, <2>3, NoAccess, PhaseIInv
<1>10. CASE ~given
  <2>1. PICK r : r = For(Initial, <<"reset", "idcode">>)
    OBVIOUS
  <2>2. /\ r \in Seq(Entries) /\ NextIs(r, {"reset"})
        /\ Among(r, {"reset", "idcode"} \X {Initial}) /\ Among(r, Kinds \X {0, Initial})
    BY <2>1, InitialReset
  <2>3. "first" \in ScanPhases
    BY DEF ScanPhases, ScanJobs
  <2>4. job' \in Jobs /\ job'.name = "first" /\ job'.d = Initial
    <3>1. job' = Job("first", Initial) /\ Initial \in Ports
      BY <1>1, <1>10, ConstantFacts
    <3> QED
      BY <2>3, <3>1, JobFacts
  <2>5. Scan'
    BY <1>1, <1>3, <1>10, <2>1, <2>2, <2>4 DEF Scan
  <2>6. ScanProgress'
    BY <1>3, <1>5, <1>7, <2>4 DEF ScanProgress
  <2> QED
    BY <1>1, <1>3, <1>4, <1>8, <1>10, <2>1, <2>2, <2>3, <2>4, <2>5, <2>6, PhaseIInv
<1> QED
  BY <1>9, <1>10

LEMMA IdcodeReadIInv ==
    ASSUME IInv, IdcodeRead
    PROVE  IInv'
<1>1. /\ job.name \in {"first", "old"} /\ todo = <<>>
      /\ UNCHANGED <<chip, sel, sticky, busy, core, rdbuf, trouble>>
      /\ UNCHANGED <<fault, list, cur, wait, scan, reply, wrong, late>>
  BY DEF IdcodeRead, Ended, bus
<1>2. /\ scan \in [next : 0..NrDps, trouble : BOOLEAN] /\ fault \in [Ports -> BOOLEAN]
      /\ late \subseteq Ports /\ list \in Seq(DPs)
  BY DEF IInv, Types, TypeOK, Ports
<1>3. job.name \in ScanPhases
  BY <1>1 DEF ScanPhases, ScanJobs
<1>4. cur = Nobody /\ wait = "no" /\ (~chip.v2 => Among(list, {0}))
  BY <1>3 DEF IInv, Control
<1>5. scan.next = 0 /\ list = <<>> /\ (~chip.v2 => sel = 0)
  BY <1>1, NoAccess DEF IInv, Scan
<1>6. ~scan.trouble => Quiet /\ Running(Below(scan.next))
  BY <1>3 DEF IInv, ScanProgress
<1>7. ~scan.trouble => Quiet' /\ Running(Below(scan.next))'
  BY <1>1, <1>6 DEF Quiet, Running, Below
<1>8. CASE /\ chip.v2 /\ job' = Job("id", Initial)
           /\ \/ todo' = For(Initial, <<"select", "ctrlstat", "select">>)
              \/ todo' = For(Initial, <<"select", "ctrlstat", "select", "ctrlw">>)
  <2>1. "id" \in ScanPhases /\ Initial \in Ports
    BY ConstantFacts DEF ScanPhases, ScanJobs
  <2>2. job' \in Jobs /\ job'.name = "id"
    BY <1>8, <2>1, JobFacts
  <2>3. PICK s : s = todo'
    OBVIOUS
  <2>4. /\ s \in Seq({"select", "ctrlstat", "ctrlw"} \X {Initial})
        /\ Among(s, {"select", "ctrlstat", "ctrlw"} \X {Initial})
    <3>1. PICK k \in Seq({"select", "ctrlstat", "ctrlw"}) : s = For(Initial, k)
      <4>1. /\ <<"select", "ctrlstat", "select">> \in Seq({"select", "ctrlstat", "ctrlw"})
            /\ <<"select", "ctrlstat", "select", "ctrlw">> \in Seq({"select", "ctrlstat", "ctrlw"})
        OBVIOUS
      <4>2. CASE todo' = For(Initial, <<"select", "ctrlstat", "select">>)
        BY <2>3, <4>1, <4>2
      <4>3. CASE todo' = For(Initial, <<"select", "ctrlstat", "select", "ctrlw">>)
        BY <2>3, <4>1, <4>3
      <4> QED
        BY <1>8, <4>2, <4>3
    <3> QED
      BY <3>1, ForFacts
  <2>5. s \in Seq(Entries)
    <3>1. {"select", "ctrlstat", "ctrlw"} \subseteq Kinds
      BY DEF Kinds, Answered, Always
    <3>2. {"select", "ctrlstat", "ctrlw"} \X {Initial} \subseteq Entries
      BY <2>1, <3>1 DEF Entries
    <3> QED
      BY <2>4, <3>2, SeqMonotonic
  <2>6. Scan'
    BY <1>1, <1>5, <1>8, <2>2, <2>3, <2>4 DEF Scan
  <2>7. ScanProgress'
    BY <1>1, <1>7, <2>2 DEF ScanProgress
  <2> QED
    BY <1>1, <1>2, <1>4, <1>8, <2>1, <2>2, <2>3, <2>5, <2>6, <2>7, PhaseIInv
<1>9. CASE ~chip.v2 /\ job' = Job("loop", Nobody) /\ UNCHANGED todo
  <2>1. job' \in Jobs /\ job'.name = "loop" /\ job'.d = Nobody /\ "loop" \in ScanPhases
    BY <1>9, PhaseFacts
  <2>2. Scan'
    BY <1>1, <1>5, <1>9, <2>1 DEF Scan
  <2>3. Range(list)' = {} /\ Below(scan.next)' = {}
    BY <1>1, <1>5, EmptyRange, BelowFacts DEF Below
  <2>4. ScanProgress'
    BY <1>1, <1>7, <2>1, <2>3 DEF ScanProgress
  <2> QED
    BY <1>1, <1>2, <1>4, <1>9, <2>1, <2>2, <2>4, NoAccess, PhaseIInv
<1> QED
  BY <1>8, <1>9 DEF IdcodeRead

LEMMA TargetIdReadIInv ==
    ASSUME IInv, TargetIdRead
    PROVE  IInv'
<1>1. /\ job.name = "id" /\ todo = <<>> /\ todo' = todo /\ job' = Job("loop", Nobody)
      /\ UNCHANGED <<chip, sel, sticky, busy, core, rdbuf, trouble>>
      /\ UNCHANGED <<fault, list, cur, wait, scan, reply, wrong, late>>
  BY DEF TargetIdRead, Ended, bus
<1>2. /\ scan \in [next : 0..NrDps, trouble : BOOLEAN] /\ fault \in [Ports -> BOOLEAN]
      /\ late \subseteq Ports /\ list \in Seq(DPs)
  BY DEF IInv, Types, TypeOK, Ports
<1>3. job.name \in ScanPhases
  BY <1>1 DEF ScanPhases, ScanJobs
<1>4. cur = Nobody /\ wait = "no"
  BY <1>3 DEF IInv, Control
<1>5. scan.next = 0 /\ list = <<>> /\ chip.v2
  BY <1>1 DEF IInv, Scan
<1>6. ~scan.trouble => Quiet /\ Running(Below(scan.next))
  BY <1>3 DEF IInv, ScanProgress
<1>7. ~scan.trouble => Quiet' /\ Running(Below(scan.next))'
  BY <1>1, <1>6 DEF Quiet, Running, Below
<1>8. job' \in Jobs /\ job'.name = "loop" /\ "loop" \in ScanPhases
  BY <1>1, PhaseFacts
<1>9. Scan'
  BY <1>1, <1>5, <1>8 DEF Scan
<1>10. Range(list)' = {} /\ Below(scan.next)' = {}
  BY <1>1, <1>5, EmptyRange, BelowFacts DEF Below
<1>11. ScanProgress'
  BY <1>1, <1>7, <1>8, <1>10 DEF ScanProgress
<1> QED
  BY <1>1, <1>2, <1>4, <1>5, <1>8, <1>9, <1>11, NoAccess, PhaseIInv

\* The probe of port d starts.
LEMMA ProbeIInv ==
    ASSUME IInv, job.name \in {"loop", "pick"}, NEW d \in DPs, d = scan.next,
           ~chip.v2 => d = 0 /\ sel = 0,
           ~scan.trouble => sel = d /\ d \in chip.dps,
           job' = Job("init", d), todo' = adiv5_dp_init(d),
           fault' = [fault EXCEPT ![d] = fault[Initial]],
           UNCHANGED <<chip, sel, sticky, busy, core, rdbuf, trouble>>,
           UNCHANGED <<list, cur, wait, scan, reply, wrong, late>>
    PROVE  IInv'
<1>1. PICK s : s = adiv5_dp_init(d)
  OBVIOUS
<1>2. /\ s \in Seq(Entries)
      /\ Among(s, (Kinds \ {"reset", "targetsel"}) \X {d})
      /\ Range(list) = Below(d) => BeforeProbe(s, d)
  BY <1>1, DpInitFacts
<1>3. /\ scan \in [next : 0..NrDps, trouble : BOOLEAN] /\ fault \in [Ports -> BOOLEAN]
      /\ late \subseteq Ports /\ list \in Seq(DPs)
  BY DEF IInv, Types, TypeOK, Ports
<1>4. "init" \in ScanPhases /\ job.name \in ScanPhases /\ d \in Ports /\ Initial \in Ports
  BY ConstantFacts DEF ScanPhases, ScanJobs
<1>5. cur = Nobody /\ wait = "no" /\ (~chip.v2 => Among(list, {0}))
  BY <1>4 DEF IInv, Control
<1>6. job' \in Jobs /\ job'.name = "init" /\ job'.d = d
  <2>1. "init" \in {"idle"} \cup SessionJobs \cup ScanPhases /\ d \in Ports \cup {Nobody}
    BY <1>4
  <2>2. /\ Job("init", d) \in Jobs /\ Job("init", d).name = "init" /\ Job("init", d).d = d
    BY <2>1, JobFacts
  <2> QED
    BY <2>2
<1>7. fault' \in [Ports -> BOOLEAN] /\ \A p \in Ports : fault'[p] \in {fault[p], fault[Initial]}
  BY <1>3, <1>4
<1>8. /\ Among(s, Kinds \X DPs) /\ Among(s, (Kinds \ {"reset", "targetsel"}) \X DPs)
      /\ ~chip.v2 => Among(s, Kinds \X {0, Initial})
      /\ \A i \in 1..Len(s) : s[i][1] \in Decisions => s[i][2] = d
  BY <1>2 DEF Among
<1>9. Scan'
  BY <1>1, <1>6, <1>8 DEF Scan
<1>10. ScanProgress'
  <2>1. ASSUME ~scan.trouble
        PROVE  Quiet /\ Range(list) = Below(scan.next) /\ Running(Below(scan.next))
    BY <1>4, <2>1 DEF IInv, ScanProgress
  <2>2. ASSUME ~scan.trouble PROVE Quiet' /\ Running(Below(scan.next))'
    BY <1>4, <1>7, <2>1, <2>2 DEF Quiet, Running, Below
  <2>3. ASSUME ~scan.trouble PROVE BeforeProbe(todo, job.d)'
    <3>1. BeforeProbe(s, d)
      BY <1>2, <2>1, <2>3
    <3> QED
      BY <1>1, <1>6, <3>1 DEF BeforeProbe, Below
  <2> QED
    BY <1>1, <1>6, <1>8, <2>2, <2>3 DEF ScanProgress
<1> QED
  BY <1>1, <1>2, <1>3, <1>4, <1>5, <1>6, <1>7, <1>8, <1>9, <1>10, PhaseIInv

LEMMA ScanLoopIInv ==
    ASSUME IInv, ScanLoop
    PROVE  IInv'
<1>1. /\ job.name = "loop"
      /\ UNCHANGED <<chip, sel, sticky, busy, core, rdbuf, trouble>>
      /\ UNCHANGED <<list, cur, wait, reply, wrong, late>>
  BY DEF ScanLoop, bus
<1>2. /\ scan \in [next : 0..NrDps, trouble : BOOLEAN] /\ fault \in [Ports -> BOOLEAN]
      /\ late \subseteq Ports /\ list \in Seq(DPs)
  BY DEF IInv, Types, TypeOK, Ports
<1>3. job.name \in ScanPhases
  BY <1>1, PhaseFacts
<1>4. cur = Nobody /\ wait = "no" /\ (~chip.v2 => Among(list, {0}))
  BY <1>3 DEF IInv, Control
<1>5. ~chip.v2 => sel = 0 /\ scan.next <= 1
  BY <1>1 DEF IInv, Scan
<1>6. ~scan.trouble => Quiet /\ Running(Below(scan.next)) /\ Range(list) = Below(scan.next)
  BY <1>1, <1>3 DEF IInv, ScanProgress
<1>7. CASE /\ scan.next < NrDps /\ chip.v2
           /\ job' = Job("pick", scan.next) /\ todo' = Reselect(scan.next, Initial)
           /\ UNCHANGED <<fault, scan>>
  <2>1. PICK d \in DPs : d = scan.next
    BY <1>2, <1>7, ConstantFacts
  <2>2. PICK r : r = Reselect(d, Initial)
    OBVIOUS
  <2>3. "pick" \in ScanPhases /\ d \in Ports /\ Initial \in Ports
    BY ConstantFacts DEF ScanPhases, ScanJobs
  <2>4. job' \in Jobs /\ job'.name = "pick" /\ job'.d = d
    <3>1. job' = Job("pick", d)
      BY <1>7, <2>1
    <3> QED
      BY <2>3, <3>1, JobFacts
  <2>5. /\ r \in Seq(SessionKinds \X {d, Initial}) /\ Len(r) = 3
        /\ r[1] = <<"reset", d>> /\ r[2] = <<"targetsel", d>> /\ r[3] = <<"idcode", Initial>>
    BY <2>2, <2>3, ReselectFacts
  <2>6. r \in Seq(Entries)
    <3>1. SessionKinds \X {d, Initial} \subseteq Entries
      BY <2>3, KindFacts DEF Entries
    <3> QED
      BY <2>5, <3>1, SeqMonotonic
  <2>7. \A i \in 1..3 : i = 1 \/ i = 2 \/ i = 3
    OBVIOUS
  <2>8. /\ Among(r, {<<"reset", d>>, <<"targetsel", d>>, <<"idcode", Initial>>})
        /\ Chained(r, {"reset", "targetsel"})
    <3>1. Among(r, {<<"reset", d>>, <<"targetsel", d>>, <<"idcode", Initial>>})
      BY <2>5, <2>7 DEF Among
    <3>2. r[1][1] = "reset" /\ r[2][1] = "targetsel" /\ r[3][1] = "idcode"
      BY <2>5
    <3>3. Chained(r, {"reset", "targetsel"})
      BY <2>5, <2>7, <3>2 DEF Chained, Follows
    <3> QED
      BY <3>1, <3>3
  <2>9. Scan'
    BY <1>1, <1>7, <2>1, <2>2, <2>4, <2>8 DEF Scan
  <2>10. r # <<>> /\ ~NextIs(r, {"idcode"})
    BY <2>5 DEF NextIs
  <2>11. ScanProgress'
    <3>1. ~scan.trouble => Quiet' /\ Running(Below(scan.next))' /\ Range(list)' = Below(scan.next)'
      BY <1>1, <1>6, <1>7 DEF Quiet, Running, Below
    <3> QED
      BY <1>7, <2>1, <2>2, <2>4, <2>10, <3>1 DEF ScanProgress
  <2> QED
    BY <1>1, <1>2, <1>4, <1>7, <2>1, <2>2, <2>3, <2>4, <2>6, <2>9, <2>11, PhaseIInv
<1>8. CASE /\ scan.next = 0 /\ ~chip.v2
           /\ job' = Job("init", 0) /\ todo' = adiv5_dp_init(0)
           /\ fault' = [fault EXCEPT ![0] = fault[Initial]] /\ UNCHANGED scan
  <2>1. PICK d \in DPs : d = 0
    BY ConstantFacts
  <2>2. chip.dps = {0}
    BY <1>8, BelowFacts
  <2> QED
    BY <1>1, <1>5, <1>8, <2>1, <2>2, ProbeIInv
<1>9. CASE /\ scan.next = (IF chip.v2 THEN NrDps ELSE 1) /\ Scanned(FALSE) /\ UNCHANGED fault
  <2>1. /\ job' = Job("scanned", Nobody) /\ todo' = <<>>
        /\ scan' = [scan EXCEPT !.trouble = scan.trouble \/ FALSE]
    BY <1>9 DEF Scanned
  <2>2. job' \in Jobs /\ job'.name = "scanned" /\ job'.d = Nobody /\ "scanned" \in ScanPhases
    BY <2>1, PhaseFacts
  <2>3. scan' = scan
    BY <1>2, <2>1
  <2>4. Below(scan.next) = chip.dps
    BY <1>9, BelowFacts
  <2>5. ~scan.trouble => Quiet' /\ Running(Below(scan.next))' /\ Range(list)' = Below(scan.next)'
    BY <1>1, <1>6, <1>9, <2>3 DEF Quiet, Running, Below
  <2>6. Below(scan.next)' = chip'.dps
    BY <1>1, <2>3, <2>4 DEF Below
  <2>7. Scan' /\ ScanProgress'
    BY <2>2, <2>3, <2>5, <2>6 DEF Scan, ScanProgress
  <2> QED
    BY <1>1, <1>2, <1>4, <1>9, <2>1, <2>2, <2>3, <2>7, NoAccess, PhaseIInv
<1> QED
  BY <1>7, <1>8, <1>9 DEF ScanLoop

LEMMA PickedIInv ==
    ASSUME IInv, Picked
    PROVE  IInv'
<1>1. /\ job.name = "pick" /\ todo = <<>>
      /\ UNCHANGED <<chip, sel, sticky, busy, core, rdbuf, trouble>>
      /\ UNCHANGED <<list, cur, wait, reply, wrong, late>>
  BY DEF Picked, Ended, bus
<1>2. job.name \in ScanPhases
  BY <1>1 DEF ScanPhases, ScanJobs
<1>3. chip.v2 /\ scan.next \in DPs /\ job.d = scan.next
  BY <1>1 DEF IInv, Scan
<1>4. ~scan.trouble => Quiet /\ sel = job.d /\ job.d \in chip.dps
  BY <1>1, <1>2 DEF IInv, ScanProgress
<1>5. CASE fault[Initial] /\ NextDp /\ UNCHANGED fault
  <2>1. scan.trouble
    BY <1>4, <1>5, ConstantFacts DEF Quiet
  <2> QED
    BY <1>1, <1>5, <2>1, NextDpIInv
<1>6. CASE /\ fault' = [fault EXCEPT ![job.d] = fault[Initial]]
           /\ job' = Job("init", job.d) /\ todo' = adiv5_dp_init(job.d) /\ UNCHANGED scan
  BY <1>1, <1>3, <1>4, <1>6, ProbeIInv
<1> QED
  BY <1>5, <1>6 DEF Picked

LEMMA DpDoneIInv ==
    ASSUME IInv, DpDone
    PROVE  IInv'
<1>1. /\ job.name = "init" /\ todo = <<>> /\ NextDp
      /\ UNCHANGED <<chip, sel, sticky, busy, core, rdbuf, trouble>>
      /\ UNCHANGED <<fault, list, cur, wait, reply, wrong, late>>
  BY DEF DpDone, Ended, bus
<1>2. job.name \in ScanPhases
  BY <1>1 DEF ScanPhases, ScanJobs
<1>3. scan.next \in DPs /\ job.d = scan.next
  BY <1>1 DEF IInv, Scan
<1>4. ASSUME ~scan.trouble
      PROVE  Range(list) = Below(scan.next + 1) /\ Running(Below(scan.next + 1))
  <2>1. /\ Running(Below(scan.next)) /\ job.d \in chip.dps
        /\ BeforeProbe(todo, job.d) \/ AfterProbe(todo, job.d)
    BY <1>1, <1>2, <1>4 DEF IInv, ScanProgress
  <2>2. 1..Len(todo) = {}
    BY <1>1
  <2>3. Range(list) = Below(job.d + 1) /\ core[job.d] = "run"
    BY <2>1, <2>2 DEF BeforeProbe, AfterProbe
  <2>4. Below(scan.next + 1) = Below(scan.next) \cup {scan.next}
    BY <1>3, <2>1, BelowFacts
  <2> QED
    BY <1>3, <2>1, <2>3, <2>4 DEF Running
<1> QED
  BY <1>1, <1>4, NextDpIInv

-----------------------------------------------------------------------------
(***************************************************************************)
(* The end of an operation.                                                *)
(***************************************************************************)
LEMMA IdleIInv ==
    ASSUME IInv, job' = Idle, todo' = <<>>,
           UNCHANGED <<chip, sel, sticky, busy, core, rdbuf, trouble>>,
           UNCHANGED <<fault, list, scan, wrong, late>>,
           cur' \in DPs \cup {Nobody}, ~chip.v2 => cur' \in {0, Nobody},
           wait' \in {"poll", "key", "no"}, wait' # "no" => cur' # Nobody,
           cur' # Nobody => OnPort(cur') /\ Explained(cur'),
           reply' \in [bad : BOOLEAN, late : BOOLEAN, err : BOOLEAN], ReportIsExact'
    PROVE  IInv'
<1>1. job' \in Jobs /\ job'.name = "idle" /\ job'.d = Nobody
  BY IdleFacts
<1>2. job'.name \notin SessionJobs /\ job'.name \notin ScanPhases
  BY <1>1, NameFacts
<1>3. Types'
  BY <1>1, NoAccess DEF IInv, Types, TypeOK
<1>4. Control'
  BY <1>1, <1>2, NoAccess DEF IInv, Control
<1>5. Session' /\ MemPacket'
  BY <1>1, <1>2 DEF Session, MemPacket
<1>6. Between'
  BY DEF Between, OnPort, Explained
<1>7. Scan' /\ ScanProgress'
  BY <1>1, <1>2 DEF Scan, ScanProgress
<1> QED
  BY <1>3, <1>4, <1>5, <1>6, <1>7 DEF IInv

LEMMA SessionEnd ==
    ASSUME IInv, job.name \in SessionJobs, todo = <<>>
    PROVE  /\ job.d \in DPs /\ (job.name # "attach" => job.d = cur)
           /\ OnPort(job.d) /\ Explained(job.d)
           /\ ~chip.v2 => job.d = 0
           /\ wait # "no" => job.name \in {"resume", "haltreq", "poll"}
<1>1. /\ job.d \in DPs /\ (job.name # "attach" => job.d = cur)
      /\ OnPort(job.d) \/ Selecting(todo, job.d)
      /\ Explained(job.d) \/ Recovering(todo)
  BY DEF IInv, Session
<1>2. ~Selecting(todo, job.d) /\ ~Recovering(todo)
  BY NoAccess DEF Selecting, Recovering
<1>3. ~chip.v2 => job.d = 0
  BY <1>1, ConstantFacts DEF IInv, Control
<1>4. job.name # "idle"
  BY NameFacts
<1>5. wait # "no" => job.name \in {"resume", "haltreq", "poll"}
  BY <1>4 DEF IInv, Control
<1> QED
  BY <1>1, <1>2, <1>3, <1>5

LEMMA ScanDoneIInv ==
    ASSUME IInv, ScanDone
    PROVE  IInv'
<1>1. /\ job.name = "scanned" /\ job' = Idle /\ todo' = todo
      /\ UNCHANGED <<chip, sel, sticky, busy, core, rdbuf, trouble>>
      /\ UNCHANGED <<fault, list, cur, wait, scan, reply, wrong, late>>
  BY DEF ScanDone, bus
<1>2. todo = <<>> /\ cur = Nobody /\ wait = "no"
  BY <1>1, PhaseFacts DEF IInv, Control
<1>3. reply \in [bad : BOOLEAN, late : BOOLEAN, err : BOOLEAN] /\ ReportIsExact'
  BY <1>1 DEF IInv, Types, TypeOK, ReportIsExact
<1> QED
  BY <1>1, <1>2, <1>3, IdleIInv

LEMMA AttachedIInv ==
    ASSUME IInv, Attached
    PROVE  IInv'
<1>1. /\ job.name = "attach" /\ todo = <<>> /\ job' = Idle /\ todo' = todo
      /\ cur' \in {job.d, Nobody}
      /\ UNCHANGED <<chip, sel, sticky, busy, core, rdbuf, trouble>>
      /\ UNCHANGED <<fault, list, wait, scan, reply, wrong, late>>
  BY DEF Attached, Ended, bus
<1>2. job.name \in SessionJobs
  BY <1>1 DEF SessionJobs
<1>3. /\ job.d \in DPs /\ OnPort(job.d) /\ Explained(job.d) /\ (~chip.v2 => job.d = 0)
      /\ wait = "no"
  BY <1>1, <1>2, SessionEnd
<1>4. reply \in [bad : BOOLEAN, late : BOOLEAN, err : BOOLEAN] /\ ReportIsExact'
  BY <1>1 DEF IInv, Types, TypeOK, ReportIsExact
<1> QED
  BY <1>1, <1>3, <1>4, IdleIInv

LEMMA PacketDoneIInv ==
    ASSUME IInv, PacketDone
    PROVE  IInv'
<1>1. /\ job.name \in {"mem", "regs", "reset", "detach", "stop"}
      /\ todo = <<>> /\ job' = Idle /\ todo' = todo
      /\ reply' = IF job.name = "mem" THEN [bad |-> job.bad, late |-> job.late, err |-> job.err] ELSE reply
      /\ cur' \in {cur, Nobody}
      /\ UNCHANGED <<chip, sel, sticky, busy, core, rdbuf, trouble>>
      /\ UNCHANGED <<fault, list, wait, scan, wrong, late>>
  BY DEF PacketDone, bus
<1>2. job.name \in SessionJobs
  BY <1>1 DEF SessionJobs
<1>3. /\ job.d \in DPs /\ OnPort(job.d) /\ Explained(job.d) /\ (~chip.v2 => job.d = 0)
      /\ wait = "no" /\ job.d = cur
  BY <1>1, <1>2, SessionEnd
<1>4. job \in Jobs /\ reply \in [bad : BOOLEAN, late : BOOLEAN, err : BOOLEAN] /\ ReportIsExact
  BY DEF IInv, Types, TypeOK
<1>5. reply' \in [bad : BOOLEAN, late : BOOLEAN, err : BOOLEAN]
  BY <1>1, <1>4 DEF Jobs
<1>6. ReportIsExact'
  <2>1. CASE job.name = "mem"
    <3>1. /\ job.err => job.bad
          /\ job.bad => job.err \/ job.late
      BY <1>1, <2>1 DEF IInv, MemPacket, Checked
    <3>2. reply'.bad = job.bad /\ reply'.err = job.err /\ reply'.late = job.late
      BY <1>1, <2>1
    <3> QED
      BY <3>1, <3>2 DEF ReportIsExact
  <2>2. CASE job.name # "mem"
    BY <1>1, <1>4, <2>2 DEF ReportIsExact
  <2> QED
    BY <2>1, <2>2
<1> QED
  BY <1>1, <1>3, <1>5, <1>6, IdleIInv

\* An operation of the wait for a halt ends, and the wait goes on.
LEMMA WaitGoesOn ==
    ASSUME IInv, job.name \in {"resume", "haltreq", "poll"}, todo = <<>>, job' = Idle,
           UNCHANGED <<chip, sel, sticky, busy, core, rdbuf, trouble>>,
           UNCHANGED <<fault, list, cur, wait, todo, scan, reply, wrong, late>>
    PROVE  IInv'
<1>1. job.name \in SessionJobs
  BY DEF SessionJobs
<1>2. /\ job.d \in DPs /\ OnPort(job.d) /\ Explained(job.d) /\ (~chip.v2 => job.d = 0)
      /\ job.d = cur
  BY <1>1, SessionEnd
<1>3. /\ reply \in [bad : BOOLEAN, late : BOOLEAN, err : BOOLEAN] /\ ReportIsExact'
      /\ wait \in {"poll", "key", "no"} /\ (wait # "no" => cur # Nobody)
  BY DEF IInv, Types, TypeOK, ReportIsExact, Control
<1> QED
  BY <1>2, <1>3, IdleIInv

LEMMA ResumedIInv ==
    ASSUME IInv, Resumed
    PROVE  IInv'
BY WaitGoesOn DEF Resumed, bus

LEMMA CoreHaltsIInv ==
    ASSUME IInv, CoreHalts
    PROVE  IInv'
<1>1. /\ wait # "no" /\ core' = [core EXCEPT ![cur] = "halt"]
      /\ UNCHANGED <<chip, sel, sticky, busy, rdbuf, trouble, fault, list, cur>>
      /\ UNCHANGED <<wait, job, todo, scan, reply, wrong, late>>
  BY DEF CoreHalts
<1>2. Types'
  BY <1>1 DEF IInv, Types, TypeOK
<1>3. Control' /\ Session' /\ Between' /\ MemPacket' /\ Scan'
  BY <1>1 DEF IInv, Control, Session, Between, MemPacket, Scan, OnPort, Selecting, Explained
<1>4. job.name \notin ScanPhases
  BY <1>1 DEF IInv, Control
<1>5. ScanProgress'
  BY <1>1, <1>4 DEF ScanProgress
<1> QED
  BY <1>1, <1>2, <1>3, <1>5 DEF IInv, ReportIsExact

-----------------------------------------------------------------------------
(***************************************************************************)
(* The start of an operation of a session.                                 *)
(***************************************************************************)
Plan(s, d, k) ==
    /\ s \in Seq(SessionKinds \X {d}) /\ Chained(s, Recovery)
    /\ s # <<>> /\ s[1][1] = k

LEMMA PlanConcat ==
    ASSUME NEW d, NEW k, NEW l, NEW s, NEW t, Plan(s, d, k), Plan(t, d, l)
    PROVE  Plan(s \o t, d, k)
<1>1. s \in Seq(SessionKinds \X {d}) /\ t \in Seq(SessionKinds \X {d})
  BY DEF Plan
<1>2. PICK u : u = s \o t
  OBVIOUS
<1>3. /\ u \in Seq(SessionKinds \X {d}) /\ Len(s) \in Nat /\ Len(t) \in Nat
      /\ Len(u) = Len(s) + Len(t)
      /\ \A i \in 1..Len(s) : u[i] = s[i]
  BY <1>1, <1>2, ConcatFacts
<1>4. Len(s) # 0
  BY <1>1, EmptySeq DEF Plan
<1>5. Len(u) # 0 /\ 1 \in 1..Len(s)
  <2>1. Len(s) \in Nat /\ Len(t) \in Nat /\ Len(u) = Len(s) + Len(t)
    BY <1>3
  <2> QED
    BY <1>4, <2>1
<1>6. u # <<>> /\ u[1] = s[1]
  BY <1>3, <1>5
<1>7. Chained(s, Recovery) /\ Chained(t, Recovery)
  BY DEF Plan
<1>8. Chained(u, Recovery)
  BY <1>1, <1>2, <1>7, ConcatChained
<1> QED
  BY <1>2, <1>3, <1>6, <1>8 DEF Plan

LEMMA PlanParts ==
    ASSUME NEW d \in DPs
    PROVE  /\ Plan(MemRead(d), d, "select")
           /\ \A w \in Transactions : Plan(MemWrite(d, w), d, "select")
           /\ Plan(Call(d), d, "error")
<1>1. d \in Ports
  BY ConstantFacts
<1>2. Plan(MemRead(d), d, "select")
  <2>1. PICK r : r = MemRead(d)
    OBVIOUS
  <2>2. /\ r \in Seq(SessionKinds \X {d}) /\ Chained(r, Recovery) /\ Len(r) = 4
        /\ r[1] = <<"select", d>>
    BY <1>1, <2>1, MemReadFacts
  <2>3. r # <<>> /\ r[1][1] = "select"
    BY <2>2
  <2> QED
    BY <2>1, <2>2, <2>3 DEF Plan
<1>3. ASSUME NEW w \in Transactions PROVE Plan(MemWrite(d, w), d, "select")
  <2>1. PICK r : r = MemWrite(d, w)
    OBVIOUS
  <2>2. /\ r \in Seq(SessionKinds \X {d}) /\ Chained(r, Recovery) /\ Len(r) = 3
        /\ r[1] = <<"select", d>>
    BY <1>1, <2>1, MemWriteFacts
  <2>3. r # <<>> /\ r[1][1] = "select"
    BY <2>2
  <2> QED
    BY <2>1, <2>2, <2>3 DEF Plan
<1>4. Plan(Call(d), d, "error")
  <2>1. PICK r : r = Call(d)
    OBVIOUS
  <2>2. /\ r \in Seq(SessionKinds \X {d}) /\ Chained(r, Recovery) /\ Len(r) = 1
        /\ r[1] = <<"error", d>>
    BY <1>1, <2>1, CallFacts
  <2>3. r # <<>> /\ r[1][1] = "error"
    <3>1. r # <<>>
      BY <2>2, EmptySeq
    <3>2. r[1][1] = "error"
      BY <2>2
    <3> QED
      BY <3>1, <3>2
  <2> QED
    BY <2>1, <2>2, <2>3 DEF Plan
<1> QED
  BY <1>2, <1>3, <1>4

LEMMA BeginIInv ==
    ASSUME IInv, NEW n \in SessionJobs, NEW d \in DPs, NEW k, NEW s, Plan(s, d, k),
           job' = Job(n, d), todo' = s,
           UNCHANGED <<chip, sel, sticky, busy, core, rdbuf, trouble>>,
           UNCHANGED <<list, scan, reply, wrong, late>>,
           fault' \in [Ports -> BOOLEAN],
           cur' \in DPs \cup {Nobody}, n # "attach" => d = cur',
           ~chip.v2 => d = 0 /\ cur' \in {0, Nobody},
           wait' \in {"poll", "key", "no"},
           wait' # "no" => cur' # Nobody /\ n \in {"resume", "haltreq", "poll"},
           OnPort(d) \/ (k = "error" /\ fault'[d] /\ chip.v2),
           k = "error" \/ (Explained(d) /\ fault' = fault),
           n = "mem" => MemPlan(s) /\ k = "select"
    PROVE  IInv'
<1>1. /\ s \in Seq(SessionKinds \X {d}) /\ Chained(s, Recovery)
      /\ s # <<>> /\ s[1][1] = k
  BY DEF Plan
<1>2. /\ job' \in Jobs /\ job'.name = n /\ job'.d = d
      /\ job'.bad = FALSE /\ job'.late = FALSE /\ job'.err = FALSE
  <2>1. n \in {"idle"} \cup SessionJobs \cup ScanPhases /\ d \in Ports \cup {Nobody}
    BY ConstantFacts
  <2>2. /\ Job(n, d) \in Jobs /\ Job(n, d).name = n /\ Job(n, d).d = d
        /\ Job(n, d).bad = FALSE /\ Job(n, d).late = FALSE /\ Job(n, d).err = FALSE
    BY <2>1, JobFacts
  <2> QED
    BY <2>2
<1>3. n \notin ScanPhases /\ n \notin {"idle", "loop", "scanned"}
  BY DEF SessionJobs, ScanPhases, ScanJobs
<1>4. s \in Seq(Entries) /\ Among(s, SessionKinds \X {d})
  <2>1. SessionKinds \X {d} \subseteq Entries
    BY KindFacts, ConstantFacts DEF Entries
  <2> QED
    BY <1>1, <2>1, SeqMonotonic, ElementOfSeq DEF Among
<1>5. Types'
  BY <1>2, <1>4 DEF IInv, Types, TypeOK, Ports
<1>6. ~chip.v2 => Among(s, Kinds \X {0, Initial})
  BY <1>4, KindFacts DEF Among
<1>7. Control'
  BY <1>2, <1>3, <1>6 DEF IInv, Control
<1>8. Session'
  <2>1. OnPort(d)' \/ (NextIs(s, {"error"}) /\ fault'[d] /\ chip'.v2)
    BY <1>1 DEF OnPort, NextIs
  <2>2. Explained(d)' \/ Recovering(s)
    BY <1>1 DEF Explained, Recovering, NextIs
  <2> QED
    BY <1>1, <1>2, <1>4, <2>1, <2>2 DEF Session, OnPort, Selecting, Explained
<1>9. Between'
  BY <1>2, <1>3 DEF Between
<1>10. MemPacket'
  <2>1. n = "mem" => ~Checked(s) /\ NextIs(s, {"select"})
    BY <1>1 DEF Checked, NextIs
  <2> QED
    BY <1>2, <2>1 DEF MemPacket
<1>11. Scan'
  BY <1>2, <1>3 DEF Scan, ScanPhases, ScanJobs
<1>12. ScanProgress'
  BY <1>2, <1>3 DEF ScanProgress
<1> QED
  BY <1>5, <1>7, <1>8, <1>9, <1>10, <1>11, <1>12 DEF IInv, ReportIsExact

LEMMA AttachIInv ==
    ASSUME IInv, NEW d \in DPs, Attach(d)
    PROVE  IInv'
<1>1. PICK s : s = Call(d) \o Call(d) \o MemWrite(d, "halt") \o MemWrite(d, "write") \o MemRead(d)
  OBVIOUS
<1>2. /\ job = Idle /\ wait = "no" /\ d \in Range(list)
      /\ fault' = [fault EXCEPT ![d] = TRUE]
      /\ job' = Job("attach", d) /\ todo' = s
      /\ cur' = IF cur = d THEN Nobody ELSE cur
      /\ UNCHANGED <<chip, sel, sticky, busy, core, rdbuf, trouble>>
      /\ UNCHANGED <<list, wait, scan, reply, wrong, late>>
  BY <1>1 DEF Attach, CanCommand, Begin, bus
<1>3. "halt" \in Transactions /\ "write" \in Transactions /\ "attach" \in SessionJobs
  BY DEF Transactions, SessionJobs
<1>4. Plan(s, d, "error")
  <2>1. PICK w : w = MemWrite(d, "halt")
    OBVIOUS
  <2>2. PICK x : x = MemWrite(d, "write")
    OBVIOUS
  <2>3. Plan(Call(d), d, "error") /\ Plan(w, d, "select") /\ Plan(x, d, "select")
        /\ Plan(MemRead(d), d, "select")
    BY <1>3, <2>1, <2>2, PlanParts
  <2>4. PICK a : a = Call(d) \o Call(d)
    OBVIOUS
  <2>5. Plan(a, d, "error")
    BY <2>3, <2>4, PlanConcat
  <2>6. PICK b : b = a \o w
    OBVIOUS
  <2>7. Plan(b, d, "error")
    BY <2>3, <2>5, <2>6, PlanConcat
  <2>8. PICK c : c = b \o x
    OBVIOUS
  <2>9. Plan(c, d, "error")
    BY <2>3, <2>7, <2>8, PlanConcat
  <2>10. s = c \o MemRead(d)
    BY <1>1, <2>1, <2>2, <2>4, <2>6, <2>8
  <2> QED
    BY <2>3, <2>9, <2>10, PlanConcat
<1>5. fault \in [Ports -> BOOLEAN] /\ cur \in DPs \cup {Nobody} /\ list \in Seq(DPs)
  BY DEF IInv, Types, TypeOK, Ports
<1>6. fault' \in [Ports -> BOOLEAN] /\ fault'[d] = TRUE
  BY <1>2, <1>5, ConstantFacts
<1>7. cur' \in DPs \cup {Nobody} /\ cur' \in {cur, Nobody}
  BY <1>2, <1>5
<1>8. ASSUME ~chip.v2 PROVE d = 0 /\ cur' \in {0, Nobody} /\ OnPort(d)
  <2>1. sel \in {0, Nobody} /\ cur \in {0, Nobody} /\ Among(list, {0})
    BY <1>8 DEF IInv, Control
  <2>2. d = 0
    <3>1. DOMAIN list = 1..Len(list)
      BY <1>5, LenProperties
    <3> QED
      BY <1>2, <2>1, <3>1 DEF Range, Among
  <2> QED
    BY <1>7, <2>1, <2>2 DEF OnPort
<1> QED
  BY <1>2, <1>3, <1>4, <1>6, <1>7, <1>8, BeginIInv

\* An operation of the target that is attached.
LEMMA CurrentFacts ==
    ASSUME IInv, job.name = "idle" \/ (job.name = "poll" /\ todo = <<>>), cur # Nobody
    PROVE  /\ cur \in DPs /\ OnPort(cur) /\ Explained(cur)
           /\ ~chip.v2 => cur = 0
           /\ fault \in [Ports -> BOOLEAN]
<1>1. cur \in DPs /\ fault \in [Ports -> BOOLEAN]
  BY DEF IInv, Types, TypeOK, Ports
<1>2. ~chip.v2 => cur = 0
  BY DEF IInv, Control
<1>3. CASE job.name = "idle"
  BY <1>1, <1>2, <1>3 DEF IInv, Between
<1>4. CASE job.name = "poll" /\ todo = <<>>
  <2>1. job.name \in SessionJobs
    BY <1>4 DEF SessionJobs
  <2> QED
    BY <1>1, <1>2, <1>4, <2>1, SessionEnd
<1> QED
  BY <1>3, <1>4

LEMMA CurrentIInv ==
    ASSUME IInv, job.name = "idle" \/ (job.name = "poll" /\ todo = <<>>), cur # Nobody,
           NEW n \in SessionJobs, n # "attach", NEW s, Plan(s, cur, "select"),
           n = "mem" => MemPlan(s), job' = Job(n, cur), todo' = s,
           wait' \in {"poll", "key", "no"},
           wait' # "no" => n \in {"resume", "haltreq", "poll"},
           UNCHANGED <<chip, sel, sticky, busy, core, rdbuf, trouble>>,
           UNCHANGED <<fault, list, cur, scan, reply, wrong, late>>
    PROVE  IInv'
<1>1. PICK d \in DPs : d = cur
  BY CurrentFacts
<1>2. /\ OnPort(d) /\ Explained(d) /\ (~chip.v2 => d = 0) /\ fault' \in [Ports -> BOOLEAN]
      /\ d # Nobody /\ d = cur'
  BY <1>1, CurrentFacts
<1>3. job' = Job(n, d) /\ Plan(s, d, "select")
  BY <1>1
<1> QED
  BY <1>2, <1>3, BeginIInv

LEMMA MemPacketPlans ==
    ASSUME NEW d \in DPs
    PROVE  /\ MemPlan(MemRead(d) \o Call(d))
           /\ MemPlan(MemWrite(d, "write") \o Call(d))
<1>1. d \in Ports /\ "write" \in Transactions
  BY ConstantFacts DEF Transactions
<1>2. PICK c : c = Call(d)
  OBVIOUS
<1>3. c \in Seq(SessionKinds \X {d}) /\ Len(c) = 1 /\ c[1] = <<"error", d>>
  BY <1>1, <1>2, CallFacts
<1>4. ASSUME NEW m, m = MemRead(d) PROVE MemPlan(m \o c)
  <2>1. /\ m \in Seq(SessionKinds \X {d}) /\ Len(m) = 4
        /\ m[1] = <<"select", d>> /\ m[2] = <<"reg", d>>
        /\ m[3] = <<"read", d>> /\ m[4] = <<"rdbuff", d>>
    BY <1>1, <1>4, MemReadFacts
  <2>2. PICK u : u = m \o c
    OBVIOUS
  <2>3. m \in Seq(SessionKinds \X {d}) /\ c \in Seq(SessionKinds \X {d})
    BY <1>3, <2>1
  <2>4. /\ Len(u) = Len(m) + Len(c)
        /\ \A i \in 1..Len(m) : u[i] = m[i]
        /\ \A i \in 1..Len(c) : u[Len(m) + i] = c[i]
    BY <2>2, <2>3, ConcatFacts
  <2>5. Len(u) = 5 /\ u[1] = m[1] /\ u[2] = m[2] /\ u[3] = m[3] /\ u[4] = m[4] /\ u[5] = c[1]
    <3>1. /\ 1 \in 1..4 /\ 2 \in 1..4 /\ 3 \in 1..4 /\ 4 \in 1..4 /\ 1 \in 1..1 /\ 4 + 1 = 5
      OBVIOUS
    <3> QED
      BY <1>3, <2>1, <2>4, <3>1
  <2>6. /\ u[1][1] = "select" /\ u[2][1] = "reg" /\ u[3][1] = "read" /\ u[4][1] = "rdbuff"
        /\ u[5][1] = "error"
    BY <1>3, <2>1, <2>5
  <2>7. ASSUME NEW i \in 1..5, i + 1 \in 1..5
        PROVE  /\ u[i][1] \notin {"error", "clear"}
               /\ u[i + 1][1] \notin {"abort", "clear"}
    <3>1. i = 1 \/ i = 2 \/ i = 3 \/ i = 4
      BY <2>7
    <3> QED
      BY <2>6, <3>1
  <2> QED
    BY <2>2, <2>5, <2>6, <2>7 DEF MemPlan
<1>5. ASSUME NEW m, m = MemWrite(d, "write") PROVE MemPlan(m \o c)
  <2>1. /\ m \in Seq(SessionKinds \X {d}) /\ Len(m) = 3
        /\ m[1] = <<"select", d>> /\ m[2] = <<"reg", d>> /\ m[3] = <<"write", d>>
    BY <1>1, <1>5, MemWriteFacts
  <2>2. PICK u : u = m \o c
    OBVIOUS
  <2>3. m \in Seq(SessionKinds \X {d}) /\ c \in Seq(SessionKinds \X {d})
    BY <1>3, <2>1
  <2>4. /\ Len(u) = Len(m) + Len(c)
        /\ \A i \in 1..Len(m) : u[i] = m[i]
        /\ \A i \in 1..Len(c) : u[Len(m) + i] = c[i]
    BY <2>2, <2>3, ConcatFacts
  <2>5. Len(u) = 4 /\ u[1] = m[1] /\ u[2] = m[2] /\ u[3] = m[3] /\ u[4] = c[1]
    <3>1. /\ 1 \in 1..3 /\ 2 \in 1..3 /\ 3 \in 1..3 /\ 1 \in 1..1 /\ 3 + 1 = 4
      OBVIOUS
    <3> QED
      BY <1>3, <2>1, <2>4, <3>1
  <2>6. /\ u[1][1] = "select" /\ u[2][1] = "reg" /\ u[3][1] = "write" /\ u[4][1] = "error"
    BY <1>3, <2>1, <2>5
  <2>7. ASSUME NEW i \in 1..4, i + 1 \in 1..4
        PROVE  /\ u[i][1] \notin {"error", "clear"}
               /\ u[i + 1][1] \notin {"abort", "clear"}
    <3>1. i = 1 \/ i = 2 \/ i = 3
      BY <2>7
    <3> QED
      BY <2>6, <3>1
  <2> QED
    BY <2>2, <2>5, <2>6, <2>7 DEF MemPlan
<1> QED
  BY <1>2, <1>4, <1>5

LEMMA PacketIInv ==
    ASSUME IInv, Packet
    PROVE  IInv'
<1>1. /\ job = Idle /\ wait = "no" /\ cur # Nobody
      /\ UNCHANGED <<chip, sel, sticky, busy, core, rdbuf, trouble>>
      /\ UNCHANGED <<fault, list, cur, wait, scan, reply, wrong, late>>
  BY DEF Packet, CanCommand, bus
<1>2. job.name = "idle"
  BY <1>1, IdleFacts
<1>3. PICK d \in DPs : d = cur
  BY <1>1, <1>2, CurrentFacts
<1>4. PICK r : r = MemRead(d)
  OBVIOUS
<1>5. PICK w : w = MemWrite(d, "write")
  OBVIOUS
<1>6. PICK h : h = MemWrite(d, "halt")
  OBVIOUS
<1>7. PICK g : g = MemWrite(d, "run")
  OBVIOUS
<1>8. PICK c : c = Call(d)
  OBVIOUS
<1>9. /\ Plan(r, d, "select") /\ Plan(w, d, "select") /\ Plan(h, d, "select")
      /\ Plan(g, d, "select") /\ Plan(c, d, "error")
  <2>1. "write" \in Transactions /\ "halt" \in Transactions /\ "run" \in Transactions
    BY DEF Transactions
  <2> QED
    BY <1>4, <1>5, <1>6, <1>7, <1>8, <2>1, PlanParts
<1>10. \A n \in {"mem", "regs", "reset", "detach"} : n \in SessionJobs /\ n # "attach"
  BY DEF SessionJobs
<1>11. ASSUME NEW n \in {"mem", "regs", "reset", "detach"}, NEW s, Plan(s, d, "select"),
              n = "mem" => MemPlan(s), job' = Job(n, d), todo' = s
       PROVE  IInv'
  BY <1>1, <1>2, <1>3, <1>10, <1>11, CurrentIInv
<1>12. CASE Begin("mem", cur, MemRead(cur) \o Call(cur))
  <2>1. Plan(r \o c, d, "select")
    BY <1>9, PlanConcat
  <2>2. MemPlan(r \o c)
    BY <1>4, <1>8, MemPacketPlans
  <2>3. job' = Job("mem", d) /\ todo' = r \o c
    BY <1>3, <1>4, <1>8, <1>12 DEF Begin
  <2> QED
    BY <1>11, <2>1, <2>2, <2>3
<1>13. CASE Begin("mem", cur, MemWrite(cur, "write") \o Call(cur))
  <2>1. Plan(w \o c, d, "select")
    BY <1>9, PlanConcat
  <2>2. MemPlan(w \o c)
    BY <1>5, <1>8, MemPacketPlans
  <2>3. job' = Job("mem", d) /\ todo' = w \o c
    BY <1>3, <1>5, <1>8, <1>13 DEF Begin
  <2> QED
    BY <1>11, <2>1, <2>2, <2>3
<1>14. CASE Begin("regs", cur, MemWrite(cur, "write") \o MemRead(cur))
  <2>1. Plan(w \o r, d, "select")
    BY <1>9, PlanConcat
  <2>2. job' = Job("regs", d) /\ todo' = w \o r
    BY <1>3, <1>4, <1>5, <1>14 DEF Begin
  <2> QED
    BY <1>11, <2>1, <2>2
<1>15. CASE Begin("reset", cur, MemRead(cur) \o MemRead(cur) \o MemWrite(cur, "halt") \o MemRead(cur)
                                  \o MemWrite(cur, "write") \o Call(cur))
  <2>1. PICK s1 : s1 = r \o r
    OBVIOUS
  <2>2. PICK s2 : s2 = s1 \o h
    OBVIOUS
  <2>3. PICK s3 : s3 = s2 \o r
    OBVIOUS
  <2>4. PICK s4 : s4 = s3 \o w
    OBVIOUS
  <2>5. Plan(s1, d, "select")
    BY <1>9, <2>1, PlanConcat
  <2>6. Plan(s2, d, "select")
    BY <1>9, <2>2, <2>5, PlanConcat
  <2>7. Plan(s3, d, "select")
    BY <1>9, <2>3, <2>6, PlanConcat
  <2>8. Plan(s4, d, "select")
    BY <1>9, <2>4, <2>7, PlanConcat
  <2>9. Plan(s4 \o c, d, "select")
    BY <1>9, <2>8, PlanConcat
  <2>10. job' = Job("reset", d) /\ todo' = s4 \o c
    BY <1>3, <1>4, <1>5, <1>6, <1>8, <1>15, <2>1, <2>2, <2>3, <2>4 DEF Begin
  <2> QED
    BY <1>11, <2>9, <2>10
<1>16. CASE Begin("detach", cur, MemWrite(cur, "write") \o MemWrite(cur, "run"))
  <2>1. Plan(w \o g, d, "select")
    BY <1>9, PlanConcat
  <2>2. job' = Job("detach", d) /\ todo' = w \o g
    BY <1>3, <1>5, <1>7, <1>16 DEF Begin
  <2> QED
    BY <1>11, <2>1, <2>2
<1> QED
  BY <1>12, <1>13, <1>14, <1>15, <1>16 DEF Packet

LEMMA ContinueIInv ==
    ASSUME IInv, Continue
    PROVE  IInv'
<1>1. /\ job = Idle /\ cur # Nobody /\ wait' = "poll"
      /\ job' = Job("resume", cur) /\ todo' = MemWrite(cur, "run")
      /\ UNCHANGED <<chip, sel, sticky, busy, core, rdbuf, trouble>>
      /\ UNCHANGED <<fault, list, cur, scan, reply, wrong, late>>
  BY DEF Continue, CanCommand, Begin, bus
<1>2. job.name = "idle" /\ "run" \in Transactions /\ "resume" \in SessionJobs
  BY <1>1, IdleFacts DEF Transactions, SessionJobs
<1>3. cur \in DPs
  BY <1>1, <1>2, CurrentFacts
<1>4. Plan(MemWrite(cur, "run"), cur, "select")
  BY <1>2, <1>3, PlanParts
<1> QED
  BY <1>1, <1>2, <1>4, CurrentIInv

LEMMA PollIInv ==
    ASSUME IInv, Poll
    PROVE  IInv'
<1>1. /\ job = Idle /\ wait = "poll" /\ wait' = "key"
      /\ job' = Job("poll", cur) /\ todo' = MemRead(cur)
      /\ UNCHANGED <<chip, sel, sticky, busy, core, rdbuf, trouble>>
      /\ UNCHANGED <<fault, list, cur, scan, reply, wrong, late>>
  BY DEF Poll, Begin, bus
<1>2. job.name = "idle" /\ cur # Nobody /\ "poll" \in SessionJobs
  BY <1>1, IdleFacts DEF IInv, Control, SessionJobs
<1>3. cur \in DPs
  BY <1>2, CurrentFacts
<1>4. Plan(MemRead(cur), cur, "select")
  BY <1>3, PlanParts
<1> QED
  BY <1>1, <1>2, <1>4, CurrentIInv

LEMMA PollDoneIInv ==
    ASSUME IInv, PollDone
    PROVE  IInv'
<1>1. /\ job.name = "poll" /\ todo = <<>>
      /\ UNCHANGED <<chip, sel, sticky, busy, core, rdbuf, trouble>>
      /\ UNCHANGED <<fault, list, cur, scan, reply, wrong, late>>
  BY DEF PollDone, Ended, bus
<1>2. CASE job' = Idle /\ UNCHANGED <<todo, wait>>
  BY <1>1, <1>2, WaitGoesOn
<1>3. CASE wait' = "no" /\ Begin("stop", cur, MemRead(cur) \o MemWrite(cur, "write"))
  <2>1. job.name \in SessionJobs /\ "stop" \in SessionJobs /\ "write" \in Transactions
    BY <1>1 DEF SessionJobs, Transactions
  <2>2. cur \in DPs /\ cur # Nobody
    BY <1>1, <2>1, SessionEnd, ConstantFacts
  <2>3. Plan(MemRead(cur), cur, "select") /\ Plan(MemWrite(cur, "write"), cur, "select")
    BY <2>1, <2>2, PlanParts
  <2>4. Plan(MemRead(cur) \o MemWrite(cur, "write"), cur, "select")
    BY <2>3, PlanConcat
  <2>5. job' = Job("stop", cur) /\ todo' = MemRead(cur) \o MemWrite(cur, "write")
    BY <1>3 DEF Begin
  <2> QED
    BY <1>1, <1>3, <2>1, <2>2, <2>4, <2>5, CurrentIInv
<1> QED
  BY <1>2, <1>3 DEF PollDone

LEMMA LookAtHostIInv ==
    ASSUME IInv, LookAtHost
    PROVE  IInv'
<1>1. /\ job = Idle /\ wait = "key" /\ wait' = "poll"
      /\ UNCHANGED <<chip, sel, sticky, busy, core, rdbuf, trouble>>
      /\ UNCHANGED <<fault, list, cur, scan, reply, wrong, late>>
  BY DEF LookAtHost, bus
<1>2. job.name = "idle" /\ cur # Nobody /\ "haltreq" \in SessionJobs /\ "halt" \in Transactions
  BY <1>1, IdleFacts DEF IInv, Control, SessionJobs, Transactions
<1>3. /\ cur \in DPs /\ OnPort(cur) /\ Explained(cur) /\ (~chip.v2 => cur = 0)
  BY <1>2, CurrentFacts
<1>4. CASE Begin("haltreq", cur, MemWrite(cur, "halt"))
  <2>1. Plan(MemWrite(cur, "halt"), cur, "select")
    BY <1>2, <1>3, PlanParts
  <2>2. job' = Job("haltreq", cur) /\ todo' = MemWrite(cur, "halt")
    BY <1>4 DEF Begin
  <2> QED
    BY <1>1, <1>2, <2>1, <2>2, CurrentIInv
<1>5. CASE UNCHANGED <<job, todo>>
  <2>1. todo = <<>>
    BY <1>2 DEF IInv, Control
  <2>2. reply \in [bad : BOOLEAN, late : BOOLEAN, err : BOOLEAN] /\ ReportIsExact'
    BY <1>1 DEF IInv, Types, TypeOK, ReportIsExact
  <2> QED
    BY <1>1, <1>2, <1>3, <1>5, <2>1, <2>2, IdleIInv
<1> QED
  BY <1>4, <1>5 DEF LookAtHost

-----------------------------------------------------------------------------
LEMMA InitIInv ==
    ASSUME Init
    PROVE  IInv
<1>1. job.name = "idle" /\ job = Idle /\ job \in Jobs /\ job.d = Nobody
  BY IdleFacts DEF Init
<1>2. job.name \notin SessionJobs /\ job.name \notin ScanPhases
  BY <1>1, NameFacts
<1>3. Types
  <2>1. chip \in Chips
    BY DEF Init, Chips
  <2>2. TypeOK
    <3>1. /\ sel \in DPs \cup {Nobody} /\ sticky \in [DPs -> BOOLEAN]
          /\ busy \in [DPs -> Transactions \cup {"no"}]
          /\ core \in [DPs -> {"run", "halt"}] /\ rdbuf \in [DPs -> {"run", "halt"}]
          /\ fault \in [DPs \cup {Initial} -> BOOLEAN] /\ late \subseteq DPs \cup {Initial}
      BY DEF Init
    <3>2. /\ list \in Seq(DPs) /\ cur \in DPs \cup {Nobody} /\ wait \in {"poll", "key", "no"}
          /\ reply \in [bad : BOOLEAN, late : BOOLEAN, err : BOOLEAN]
          /\ scan.trouble \in BOOLEAN /\ wrong \in BOOLEAN
      BY NoAccess DEF Init
    <3>3. trouble \in 0..MaxTrouble
      BY SwdAssumption DEF Init
    <3> QED
      BY <3>1, <3>2, <3>3 DEF TypeOK
  <2>3. scan \in [next : 0..NrDps, trouble : BOOLEAN]
    BY ConstantFacts DEF Init
  <2> QED
    BY <1>1, <2>1, <2>2, <2>3, NoAccess DEF Init, Types
<1>4. Control
  BY <1>1, <1>2, NoAccess DEF Init, Control
<1>5. Session /\ Between /\ MemPacket /\ Scan /\ ScanProgress
  BY <1>1, <1>2 DEF Init, Session, Between, MemPacket, Scan, ScanProgress
<1>6. ReportIsExact /\ ~wrong
  BY DEF Init, ReportIsExact
<1> QED
  BY <1>3, <1>4, <1>5, <1>6 DEF IInv

LEMMA StutterIInv ==
    ASSUME IInv, UNCHANGED vars
    PROVE  IInv'
<1>1. /\ UNCHANGED <<chip, sel, sticky, busy, core, rdbuf, trouble>>
      /\ UNCHANGED <<fault, list, cur, wait, job, todo, scan, reply, wrong, late>>
  BY DEF vars, bus
<1>2. Types' /\ Control' /\ ReportIsExact' /\ ~wrong'
  BY <1>1 DEF IInv, Types, TypeOK, Control, ReportIsExact
<1>3. Session' /\ Between' /\ MemPacket'
  BY <1>1 DEF IInv, Session, Between, MemPacket, OnPort, Selecting, Explained
<1>4. Scan'
  BY <1>1 DEF IInv, Scan
<1>5. ScanProgress'
  BY <1>1 DEF IInv, ScanProgress, Quiet, Running, Below, BeforeProbe, AfterProbe
<1> QED
  BY <1>2, <1>3, <1>4, <1>5 DEF IInv

LEMMA NextIInv ==
    ASSUME IInv, [Next]_vars
    PROVE  IInv'
<1>1. CASE AccessStep
  BY <1>1, SkipIInv, AckOkIInv, AckFaultIInv, WaitTimeoutIInv, InvalidAckIInv, ParityErrorIInv,
     LineResetIInv, LowWriteIInv, ErrorIInv, ClearIInv, NewApIInv, CidrIInv, ProbedIInv,
     ReleaseIInv DEF AccessStep
<1>2. CASE IdcodeRead \/ TargetIdRead \/ ScanLoop \/ Picked \/ DpDone \/ ScanDone
  BY <1>2, IdcodeReadIInv, TargetIdReadIInv, ScanLoopIInv, PickedIInv, DpDoneIInv, ScanDoneIInv
<1>3. CASE Attached \/ PacketDone \/ Resumed \/ Poll \/ PollDone \/ LookAtHost
  BY <1>3, AttachedIInv, PacketDoneIInv, ResumedIInv, PollIInv, PollDoneIInv, LookAtHostIInv
<1>4. CASE Settle \/ CoreHalts \/ Packet \/ Continue
  BY <1>4, SettleIInv, CoreHaltsIInv, PacketIInv, ContinueIInv
<1>5. CASE \E given \in BOOLEAN : StartScan(given)
  BY <1>5, StartScanIInv
<1>6. CASE \E d \in DPs : Attach(d)
  BY <1>6, AttachIInv
<1>7. CASE UNCHANGED vars
  BY <1>7, StutterIInv
<1> QED
  BY <1>1, <1>2, <1>3, <1>4, <1>5, <1>6, <1>7 DEF Next, ServerStep

LEMMA SpecIInv == Spec => []IInv
<1>1. Init => IInv
  BY InitIInv
<1>2. IInv /\ [Next]_vars => IInv'
  BY NextIInv
<1> QED
  BY <1>1, <1>2, PTL DEF Spec

(***************************************************************************)
(* The state of the bus, of the ports and of the GDB task keeps its types. *)
(***************************************************************************)
THEOREM SwdTypes == Spec => []TypeOK
<1>1. IInv => TypeOK
  BY DEF IInv, Types
<1> QED
  BY <1>1, SpecIInv, PTL

(***************************************************************************)
(* For any number of ports and of disturbances, a memory packet is         *)
(* answered with an error exactly when one of its accesses failed or was   *)
(* left out (firmware_swdp_low_access, firmware_swdp_error), except for    *)
(* the accesses given up after ACK WAIT.                                   *)
(***************************************************************************)
THEOREM ReportsAreExact == Spec => []ReportIsExact
<1>1. IInv => ReportIsExact
  BY DEF IInv
<1> QED
  BY <1>1, SpecIInv, PTL

(***************************************************************************)
(* For any number of ports, no access of a session is answered by the port *)
(* of another target: cortexm_attach and firmware_swdp_error select the    *)
(* port before anything else is accessed.                                  *)
(***************************************************************************)
THEOREM SessionsStayOnTheirDp == Spec => []SessionOnItsDp
<1>1. IInv => SessionOnItsDp
  BY DEF IInv, SessionOnItsDp
<1> QED
  BY <1>1, SpecIInv, PTL

(***************************************************************************)
(* For any number of ports, adiv5_swdp_scan finds every port on the bus    *)
(* and leaves every core running when nothing went wrong.                  *)
(***************************************************************************)
THEOREM ScansFindAll == Spec => []ScanFindsAll
<1>1. ASSUME IInv PROVE ScanFindsAll
  <2>1. ASSUME job.name = "scanned", ~scan.trouble
        PROVE  Range(list) = chip.dps /\ Running(chip.dps)
    BY <1>1, <2>1, PhaseFacts DEF IInv, ScanProgress
  <2> QED
    BY <2>1 DEF ScanFindsAll, Running
<1> QED
  BY <1>1, SpecIInv, PTL
=============================================================================
