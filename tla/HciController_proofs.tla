------------------------- MODULE HciController_proofs -------------------------
(***************************************************************************)
(* Theorems about HciController, for every heap, every number of tasks,    *)
(* every set of commands and every attribute table a firmware may register.*)
(***************************************************************************)
EXTENDS HciController, ProofLemmas, SequenceTheorems

-----------------------------------------------------------------------------
(* The inductive invariant. *)

AllocStages == {"alloc", "status_alloc", "conn_alloc", "disconn_alloc", "rx_alloc", "data_alloc",
                "enc_alloc"}
FirstStages == {"alloc", "status_alloc", "conn_alloc", "disconn_alloc", "rx_alloc"}
SendStages == {"send", "status_send"}

Cpus == [pc : Guest \cup {"osal_alloc", "osal_send"} \cup Engines,
         r0 : Blocks \cup {Null, "own"} \cup Statuses, to : Tasks, r1 : Blocks \cup {Null},
         r2 : R2, r3 : Stages, lr : Engines \cup {"guest"}]

\* The words of a stage, whatever the command is called.
Words(words) ==
  /\ words = [op |-> words.op, status |-> words.status, followup |-> words.followup,
              handle |-> words.handle, msg |-> words.msg, data |-> words.data]
  /\ words.status \in Statuses /\ words.followup \in BOOLEAN /\ words.handle \in Nat
  /\ words.msg \in Blocks \cup {Null} /\ words.data \in Blocks \cup {Null}

Typed ==
  /\ cpu \in Cpus
  /\ resume \in [Engines -> [pc : Guest \cup {"none"}, r2 : R2, r3 : Stages]]
  /\ Words(pending)
  /\ slots \in [Layers -> Tasks \cup {NoTask}]
  /\ heap \subseteq Blocks
  /\ mail \in [Tasks -> SUBSET Blocks]
  /\ link \in [status : SUBSET Flags, seen : SUBSET Flags, fresh : BOOLEAN]
  /\ handles \in [{"rx", "cccd"} -> Nat]
  /\ call = [who |-> call.who, op |-> call.op, owed |-> call.owed, sent |-> call.sent]
  /\ call.who \in Guest
  /\ table \in Tables

\* While the guest runs, it is the code that made the last call; no magic number
\* is in a register, and no stage has words that count.
GuestOwns ==
  ~Busy => /\ cpu.pc = call.who
           /\ cpu.r2 \notin Engines /\ cpu.r3 = "own"
           /\ pending = NoPending

\* While an engine works, its magic number and its return address are in the
\* registers, and what it has saved leads back to the code it was called from.
EngineOwns ==
  Busy =>
    /\ cpu.r2 \in Engines /\ cpu.lr = cpu.r2
    /\ cpu.pc \in {"osal_alloc", "osal_send", cpu.r2}
    /\ cpu.pc = "osal_alloc" => cpu.r3 \in AllocStages
    /\ cpu.pc = "osal_send" => cpu.r3 \in SendStages /\ cpu.r1 \in Blocks
    /\ cpu.pc = cpu.r2 /\ cpu.r3 \in AllocStages => cpu.r0 \in Blocks \cup {Null}
    /\ cpu.pc = cpu.r2 /\ cpu.r3 \in SendStages => cpu.r0 = "success"
    /\ cpu.r3 \in AllocStages \cup SendStages
    /\ resume[cpu.r2].pc = call.who
    /\ resume[cpu.r2].r2 \notin Engines /\ resume[cpu.r2].r3 = "own"
    /\ pending.followup => cpu.r2 = "security"

\* What has been sent, and what is owed, in each stage.
Progress ==
  Busy =>
    /\ cpu.r3 \in FirstStages => call.sent = <<>> /\ call.owed = Owed(cpu.r3, pending)
    /\ cpu.r3 = "data_alloc" => call.sent = <<>> /\ call.owed = <<Event("write", pending)>>
    /\ cpu.r3 = "status_send" =>
         call.sent = <<Event("status", pending)>> /\ call.owed = Owed("status_alloc", pending)
    /\ cpu.r3 = "enc_alloc" =>
         /\ call.sent = <<Event("status", pending)>>
         /\ call.owed = <<Event("status", pending), Event("encrypted", pending)>>
    /\ cpu.r3 = "send" => call.sent = call.owed

\* The blocks a stage keeps: none before the first one has come, the message of
\* a packet while the second one is fetched, both until they are in the mail.
BlocksKept ==
  Busy =>
    /\ cpu.r3 \in FirstStages \cup {"status_send", "enc_alloc"} =>
         pending.msg = Null /\ pending.data = Null
    /\ cpu.r3 = "data_alloc" => pending.msg \in Blocks /\ pending.data = Null
    /\ cpu.r3 = "send" /\ cpu.pc = "osal_send" => pending.msg \in {Null, cpu.r1}
    /\ cpu.r3 = "send" /\ cpu.pc = cpu.r2 =>
         {pending.msg, pending.data} \subseteq {Null} \cup UNION {mail[t] : t \in Tasks}

\* The attributes that are remembered, or written to, are the ones that are meant.
Meant(which, handle) ==
  \E i \in DOMAIN table :
    /\ table[i].handle = handle
    /\ table[i].writable
    /\ which = "rx" => table[i].uuid = "rx"
    /\ which = "cccd" => table[i].uuid = "cccd" /\ table[i].of = "tx"

Addressed ==
  /\ \A which \in {"rx", "cccd"} : handles[which] # 0 => Meant(which, handles[which])
  /\ pending.handle # 0 => Meant(pending.op, pending.handle)

IInv ==
  /\ Typed
  /\ GuestOwns
  /\ EngineOwns
  /\ Progress
  /\ BlocksKept
  /\ Addressed
  /\ AnsweredOnce
-----------------------------------------------------------------------------
(* Lemmas about the operators. *)

\* What a call may report, given what was sent for it.
Reported(r0, sent, owed) ==
  /\ r0 = "success" => sent = owed
  /\ r0 = "memory" => Len(sent) < Len(owed) /\ sent = SubSeq(owed, 1, Len(sent))
  /\ r0 \notin {"success", "memory"} => sent = <<>>

LEMMA AnsweredIsReported ==
  AnsweredOnce <=> (~Busy /\ Registered => Reported(cpu.r0, call.sent, call.owed))
BY DEF AnsweredOnce, Reported

\* A refused allocation leaves the first events of an answer sent, or none.
LEMMA PrefixesReported ==
  ASSUME NEW a, NEW b
  PROVE  /\ Reported("memory", <<>>, <<a>>)
         /\ Reported("memory", <<>>, <<a, b>>)
         /\ Reported("memory", <<a>>, <<a, b>>)
<1>1. Len(<<>>) = 0 /\ Len(<<a>>) = 1 /\ Len(<<a, b>>) = 2
  OBVIOUS
<1>2. SubSeq(<<a>>, 1, 0) = <<>> /\ SubSeq(<<a, b>>, 1, 0) = <<>>
  OBVIOUS
<1>3. SubSeq(<<a, b>>, 1, 1) = <<a>>
  <2>1. <<a, b>> \in Seq({a, b}) /\ <<a>> \in Seq({a, b}) /\ <<a, b>>[1] = a /\ <<a>>[1] = a
    OBVIOUS
  <2>2. /\ SubSeq(<<a, b>>, 1, 1) \in Seq({a, b})
        /\ Len(SubSeq(<<a, b>>, 1, 1)) = 1
        /\ SubSeq(<<a, b>>, 1, 1)[1] = a
    BY <2>1
  <2> DEFINE s == SubSeq(<<a, b>>, 1, 1)
             t == <<a>>
  <2>3. /\ s \in Seq({a, b}) /\ t \in Seq({a, b}) /\ Len(s) = Len(t)
        /\ \A i \in 1 .. Len(s) : s[i] = t[i]
    BY <1>1, <2>1, <2>2
  <2> HIDE DEF s, t
  <2>4. s = t
    BY <2>3, SeqEqual
  <2> QED BY <2>4 DEF s, t
<1> QED BY <1>1, <1>2, <1>3 DEF Reported

LEMMA OwedByStage ==
  ASSUME NEW words, words.followup \in BOOLEAN
  PROVE  /\ Owed("alloc", words) = <<Event("complete", words)>>
         /\ Owed("conn_alloc", words) = <<Event("connected", words)>>
         /\ Owed("disconn_alloc", words) = <<Event("disconnected", words)>>
         /\ Owed("rx_alloc", words) = <<Event("write", words)>>
         /\ words.followup => Owed("status_alloc", words) =
              <<Event("status", words), Event("encrypted", words)>>
         /\ ~words.followup => Owed("status_alloc", words) = <<Event("status", words)>>
BY DEF Owed

LEMMA OwedTwice ==
  ASSUME NEW words, words.followup
  PROVE  Owed("status_alloc", words) = <<Event("status", words), Event("encrypted", words)>>
BY DEF Owed

LEMMA FirstIn ==
  ASSUME NEW S \in SUBSET Nat, S # {}
  PROVE  First(S) \in S
BY LeastElement DEF First

\* A search of the table finds an attribute that is meant, if it finds one: the
\* owner of a subscription cannot be behind the TX value, where it would have
\* ended the search, nor before it, where the TX value would be between the two.
LEMMA ResolveMeant ==
  ASSUME IInv, NEW which \in {"rx", "cccd"}, Resolve(which) # 0
  PROVE  Meant(which, Resolve(which))
<1>1. CASE handles[which] # 0
  BY <1>1 DEF IInv, Addressed, Resolve
<1> DEFINE found == IF which = "rx" THEN FindAttribute("rx", TRUE)
                    ELSE IF FindAttribute("tx", FALSE) = {} THEN {}
                         ELSE FindCccdAfter(First(FindAttribute("tx", FALSE)))
<1>2. CASE handles[which] = 0
  <2>1. Resolve(which) = IF found = {} THEN 0 ELSE table[First(found)].handle
    BY <1>2 DEF Resolve
  <2>2. found # {} /\ Resolve(which) = table[First(found)].handle
    BY <2>1
  <2>3. Registrable(table)
    BY TablesAssumption DEF IInv, Typed
  <2>4. DOMAIN table = 1 .. Len(table) /\ Len(table) \in Nat
    BY <2>3 DEF Registrable
  <2>5. found \in SUBSET Nat /\ found \subseteq DOMAIN table
    BY <2>4 DEF FindAttribute, FindCccdAfter
  <2>6. First(found) \in found
    BY <2>2, <2>5, FirstIn
  <2>7. CASE which = "rx"
    BY <2>2, <2>5, <2>6, <2>7 DEF Meant, FindAttribute
  <2>8. CASE which = "cccd"
    <3> DEFINE tx == First(FindAttribute("tx", FALSE))
               j == First(found)
    <3>1. FindAttribute("tx", FALSE) # {} /\ found = FindCccdAfter(tx)
      BY <2>2, <2>8
    <3>2. tx \in FindAttribute("tx", FALSE)
      <4>1. FindAttribute("tx", FALSE) \in SUBSET Nat
        BY <2>4 DEF FindAttribute
      <4> QED BY <3>1, <4>1, FirstIn
    <3>3. tx \in DOMAIN table /\ table[tx].uuid = "tx" /\ table[tx].handle # 0
      BY <3>2 DEF FindAttribute
    <3>4. j \in FindCccdAfter(tx)
      BY <2>6, <3>1
    <3> HIDE DEF tx, j, found
    <3>5. /\ j \in DOMAIN table /\ j \in (tx + 1) .. (tx + 8)
          /\ table[j].handle > table[tx].handle /\ table[j].uuid = "cccd" /\ table[j].writable
          /\ \A k \in (tx + 1) .. (j - 1) :
               table[k].handle > table[tx].handle => table[k].uuid \notin LongUuids
      BY <3>4 DEF FindCccdAfter
    <3>6. PICK i \in 1 .. (j - 1) :
             /\ table[i].uuid = table[j].of /\ table[i].uuid \in LongUuids
             /\ table[i].handle # 0
             /\ \A k \in (i + 1) .. (j - 1) : table[k].uuid \notin LongUuids
      BY <2>3, <3>5 DEF Registrable
    <3>7. i \in DOMAIN table /\ i \in Nat /\ tx \in Nat /\ j \in Nat
      BY <2>4, <3>3, <3>5, <3>6
    <3>8. ~(i < tx)
      <4> SUFFICES ASSUME i < tx PROVE FALSE
        OBVIOUS
      <4>1. tx \in (i + 1) .. (j - 1)
        BY <3>5, <3>7
      <4> QED BY <3>3, <3>6, <4>1 DEF LongUuids
    <3>9. ~(tx < i)
      <4> SUFFICES ASSUME tx < i PROVE FALSE
        OBVIOUS
      <4>1. i \in (tx + 1) .. (j - 1)
        BY <3>6, <3>7
      <4>2. table[tx].handle < table[i].handle
        BY <2>3, <3>3, <3>6, <3>7 DEF Registrable
      <4>3. table[tx].handle \in Nat /\ table[i].handle \in Nat
        <5>1. \A k \in DOMAIN table : table[k] \in
                 [uuid : STRING, handle : Nat, writable : BOOLEAN, of : STRING]
          BY <2>3, <2>4, ElementOfSeq DEF Registrable
        <5> QED BY <3>3, <3>7, <5>1
      <4> QED BY <3>5, <3>6, <4>1, <4>2, <4>3
    <3>10. i = tx
      BY <3>7, <3>8, <3>9
    <3>11. table[j].of = "tx"
      BY <3>3, <3>6, <3>10
    <3> QED BY <2>2, <2>8, <3>5, <3>11 DEF Meant, j
  <2> QED BY <2>7, <2>8
<1>3. handles[which] \in Nat
  BY DEF IInv, Typed
<1> QED BY <1>1, <1>2

-----------------------------------------------------------------------------
(* Lemmas about the machinery: each is about every step of its kind. *)

StatusWord == {"success", "invalid", "inactive"}

LEMMA NoPendingWords == Words(NoPending) /\ NoPending.handle = 0
BY DEF Words, NoPending, Statuses

\* The words of a stage, named one by one.
LEMMA AnswerExcept ==
  ASSUME NEW op, NEW status, NEW words, words = [NoPending EXCEPT !.op = op, !.status = status]
  PROVE  words = [op |-> op, status |-> status, followup |-> FALSE, handle |-> 0,
                  msg |-> Null, data |-> Null]
BY DEF NoPending

LEMMA FollowupExcept ==
  ASSUME NEW op, NEW status, NEW followup,
         NEW first, first = [op |-> op, status |-> status, followup |-> FALSE, handle |-> 0,
                  msg |-> Null, data |-> Null],
         NEW words, words = [first EXCEPT !.followup = followup]
  PROVE  words = [op |-> op, status |-> status, followup |-> followup, handle |-> 0,
                  msg |-> Null, data |-> Null]
OBVIOUS

LEMMA PollExcept ==
  ASSUME NEW op, NEW handle, NEW words, words = [NoPending EXCEPT !.op = op, !.handle = handle]
  PROVE  words = [op |-> op, status |-> "success", followup |-> FALSE, handle |-> handle,
                  msg |-> Null, data |-> Null]
BY DEF NoPending

LEMMA LiteralWords ==
  ASSUME NEW op, NEW status \in Statuses, NEW followup \in BOOLEAN, NEW handle \in Nat,
         NEW words, words = [op |-> op, status |-> status, followup |-> followup,
                             handle |-> handle, msg |-> Null, data |-> Null]
  PROVE  /\ Words(words) /\ words.msg = Null /\ words.data = Null /\ words.op = op
         /\ words.status = status /\ words.followup = followup /\ words.handle = handle
BY DEF Words

LEMMA AnswerWords ==
  ASSUME NEW op, NEW status \in Statuses
  PROVE  LET words == Answer(op, status)
         IN  /\ Words(words) /\ words.msg = Null /\ words.data = Null
             /\ words.op = op /\ words.followup = FALSE /\ words.handle = 0
<1> DEFINE words == Answer(op, status)
<1>1. words = [op |-> op, status |-> status, followup |-> FALSE, handle |-> 0,
               msg |-> Null, data |-> Null]
  BY AnswerExcept DEF Answer
<1> HIDE DEF words
<1>2. /\ Words(words) /\ words.msg = Null /\ words.data = Null
      /\ words.op = op /\ words.followup = FALSE /\ words.handle = 0
  BY ZenonT(30), <1>1, LiteralWords
<1> QED BY <1>2 DEF words

LEMMA FollowupWords ==
  ASSUME NEW op, NEW status \in Statuses, NEW followup \in BOOLEAN
  PROVE  LET words == [Answer(op, status) EXCEPT !.followup = followup]
         IN  Words(words) /\ words.msg = Null /\ words.data = Null /\ words.handle = 0
<1> DEFINE first == Answer(op, status)
           words == [first EXCEPT !.followup = followup]
<1>1. first = [op |-> op, status |-> status, followup |-> FALSE, handle |-> 0,
               msg |-> Null, data |-> Null]
  BY AnswerExcept DEF Answer
<1> HIDE DEF first
<1>2. words = [op |-> op, status |-> status, followup |-> followup, handle |-> 0,
               msg |-> Null, data |-> Null]
  BY <1>1, FollowupExcept
<1> HIDE DEF words
<1>3. Words(words) /\ words.msg = Null /\ words.data = Null /\ words.handle = 0
  BY <1>2, LiteralWords
<1> QED BY <1>3 DEF words, first

LEMMA PollWords ==
  ASSUME NEW op, NEW handle \in Nat
  PROVE  LET words == [NoPending EXCEPT !.op = op, !.handle = handle]
         IN  /\ Words(words) /\ words.msg = Null /\ words.data = Null
             /\ words.op = op /\ words.followup = FALSE /\ words.handle = handle
<1> DEFINE words == [NoPending EXCEPT !.op = op, !.handle = handle]
<1>1. words = [op |-> op, status |-> "success", followup |-> FALSE, handle |-> handle,
               msg |-> Null, data |-> Null]
  BY PollExcept
<1>2. "success" \in Statuses
  BY DEF Statuses
<1> HIDE DEF words
<1>3. /\ Words(words) /\ words.msg = Null /\ words.data = Null
      /\ words.op = op /\ words.followup = FALSE /\ words.handle = handle
  BY <1>1, <1>2 DEF Words
<1> QED BY <1>3 DEF words

\* A step that changes nothing.
LEMMA UnchangedPreserves ==
  ASSUME IInv, UNCHANGED hciVars
  PROVE  IInv'
BY DEF hciVars, IInv, Typed, Words, GuestOwns, EngineOwns, Progress, BlocksKept, Addressed, Meant,
       AnsweredOnce, Busy, Registered

\* A command of the guest, or a poll, that starts a stage.
LEMMA BeginPreserves ==
  ASSUME IInv, ~Busy, NEW e \in Engines, NEW stage \in FirstStages, NEW op,
         NEW r2 \in R2 \ Engines, NEW words, Words(words),
         words.msg = Null, words.data = Null, words.followup => e = "security",
         Begin(e, stage, op, r2, words),
         UNCHANGED <<slots, heap, mail, table>>,
         link' \in [status : SUBSET Flags, seen : SUBSET Flags, fresh : BOOLEAN],
         handles' \in [{"rx", "cccd"} -> Nat],
         \A which \in {"rx", "cccd"} : handles'[which] # 0 => Meant(which, handles'[which]),
         words.handle # 0 => Meant(words.op, words.handle)
  PROVE  IInv'
<1>0. cpu.pc \in Guest /\ cpu.r3 = "own"
  BY DEF IInv, Busy, GuestOwns
<1>1. /\ cpu' = [cpu EXCEPT !.pc = "osal_alloc", !.r2 = e, !.r3 = stage, !.lr = e]
      /\ resume' = [resume EXCEPT ![e] = [pc |-> cpu.pc, r2 |-> r2, r3 |-> cpu.r3]]
      /\ pending' = words
      /\ call' = [who |-> cpu.pc, op |-> op, owed |-> Owed(stage, words), sent |-> <<>>]
  BY DEF Begin, Save, EnterAlloc, Called
<1>2. Typed'
  <2>1. cpu' \in Cpus
    BY <1>1 DEF IInv, Typed, Cpus, FirstStages, Stages, R2, Engines
  <2>2. resume' \in [Engines -> [pc : Guest \cup {"none"}, r2 : R2, r3 : Stages]]
    BY <1>0, <1>1 DEF IInv, Typed, Stages
  <2>3. Words(pending')
    BY <1>1
  <2>4. /\ call' = [who |-> call'.who, op |-> call'.op, owed |-> call'.owed, sent |-> call'.sent]
        /\ call'.who \in Guest
    BY <1>0, <1>1
  <2> QED BY <2>1, <2>2, <2>3, <2>4 DEF IInv, Typed, Words
<1>3. Busy' /\ cpu'.pc = "osal_alloc" /\ cpu'.r2 = e /\ cpu'.r3 = stage /\ cpu'.lr = e
  BY <1>1 DEF IInv, Typed, Cpus, Busy, Guest
<1>4. GuestOwns' /\ AnsweredOnce'
  BY <1>3 DEF GuestOwns, AnsweredOnce
<1>5. resume'[e] = [pc |-> cpu.pc, r2 |-> r2, r3 |-> "own"] /\ call'.who = cpu.pc
  BY <1>0, <1>1 DEF IInv, Typed
<1>6. EngineOwns'
  BY <1>1, <1>3, <1>5 DEF EngineOwns, Engines, FirstStages, AllocStages
<1>7. Progress'
  BY <1>1, <1>3 DEF Progress, FirstStages
<1>8. BlocksKept'
  BY <1>1, <1>3 DEF BlocksKept, FirstStages
<1>9. Addressed'
  BY <1>1 DEF Addressed, Meant
<1> QED BY <1>2, <1>4, <1>6, <1>7, <1>8, <1>9 DEF IInv

\* A command that is answered at once, and other code of the guest.
LEMMA GuestPreserves ==
  ASSUME IInv, ~Busy,
         cpu' \in Cpus, cpu'.pc \in Guest, cpu'.r2 \notin Engines, cpu'.r3 = "own",
         UNCHANGED <<resume, pending, table>>,
         slots' \in [Layers -> Tasks \cup {NoTask}], heap' \subseteq Blocks,
         mail' \in [Tasks -> SUBSET Blocks],
         link' \in [status : SUBSET Flags, seen : SUBSET Flags, fresh : BOOLEAN],
         handles' \in [{"rx", "cccd"} -> Nat],
         \A which \in {"rx", "cccd"} : handles'[which] # 0 => Meant(which, handles'[which]),
         call' = [who |-> call'.who, op |-> call'.op, owed |-> call'.owed, sent |-> call'.sent],
         call'.who = cpu'.pc,
         Registered' => Reported(cpu'.r0, call'.sent, call'.owed)
  PROVE  IInv'
<1>1. ~Busy'
  BY DEF Busy
<1>2. Typed'
  BY DEF IInv, Typed, Words
<1>3. GuestOwns'
  BY DEF IInv, GuestOwns
<1>4. EngineOwns' /\ Progress' /\ BlocksKept'
  BY <1>1 DEF EngineOwns, Progress, BlocksKept
<1>5. Addressed'
  BY DEF IInv, Addressed, Meant
<1>6. AnsweredOnce'
  BY AnsweredIsReported DEF AnsweredOnce, Reported
<1> QED BY <1>2, <1>3, <1>4, <1>5, <1>6 DEF IInv
\* Back to the caller, with what the answer allows to report.
LEMMA ResumePreserves ==
  ASSUME IInv, NEW e \in Engines, cpu.pc = e, cpu.r2 = e,
         NEW r0 \in Blocks \cup {Null, "own"} \cup Statuses,
         Resume(e, r0), UNCHANGED <<slots, heap, mail, link, handles, table, call>>,
         Registered => Reported(r0, call.sent, call.owed)
  PROVE  IInv'
<1>1. Busy /\ resume[e].pc = call.who /\ call.who \in Guest /\ resume[e].r2 \in R2 \ Engines /\ resume[e].r3 = "own"
  BY DEF IInv, Typed, EngineOwns, Busy, Guest, Engines
<1>2. /\ cpu' = [cpu EXCEPT !.pc = resume[e].pc, !.r0 = r0, !.r2 = resume[e].r2,
                            !.r3 = resume[e].r3, !.lr = "guest"]
      /\ resume' = [resume EXCEPT ![e] = NoResume]
      /\ pending' = NoPending
  BY DEF Resume
<1>3. cpu' \in Cpus
  BY <1>1, <1>2 DEF IInv, Typed, Cpus, Stages, R2, Engines
<1>4. /\ cpu'.pc \in Guest /\ cpu'.pc = call'.who /\ cpu'.r0 = r0 /\ cpu'.r2 \notin Engines
      /\ cpu'.r3 = "own"
  BY <1>1, <1>2 DEF IInv, Typed, Cpus
<1>5. ~Busy'
  BY <1>4 DEF Busy
<1>6. Typed'
  <2>1. resume' \in [Engines -> [pc : Guest \cup {"none"}, r2 : R2, r3 : Stages]]
    BY <1>2 DEF IInv, Typed, NoResume, R2, Stages
  <2>2. Words(pending')
    BY <1>2, NoPendingWords
  <2> QED BY <1>3, <2>1, <2>2 DEF IInv, Typed
<1>7. GuestOwns'
  BY <1>2, <1>4 DEF GuestOwns
<1>8. EngineOwns' /\ Progress' /\ BlocksKept'
  BY <1>5 DEF EngineOwns, Progress, BlocksKept
<1>9. Addressed'
  BY <1>2, NoPendingWords DEF IInv, Addressed, Meant
<1>10. AnsweredOnce'
  BY <1>4 DEF AnsweredOnce, Reported, Registered
<1> QED BY <1>6, <1>7, <1>8, <1>9, <1>10 DEF IInv

\* A message on its way to the task of a layer.
LEMMA RoutePreserves ==
  ASSUME IInv, NEW e \in Engines, cpu.pc = e, cpu.r2 = e,
         NEW next \in SendStages, NEW layer \in Layers, NEW msg \in Blocks, NEW event,
         Route(e, next, layer, msg, event),
         UNCHANGED <<slots, heap, mail, link, handles, table>>,
         Words(pending'), pending'.op = pending.op, pending'.status = pending.status,
         pending'.followup = pending.followup, pending'.handle = pending.handle,
         pending'.msg \in {Null, msg},
         next = "status_send" => pending' = pending /\ pending.msg = Null /\ pending.data = Null,
         next = "send" => call'.sent = call.owed,
         next = "status_send" => /\ call'.sent = <<Event("status", pending)>>
                                 /\ call.owed = Owed("status_alloc", pending)
  PROVE  IInv'
<1>1. /\ cpu' = [cpu EXCEPT !.pc = "osal_send", !.to = slots[layer], !.r1 = msg, !.r2 = e,
                            !.r3 = next, !.lr = e]
      /\ slots[layer] \in Tasks
      /\ resume' = resume
      /\ call' = [call EXCEPT !.sent = Append(@, Event(event, pending))]
  BY DEF Route, EnterSend, Answers, IInv, Typed
<1>2. Busy
  BY DEF Busy, Guest, Engines
<1>3. cpu' \in Cpus
  BY <1>1 DEF IInv, Typed, Cpus, SendStages, Stages, R2, Engines
<1>4. /\ cpu'.pc = "osal_send" /\ cpu'.r1 = msg /\ cpu'.r2 = e /\ cpu'.r3 = next
      /\ cpu'.lr = e
  BY <1>1 DEF IInv, Typed, Cpus
<1>5. Busy'
  BY <1>4 DEF Busy, Guest
<1>6. /\ call'.who = call.who /\ call'.op = call.op /\ call'.owed = call.owed
      /\ call' = [who |-> call'.who, op |-> call'.op, owed |-> call'.owed, sent |-> call'.sent]
  BY <1>1 DEF IInv, Typed
<1>7. Typed'
  BY <1>1, <1>3, <1>6 DEF IInv, Typed, Words
<1>8. GuestOwns' /\ AnsweredOnce'
  BY <1>5 DEF GuestOwns, AnsweredOnce
<1>9. EngineOwns'
  BY <1>1, <1>2, <1>4, <1>6 DEF IInv, EngineOwns, Engines, SendStages, AllocStages
<1>10. Progress'
  BY <1>4, <1>6 DEF Progress, SendStages, FirstStages
<1>11. BlocksKept'
  BY <1>4 DEF BlocksKept, SendStages, FirstStages, Engines
<1>12. Addressed'
  BY DEF IInv, Addressed, Meant
<1> QED BY <1>7, <1>8, <1>9, <1>10, <1>11, <1>12 DEF IInv

\* An allocation for a stage that needs one block has ended.
LEMMA FinishAllocPreserves ==
  ASSUME IInv, NEW e \in Engines, NEW stage \in AllocStages \ {"rx_alloc", "data_alloc"},
         NEW layer \in Layers, NEW next \in SendStages, NEW event,
         FinishAlloc(e, stage, layer, event, next),
         Reported("memory", call.sent, call.owed),
         next = "send" => Append(call.sent, Event(event, pending)) = call.owed,
         next = "status_send" => event = "status" /\ stage = "status_alloc"
  PROVE  IInv'
<1>1. /\ cpu.pc = e /\ cpu.r2 = e /\ cpu.r3 = stage
      /\ UNCHANGED <<slots, heap, mail, link, handles, table>>
  BY DEF FinishAlloc, AtTrap
<1>2. Busy /\ cpu.r0 \in Blocks \cup {Null} /\ pending.msg = Null /\ pending.data = Null
  BY <1>1 DEF Busy, Guest, Engines, IInv, EngineOwns, BlocksKept, AllocStages, FirstStages
<1>3. Words(pending)
  BY DEF IInv, Typed
<1>4. CASE cpu.r0 = Null
  <2>1. Resume(e, "memory") /\ UNCHANGED call
    BY <1>4 DEF FinishAlloc, AllocFailed
  <2> QED BY <1>1, <2>1, ResumePreserves DEF Statuses
<1>5. CASE cpu.r0 # Null /\ Route(e, next, layer, cpu.r0, event) /\ UNCHANGED pending
  <2>1. call' = [call EXCEPT !.sent = Append(@, Event(event, pending))]
    BY <1>5 DEF Route, Answers
  <2>2. call'.sent = Append(call.sent, Event(event, pending))
    BY <2>1 DEF IInv, Typed
  <2>3. next = "status_send" =>
          call.sent = <<>> /\ call.owed = Owed("status_alloc", pending)
    BY <1>1, <1>2 DEF IInv, Progress, FirstStages
  <2>4. Append(<<>>, Event("status", pending)) = <<Event("status", pending)>>
    BY DEF Event
  <2> QED BY <1>1, <1>2, <1>3, <1>5, <2>2, <2>3, <2>4, RoutePreserves
<1>6. CASE cpu.r0 # Null /\ Unroutable(e, layer, cpu.r0)
  <2>1. ~Registered
    BY <1>6 DEF Unroutable, Registered
  <2>2. CASE e = "rom"
    <3>1. UNCHANGED <<cpu, resume, pending, call>>
      BY <1>6, <2>2 DEF Unroutable
    <3> QED BY <1>1, <3>1, UnchangedPreserves DEF hciVars
  <2>3. CASE e = "extra"
    <3>1. Resume(e, "success") /\ UNCHANGED call
      BY <1>6, <2>3 DEF Unroutable
    <3> QED BY <1>1, <2>1, <3>1, ResumePreserves DEF Statuses
  <2>4. CASE e = "security"
    <3>1. Resume(e, cpu.r0) /\ UNCHANGED call
      BY <1>6, <2>4 DEF Unroutable
    <3> QED BY <1>1, <1>2, <2>1, <3>1, ResumePreserves
  <2> QED BY <2>2, <2>3, <2>4 DEF Engines
<1> QED BY <1>4, <1>5, <1>6 DEF FinishAlloc

\* The second block of a stage that needs two.
LEMMA SecondAllocPreserves ==
  ASSUME IInv, NEW e \in Engines, cpu.pc = e, cpu.r2 = e,
         NEW stage \in {"data_alloc", "enc_alloc"}, EnterAlloc(e, stage),
         UNCHANGED <<resume, slots, heap, mail, link, handles, table, call>>,
         Words(pending'), pending'.op = pending.op, pending'.status = pending.status,
         pending'.followup = pending.followup, pending'.handle = pending.handle,
         stage = "data_alloc" => /\ pending'.msg \in Blocks /\ pending'.data = Null
                                 /\ call.sent = <<>>
                                 /\ call.owed = <<Event("write", pending)>>,
         stage = "enc_alloc" =>
           /\ pending'.msg = Null /\ pending'.data = Null
           /\ call.sent = <<Event("status", pending)>>
           /\ call.owed = <<Event("status", pending), Event("encrypted", pending)>>
  PROVE  IInv'
<1>1. cpu' = [cpu EXCEPT !.pc = "osal_alloc", !.r2 = e, !.r3 = stage, !.lr = e]
  BY DEF EnterAlloc
<1>2. cpu' \in Cpus
  BY <1>1 DEF IInv, Typed, Cpus, Stages, R2, Engines
<1>3. cpu'.pc = "osal_alloc" /\ cpu'.r2 = e /\ cpu'.r3 = stage /\ cpu'.lr = e
  BY <1>1 DEF IInv, Typed, Cpus
<1>4. Busy /\ Busy'
  BY <1>3 DEF Busy, Guest, Engines
<1>5. Typed'
  BY <1>2 DEF IInv, Typed, Words
<1>6. GuestOwns' /\ AnsweredOnce'
  BY <1>4 DEF GuestOwns, AnsweredOnce
<1>7. EngineOwns'
  BY <1>3, <1>4 DEF IInv, EngineOwns, Engines, AllocStages, SendStages
<1>8. Event("write", pending') = Event("write", pending)
      /\ Event("status", pending') = Event("status", pending)
      /\ Event("encrypted", pending') = Event("encrypted", pending)
  BY DEF Event
<1>9. Progress'
  BY <1>3, <1>8 DEF Progress, FirstStages
<1>10. BlocksKept'
  BY <1>3 DEF BlocksKept, FirstStages
<1>11. Addressed'
  BY DEF IInv, Addressed, Meant
<1> QED BY <1>5, <1>6, <1>7, <1>9, <1>10, <1>11 DEF IInv

LEMMA OsalAllocStep ==
  ASSUME IInv, OsalAlloc
  PROVE  IInv'
<1>1. PICK b \in (Blocks \ heap) \cup {Null} :
         heap' = heap \cup ({b} \ {Null}) /\ cpu' = [cpu EXCEPT !.r0 = b, !.pc = cpu.lr]
  BY DEF OsalAlloc
<1>2. cpu.pc = "osal_alloc" /\ UNCHANGED <<resume, pending, slots, mail, link, handles, table, call>>
  BY DEF OsalAlloc
<1>3. Busy /\ cpu.lr = cpu.r2 /\ cpu.r2 \in Engines /\ cpu.r3 \in AllocStages
  BY <1>2 DEF Busy, Guest, IInv, EngineOwns
<1>4. cpu' \in Cpus
  BY <1>1, <1>3 DEF IInv, Typed, Cpus
<1>5. cpu'.pc = cpu.r2 /\ cpu'.r0 = b /\ cpu'.r2 = cpu.r2 /\ cpu'.r3 = cpu.r3 /\ cpu'.lr = cpu.lr
  BY <1>1, <1>3 DEF IInv, Typed, Cpus
<1>6. Busy'
  BY <1>3, <1>5 DEF Busy, Guest, Engines
<1>7. Typed'
  BY <1>1, <1>2, <1>4 DEF IInv, Typed, Words
<1>8. GuestOwns' /\ AnsweredOnce'
  BY <1>6 DEF GuestOwns, AnsweredOnce
<1>9. EngineOwns'
  BY <1>2, <1>3, <1>5 DEF IInv, EngineOwns, AllocStages, SendStages, Engines
<1>10. Progress'
  BY <1>2, <1>3, <1>5 DEF IInv, Progress, FirstStages
<1>11. BlocksKept'
  BY <1>2, <1>3, <1>5 DEF IInv, BlocksKept, FirstStages, AllocStages
<1>12. Addressed'
  BY <1>2 DEF IInv, Addressed, Meant
<1> QED BY <1>7, <1>8, <1>9, <1>10, <1>11, <1>12 DEF IInv

LEMMA OsalSendStep ==
  ASSUME IInv, OsalSend
  PROVE  IInv'
<1>1. /\ cpu.pc = "osal_send"
      /\ mail' = [mail EXCEPT ![cpu.to] = @ \cup {cpu.r1} \cup ({pending.data} \ {Null})]
      /\ cpu' = [cpu EXCEPT !.r0 = "success", !.r1 = Null, !.to = 0, !.pc = cpu.lr]
      /\ UNCHANGED <<resume, pending, slots, heap, link, handles, table, call>>
  BY DEF OsalSend
<1>2. /\ Busy /\ cpu.lr = cpu.r2 /\ cpu.r2 \in Engines /\ cpu.r3 \in SendStages
      /\ cpu.r1 \in Blocks /\ cpu.to \in Tasks
  BY <1>1 DEF Busy, Guest, IInv, EngineOwns, Typed, Cpus
<1>3. cpu' \in Cpus
  <2>1. 0 \in Tasks /\ "success" \in Statuses
    BY TasksAssumption DEF Tasks, Statuses
  <2>2. cpu \in Cpus
    BY DEF IInv, Typed
  <2> QED BY <1>1, <1>2, <2>1, <2>2 DEF Cpus
<1>4. /\ cpu'.pc = cpu.r2 /\ cpu'.r0 = "success" /\ cpu'.r2 = cpu.r2 /\ cpu'.r3 = cpu.r3
      /\ cpu'.lr = cpu.lr
  BY <1>1, <1>2 DEF IInv, Typed, Cpus
<1>5. Busy'
  BY <1>2, <1>4 DEF Busy, Guest, Engines
<1>6. mail' \in [Tasks -> SUBSET Blocks] /\ mail'[cpu.to] = mail[cpu.to] \cup {cpu.r1} \cup ({pending.data} \ {Null})
  BY <1>1, <1>2 DEF IInv, Typed, Words
<1>7. Typed'
  BY <1>1, <1>3, <1>6 DEF IInv, Typed, Words
<1>8. GuestOwns' /\ AnsweredOnce'
  BY <1>5 DEF GuestOwns, AnsweredOnce
<1>9. EngineOwns'
  BY <1>1, <1>2, <1>4 DEF IInv, EngineOwns, AllocStages, SendStages, Engines
<1>10. Progress'
  BY <1>1, <1>2, <1>4 DEF IInv, Progress, FirstStages, SendStages
<1>11. BlocksKept'
  <2>1. cpu.r3 = "send" =>
          {pending.msg, pending.data} \subseteq {Null} \cup UNION {mail'[t] : t \in Tasks}
    BY <1>1, <1>2, <1>6 DEF IInv, BlocksKept
  <2> QED BY <1>1, <1>2, <1>4, <2>1 DEF IInv, BlocksKept, FirstStages, SendStages, Engines
<1>12. Addressed'
  BY <1>1 DEF IInv, Addressed, Meant
<1> QED BY <1>7, <1>8, <1>9, <1>10, <1>11, <1>12 DEF IInv

LEMMA AppendTuples ==
  ASSUME NEW a, NEW b
  PROVE  Append(<<>>, a) = <<a>> /\ Append(<<a>>, b) = <<a, b>>
<1> DEFINE s == Append(<<a>>, b)
           t == <<a, b>>
<1>1. <<a>> \in Seq({a, b}) /\ t \in Seq({a, b}) /\ Len(t) = 2 /\ t[1] = a /\ t[2] = b
  OBVIOUS
<1>2. s \in Seq({a, b}) /\ Len(s) = 2 /\ s[1] = a /\ s[2] = b
  BY <1>1, AppendProperties
<1>3. Append(<<>>, a) = <<a>>
  OBVIOUS
<1> HIDE DEF s, t
<1>4. s = t
  BY <1>1, <1>2, SeqEqual
<1> QED BY <1>3, <1>4 DEF s, t

\* What is still owed when an allocation ends, stage by stage.
LEMMA Outstanding ==
  ASSUME IInv, NEW e \in Engines, cpu.pc = e, cpu.r2 = e, cpu.r3 \in AllocStages
  PROVE  /\ Reported("memory", call.sent, call.owed)
         /\ cpu.r3 = "alloc" => Append(call.sent, Event("complete", pending)) = call.owed
         /\ cpu.r3 = "conn_alloc" => Append(call.sent, Event("connected", pending)) = call.owed
         /\ cpu.r3 = "disconn_alloc" =>
              Append(call.sent, Event("disconnected", pending)) = call.owed
         /\ cpu.r3 = "status_alloc" /\ e = "extra" =>
              Append(call.sent, Event("status", pending)) = call.owed
         /\ cpu.r3 = "enc_alloc" => Append(call.sent, Event("encrypted", pending)) = call.owed
         /\ cpu.r3 = "data_alloc" => Append(call.sent, Event("write", pending)) = call.owed
<1>1. Busy /\ pending.followup \in BOOLEAN
  BY DEF Busy, Guest, Engines, IInv, Typed, Words
<1>2. ASSUME NEW a, NEW b PROVE Append(<<>>, a) = <<a>> /\ Append(<<a>>, b) = <<a, b>>
  BY AppendTuples
<1>3. CASE cpu.r3 \in FirstStages
  <2>1. call.sent = <<>> /\ call.owed = Owed(cpu.r3, pending)
    BY <1>1, <1>3 DEF IInv, Progress
  <2>2. Reported("memory", call.sent, call.owed)
    <3>1. \E a, b : call.owed = <<a>> \/ call.owed = <<a, b>>
      BY <1>1, <1>3, <2>1, OwedByStage DEF FirstStages
    <3> QED BY <2>1, <3>1, PrefixesReported
  <2>3. e = "extra" => ~pending.followup
    BY <1>1 DEF IInv, EngineOwns
  <2> QED BY <1>1, <1>2, <1>3, <2>1, <2>2, <2>3, OwedByStage DEF FirstStages
<1>4. CASE cpu.r3 \in {"data_alloc", "enc_alloc"}
  BY <1>1, <1>2, <1>4, PrefixesReported DEF IInv, Progress
<1> QED BY <1>3, <1>4 DEF AllocStages, FirstStages

LEMMA RxMessageStep ==
  ASSUME IInv, RxMessage
  PROVE  IInv'
<1>1. /\ cpu.pc = "rom" /\ cpu.r2 = "rom" /\ cpu.r3 = "rx_alloc" /\ "rom" \in Engines
      /\ UNCHANGED <<slots, heap, mail, link, handles, table>>
  BY DEF RxMessage, AtTrap, Engines
<1>2. /\ Busy /\ cpu.r0 \in Blocks \cup {Null} /\ pending.data = Null
      /\ call.sent = <<>> /\ call.owed = <<Event("write", pending)>>
  BY <1>1, OwedByStage DEF Busy, Guest, IInv, EngineOwns, Progress, BlocksKept, AllocStages, FirstStages,
     Typed, Words
<1>3. CASE cpu.r0 = Null
  <2>1. Resume("rom", "memory") /\ UNCHANGED call
    BY <1>3 DEF RxMessage, AllocFailed
  <2>2. Reported("memory", call.sent, call.owed)
    BY <1>1, Outstanding DEF AllocStages
  <2> QED BY <1>1, <2>1, <2>2, ResumePreserves DEF Statuses
<1>4. CASE cpu.r0 # Null
  <2>1. /\ EnterAlloc("rom", "data_alloc") /\ UNCHANGED <<resume, call>>
        /\ pending' = [pending EXCEPT !.msg = cpu.r0]
    BY <1>4 DEF RxMessage
  <2>2. /\ Words(pending') /\ pending'.op = pending.op /\ pending'.status = pending.status
        /\ pending'.followup = pending.followup /\ pending'.handle = pending.handle
        /\ pending'.msg = cpu.r0 /\ pending'.data = Null
    BY <1>2, <2>1 DEF IInv, Typed, Words
  <2> QED BY <1>1, <1>2, <1>4, <2>1, <2>2, SecondAllocPreserves
<1> QED BY <1>3, <1>4

LEMMA RxDataStep ==
  ASSUME IInv, RxData
  PROVE  IInv'
<1>1. /\ cpu.pc = "rom" /\ cpu.r2 = "rom" /\ cpu.r3 = "data_alloc" /\ "rom" \in Engines
      /\ UNCHANGED <<slots, heap, mail, link, handles, table>>
  BY DEF RxData, AtTrap, Engines
<1>2. Busy /\ cpu.r0 \in Blocks \cup {Null} /\ pending.msg \in Blocks
  BY <1>1 DEF Busy, Guest, IInv, EngineOwns, BlocksKept, AllocStages
<1>3. CASE cpu.r0 = Null
  <2>1. Resume("rom", "memory") /\ UNCHANGED call
    BY <1>3 DEF RxData, AllocFailed
  <2>2. Reported("memory", call.sent, call.owed)
    BY <1>1, Outstanding DEF AllocStages
  <2> QED BY <1>1, <2>1, <2>2, ResumePreserves DEF Statuses
<1>4. CASE /\ cpu.r0 # Null
           /\ Route("rom", "send", "L2CAP", pending.msg, "write")
           /\ pending' = [pending EXCEPT !.data = cpu.r0]
  <2>1. /\ Words(pending') /\ pending'.op = pending.op /\ pending'.status = pending.status
        /\ pending'.followup = pending.followup /\ pending'.handle = pending.handle
        /\ pending'.msg = pending.msg
    BY <1>2, <1>4 DEF IInv, Typed, Words
  <2>2. call' = [call EXCEPT !.sent = Append(@, Event("write", pending))]
    BY <1>4 DEF Route, Answers
  <2>3. call'.sent = call.owed
    BY <1>1, <2>2, Outstanding DEF IInv, Typed, AllocStages
  <2>4. "L2CAP" \in Layers /\ "send" \in SendStages
    BY DEF Layers, SendStages
  <2> QED BY <1>1, <1>2, <1>4, <2>1, <2>3, <2>4, RoutePreserves
<1>5. CASE cpu.r0 # Null /\ Unroutable("rom", "L2CAP", pending.msg)
  <2>1. UNCHANGED <<cpu, resume, pending, call>>
    BY <1>5 DEF Unroutable
  <2> QED BY <1>1, <2>1, UnchangedPreserves DEF hciVars
<1> QED BY <1>3, <1>4, <1>5 DEF RxData

LEMMA FollowupStep ==
  ASSUME IInv, SecurityFollowup
  PROVE  IInv'
<1>1. /\ cpu.pc = "security" /\ cpu.r2 = "security" /\ cpu.r3 = "status_send"
      /\ "security" \in Engines /\ UNCHANGED <<slots, heap, mail, link, handles, table, call>>
  BY DEF SecurityFollowup, AtTrap, Engines
<1>2. /\ Busy /\ cpu.r0 = "success" /\ pending.msg = Null /\ pending.data = Null
      /\ call.sent = <<Event("status", pending)>> /\ call.owed = Owed("status_alloc", pending)
      /\ Words(pending)
  BY <1>1 DEF Busy, Guest, IInv, EngineOwns, Progress, BlocksKept, SendStages, Typed
<1>3. CASE pending.followup
  <2>1. EnterAlloc("security", "enc_alloc") /\ UNCHANGED <<resume, pending>>
    BY <1>3 DEF SecurityFollowup
  <2>2. call.owed = <<Event("status", pending), Event("encrypted", pending)>>
    BY <1>2, <1>3, OwedTwice
  <2> QED BY <1>1, <1>2, <2>1, <2>2, SecondAllocPreserves
<1>4. CASE ~pending.followup
  <2>1. Resume("security", cpu.r0)
    BY <1>4 DEF SecurityFollowup
  <2>2. call.sent = call.owed
    <3>1. pending.followup \in BOOLEAN
      BY <1>2 DEF Words
    <3> QED BY <1>2, <1>4, <3>1, OwedByStage
  <2> QED BY <1>1, <1>2, <2>1, <2>2, ResumePreserves DEF Statuses, Reported
<1> QED BY <1>3, <1>4

LEMMA FinishSendStep ==
  ASSUME IInv, NEW e \in Engines, FinishSend(e)
  PROVE  IInv'
<1>1. /\ cpu.pc = e /\ cpu.r2 = e /\ cpu.r3 = "send" /\ Resume(e, cpu.r0)
      /\ UNCHANGED <<slots, heap, mail, link, handles, table, call>>
  BY DEF FinishSend, AtTrap
<1>2. cpu.r0 = "success" /\ call.sent = call.owed
  BY <1>1 DEF Busy, Guest, Engines, IInv, EngineOwns, Progress, SendStages
<1> QED BY <1>1, <1>2, ResumePreserves DEF Statuses, Reported

LEMMA StageStep ==
  ASSUME IInv, Stage
  PROVE  IInv'
<1> USE DEF Engines, Layers, SendStages, AllocStages
<1>1. CASE RomComplete
  BY <1>1, Outstanding, FinishAllocPreserves DEF RomComplete, FinishAlloc, AtTrap
<1>2. CASE RomConnection
  BY <1>2, Outstanding, FinishAllocPreserves DEF RomConnection, FinishAlloc, AtTrap
<1>3. CASE RomDisconnection
  BY <1>3, Outstanding, FinishAllocPreserves DEF RomDisconnection, FinishAlloc, AtTrap
<1>4. CASE ExtraComplete
  BY <1>4, Outstanding, FinishAllocPreserves DEF ExtraComplete, FinishAlloc, AtTrap
<1>5. CASE ExtraStatus
  BY <1>5, Outstanding, FinishAllocPreserves DEF ExtraStatus, FinishAlloc, AtTrap
<1>6. CASE SecurityComplete
  BY <1>6, Outstanding, FinishAllocPreserves DEF SecurityComplete, FinishAlloc, AtTrap
<1>7. CASE SecurityStatus
  BY <1>7, Outstanding, FinishAllocPreserves DEF SecurityStatus, FinishAlloc, AtTrap
<1>8. CASE SecurityChange
  BY <1>8, Outstanding, FinishAllocPreserves DEF SecurityChange, FinishAlloc, AtTrap
<1> QED BY <1>1, <1>2, <1>3, <1>4, <1>5, <1>6, <1>7, <1>8, OsalAllocStep, OsalSendStep, RxMessageStep,
           RxDataStep, FollowupStep, FinishSendStep DEF Stage

-----------------------------------------------------------------------------
(* The commands. *)

Links == [status : SUBSET Flags, seen : SUBSET Flags, fresh : BOOLEAN]

LEMMA ImmediateStep ==
  ASSUME IInv, Command, NEW op, NEW status \in StatusWord, Immediate(op, status), link' \in Links
  PROVE  IInv'
<1>1. /\ ~Busy /\ cpu.pc \in Guest /\ UNCHANGED <<slots, heap, mail, handles, table, resume, pending>>
      /\ cpu' = [cpu EXCEPT !.r0 = status]
      /\ call' = [who |-> cpu.pc, op |-> op, owed |-> <<>>, sent |-> <<>>]
  BY DEF Command, InGuest, Busy, Guest, Immediate, Called
<1>2. cpu.r2 \notin Engines /\ cpu.r3 = "own"
  BY <1>1 DEF IInv, GuestOwns
<1>3. status \in Statuses /\ status # "memory"
  BY DEF StatusWord, Statuses
<1>4. /\ cpu' \in Cpus /\ cpu'.pc = cpu.pc /\ cpu'.r0 = status /\ cpu'.r2 = cpu.r2
      /\ cpu'.r3 = cpu.r3
  BY <1>1, <1>3 DEF IInv, Typed, Cpus
<1>5. Reported(status, <<>>, <<>>)
  BY <1>3 DEF Reported
<1>6. \A which \in {"rx", "cccd"} : handles[which] # 0 => Meant(which, handles[which])
  BY DEF IInv, Addressed
<1>7. /\ slots \in [Layers -> Tasks \cup {NoTask}] /\ heap \subseteq Blocks
      /\ mail \in [Tasks -> SUBSET Blocks] /\ handles \in [{"rx", "cccd"} -> Nat]
  BY DEF IInv, Typed
<1>8. /\ call' = [who |-> call'.who, op |-> call'.op, owed |-> call'.owed, sent |-> call'.sent]
      /\ call'.who = cpu.pc /\ call'.sent = <<>> /\ call'.owed = <<>>
  BY <1>1
<1> QED BY <1>1, <1>2, <1>4, <1>5, <1>6, <1>7, <1>8, GuestPreserves DEF Links

LEMMA CommandStep ==
  ASSUME IInv, Command, NEW e \in Engines, NEW stage \in {"alloc", "status_alloc"}, NEW op,
         NEW r2 \in {"own", "scratch"}, NEW words, Words(words),
         words.msg = Null, words.data = Null, words.handle = 0, words.followup => e = "security",
         Begin(e, stage, op, r2, words), link' \in Links
  PROVE  IInv'
<1>1. ~Busy /\ UNCHANGED <<slots, heap, mail, handles, table>>
  BY DEF Command, InGuest, Busy, Guest
<1>2. r2 \in R2 \ Engines /\ stage \in FirstStages
  BY DEF R2, Engines, FirstStages
<1>3. handles \in [{"rx", "cccd"} -> Nat]
      /\ \A which \in {"rx", "cccd"} : handles[which] # 0 => Meant(which, handles[which])
  BY DEF IInv, Typed, Addressed
<1> QED BY <1>1, <1>2, <1>3, BeginPreserves DEF Links

\* A command that answers with its own status and nothing more.
LEMMA AnswerStep ==
  ASSUME IInv, Command, NEW e \in Engines, NEW stage \in {"alloc", "status_alloc"}, NEW op,
         NEW r2 \in {"own", "scratch"}, NEW status \in Statuses,
         Begin(e, stage, op, r2, Answer(op, status)), link' \in Links
  PROVE  IInv'
<1> DEFINE words == Answer(op, status)
<1>1. /\ Words(words) /\ words.msg = Null /\ words.data = Null /\ words.followup = FALSE
      /\ words.handle = 0
  BY AnswerWords
<1>2. Begin(e, stage, op, r2, words)
  OBVIOUS
<1> HIDE DEF words
<1> QED BY <1>1, <1>2, CommandStep

LEMMA CommandsStep ==
  ASSUME IInv, Commands
  PROVE  IInv'
<1>0. link \in Links /\ [link EXCEPT !.status = {}] \in Links
  BY DEF IInv, Typed, Links
<1>a. \A handle : ConnectionStatus(handle) \in {"success", "inactive"}
  BY DEF ConnectionStatus
<1>b. \A handle, valid : DataLengthStatus(handle, valid) \in StatusWord
  BY DEF DataLengthStatus, StatusWord
<1>c. \A status \in StatusWord : status \in Statuses
  BY DEF StatusWord, Statuses
<1>d. {"success", "invalid", "inactive"} = StatusWord
  BY DEF StatusWord
<1>e. "rom" \in Engines /\ "extra" \in Engines /\ "security" \in Engines
  BY DEF Engines
<1>1. ASSUME NEW op \in RomStatusOps, NEW valid \in BOOLEAN, SetRadio(op, valid) PROVE IInv'
  <2>1. Command /\ link' = link
    BY <1>1 DEF SetRadio
  <2>2. CASE valid
    BY <1>0, <1>1, <1>c, <1>d, <1>e, <2>1, <2>2, AnswerStep DEF SetRadio
  <2>3. CASE ~valid
    BY <1>0, <1>1, <1>d, <2>1, <2>3, ImmediateStep DEF SetRadio
  <2> QED BY <2>2, <2>3
<1>2. ASSUME NEW op \in RomReadOps, ReadController(op) PROVE IInv'
  BY <1>0, <1>2, <1>c, <1>d, <1>e, AnswerStep DEF ReadController
<1>3. ASSUME NEW op \in ListOps, NEW valid \in BOOLEAN, EditList(op, valid) PROVE IInv'
  <2>1. Command /\ link' = link
    BY <1>3 DEF EditList
  <2>2. CASE valid
    BY <1>0, <1>3, <1>c, <1>d, <1>e, <2>1, <2>2, AnswerStep DEF EditList, CommandComplete
  <2>3. CASE ~valid
    BY <1>0, <1>3, <1>d, <2>1, <2>3, ImmediateStep DEF EditList
  <2> QED BY <2>2, <2>3
<1>4. ASSUME NEW op \in ExtraOps, NEW handle \in {0, 1}, ReadRssi(op, handle) PROVE IInv'
  BY <1>0, <1>4, <1>a, <1>c, <1>d, <1>e, AnswerStep DEF ReadRssi, CommandComplete
<1>5. ASSUME NEW op \in CapsOps, NEW valid \in BOOLEAN, ControllerCaps(op, valid) PROVE IInv'
  <2>1. Command /\ link' = link
    BY <1>5 DEF ControllerCaps
  <2> DEFINE status == IF valid THEN "success" ELSE "invalid"
  <2>2. status \in Statuses /\ Begin("extra", "alloc", op, "scratch", Answer(op, status))
    BY <1>5 DEF ControllerCaps, CommandComplete, Statuses
  <2> HIDE DEF status
  <2> QED BY <1>0, <1>e, <2>1, <2>2, AnswerStep
<1>6. ASSUME NEW op \in LengthOps, NEW handle \in {0, 1, 3}, NEW valid \in BOOLEAN,
             SetDataLength(op, handle, valid)
      PROVE  IInv'
  BY <1>0, <1>6, <1>b, <1>c, <1>e, AnswerStep DEF SetDataLength, CommandComplete
<1>7. ASSUME NEW op \in SecurityOps, NEW valid \in BOOLEAN, Encrypt(op, valid) PROVE IInv'
  <2>1. Command /\ link' = link
    BY <1>7 DEF Encrypt
  <2>2. CASE valid
    BY <1>0, <1>7, <1>c, <1>d, <1>e, <2>1, <2>2, AnswerStep DEF Encrypt
  <2>3. CASE ~valid
    BY <1>0, <1>7, <1>d, <2>1, <2>3, ImmediateStep DEF Encrypt
  <2> QED BY <2>2, <2>3
<1>8. ASSUME NEW op \in SecurityOps, NEW valid \in BOOLEAN, NEW handle \in {0, 1},
             KeyReply(op, handle, valid)
      PROVE  IInv'
  <2>1. Command /\ link' = link
    BY <1>8 DEF KeyReply
  <2> DEFINE status == IF ConnectionStatus(handle) = "success" /\ ~valid
                         THEN "invalid" ELSE ConnectionStatus(handle)
  <2>2. status \in Statuses /\ Begin("security", "alloc", op, "own", Answer(op, status))
    BY <1>8, <1>a, <1>c, <1>d DEF KeyReply
  <2> HIDE DEF status
  <2> QED BY <1>0, <1>e, <2>1, <2>2, AnswerStep
<1>9. ASSUME NEW valid \in BOOLEAN, NEW handle \in {0, 1}, StartEncrypt(handle, valid) PROVE IInv'
  <2>1. Command /\ link' = link
    BY <1>9 DEF StartEncrypt
  <2>2. CASE ConnectionStatus(handle) = "success" /\ valid
    <3> DEFINE words == [Answer("StartEncrypt", "success") EXCEPT !.followup = TRUE]
    <3>1. Begin("security", "status_alloc", "StartEncrypt", "own", words)
      BY <1>9, <2>2 DEF StartEncrypt
    <3>2. Words(words) /\ words.msg = Null /\ words.data = Null /\ words.handle = 0
      BY <1>c, <1>d, FollowupWords
    <3> HIDE DEF words
    <3> QED BY <1>0, <1>e, <2>1, <3>1, <3>2, CommandStep
  <2>3. CASE ~(ConnectionStatus(handle) = "success" /\ valid)
    <3> DEFINE status == IF ConnectionStatus(handle) = "success" THEN "invalid" ELSE "inactive"
    <3>1. status \in StatusWord /\ Immediate("StartEncrypt", status)
      BY <1>9, <2>3 DEF StartEncrypt, StatusWord
    <3> HIDE DEF status
    <3> QED BY <1>0, <2>1, <3>1, ImmediateStep
  <2> QED BY <2>2, <2>3
<1>10. ASSUME NEW valid \in BOOLEAN, NEW handle \in {0, 1}, LlStatus(handle, valid) PROVE IInv'
  BY <1>0, <1>10, <1>b, ImmediateStep DEF LlStatus
<1>11. ASSUME NEW valid \in BOOLEAN, HostNumCompleted(valid) PROVE IInv'
  <2> DEFINE status == IF valid THEN "success" ELSE "invalid"
  <2>1. /\ Command /\ link' = link /\ status \in StatusWord
        /\ Immediate("HostNumCompleted", status)
    BY <1>11 DEF HostNumCompleted, StatusWord
  <2> HIDE DEF status
  <2> QED BY <1>0, <2>1, ImmediateStep
<1>12. ASSUME NEW handle \in {0, 1}, Disconnect(handle) PROVE IInv'
  <2> DEFINE status == ConnectionStatus(handle)
  <2>1. /\ Command /\ status \in Statuses
        /\ Begin("extra", "status_alloc", "Disconnect", "own", Answer("Disconnect", status))
    BY <1>12, <1>a, <1>c, <1>d DEF Disconnect
  <2>2. link' \in Links
    BY <1>0, <1>12 DEF Disconnect, Links
  <2> HIDE DEF status
  <2> QED BY <1>e, <2>1, <2>2, AnswerStep
<1>13. CASE ProcessEvent
  BY <1>0, <1>13, <1>d, ImmediateStep DEF ProcessEvent
<1>14. CASE ResetCmd
  BY <1>0, <1>14, <1>c, <1>d, <1>e, AnswerStep DEF ResetCmd, CommandComplete
<1>15. CASE LlReset
  BY <1>0, <1>15, <1>d, ImmediateStep DEF LlReset
<1> QED BY <1>1, <1>2, <1>3, <1>4, <1>5, <1>6, <1>7, <1>8, <1>9, <1>10, <1>11, <1>12, <1>13, <1>14,
           <1>15 DEF Commands

-----------------------------------------------------------------------------
(* The guest, the host and the idle loop. *)

\* What the host writes, or remembers, without a call of the guest.
LEMMA AsidePreserves ==
  ASSUME IInv, UNCHANGED <<cpu, resume, pending, slots, heap, mail, table, call>>, link' \in Links,
         handles' \in [{"rx", "cccd"} -> Nat],
         \A which \in {"rx", "cccd"} : handles'[which] # 0 => Meant(which, handles'[which])
  PROVE  IInv'
<1>1. Typed'
  BY DEF IInv, Typed, Words, Links
<1>2. Addressed'
  BY DEF IInv, Addressed, Meant
<1>3. GuestOwns' /\ EngineOwns' /\ Progress' /\ BlocksKept'
  BY DEF IInv, GuestOwns, EngineOwns, Progress, BlocksKept, Busy
<1>4. AnsweredOnce'
  BY AnsweredIsReported DEF IInv, AnsweredOnce, Reported, Busy, Registered
<1> QED BY <1>1, <1>2, <1>3, <1>4 DEF IInv

LEMMA HostStep ==
  ASSUME IInv, Host
  PROVE  IInv'
<1>1. \A status \in SUBSET Flags, fresh \in BOOLEAN :
         [link EXCEPT !.status = status, !.fresh = @ \/ fresh] \in Links
  BY DEF IInv, Typed, Links
<1>2. link.status \in SUBSET Flags /\ "connected" \in Flags /\ "notify" \in Flags
  BY DEF IInv, Typed, Flags
<1>3. PICK status \in SUBSET Flags, fresh \in BOOLEAN : HostSets(status, fresh)
  BY <1>2 DEF Host, HostConnects, HostDisconnects, HostSubscribes, HostWrites
<1>4. link' \in Links /\ UNCHANGED <<cpu, resume, pending, slots, heap, mail, table, call, handles>>
  BY <1>1, <1>3 DEF HostSets
<1>5. /\ handles \in [{"rx", "cccd"} -> Nat]
      /\ \A which \in {"rx", "cccd"} : handles[which] # 0 => Meant(which, handles[which])
  BY DEF IInv, Typed, Addressed
<1> QED BY <1>4, <1>5, AsidePreserves

LEMMA HciInitStep ==
  ASSUME IInv, HciInit
  PROVE  IInv'
<1>1. /\ cpu.pc = "boot" /\ link' = [link EXCEPT !.seen = {}, !.fresh = FALSE]
      /\ handles' = [h \in {"rx", "cccd"} |-> 0] /\ cpu' = [cpu EXCEPT !.r0 = "own"]
      /\ call' = [who |-> cpu.pc, op |-> "Init", owed |-> <<>>, sent |-> <<>>]
      /\ UNCHANGED <<resume, pending, slots, heap, mail, table>>
  BY DEF HciInit, Called
<1>2. ~Busy /\ cpu.r2 \notin Engines /\ cpu.r3 = "own"
  BY <1>1 DEF Busy, Guest, IInv, GuestOwns
<1>3. /\ cpu' \in Cpus /\ cpu'.pc = cpu.pc /\ cpu'.r0 = "own" /\ cpu'.r2 = cpu.r2
      /\ cpu'.r3 = cpu.r3 /\ cpu'.pc \in Guest
  BY <1>1 DEF IInv, Typed, Cpus, Guest
<1>4. link' \in Links
  BY <1>1 DEF IInv, Typed, Links
<1>5. /\ call' = [who |-> call'.who, op |-> call'.op, owed |-> call'.owed, sent |-> call'.sent]
      /\ call'.who = cpu'.pc /\ call'.sent = <<>> /\ call'.owed = <<>>
  BY <1>1, <1>3
<1>6. Reported("own", <<>>, <<>>)
  BY DEF Reported
<1>7. /\ slots \in [Layers -> Tasks \cup {NoTask}] /\ heap \subseteq Blocks
      /\ mail \in [Tasks -> SUBSET Blocks]
  BY DEF IInv, Typed
<1>8. handles' \in [{"rx", "cccd"} -> Nat] /\ \A which \in {"rx", "cccd"} : handles'[which] = 0
  BY <1>1
<1> QED BY <1>1, <1>2, <1>3, <1>4, <1>5, <1>6, <1>7, <1>8, GuestPreserves DEF Links

LEMMA RegisterStep ==
  ASSUME IInv, NEW layer \in Layers, Register(layer, TaskCount - 1)
  PROVE  IInv'
<1>1. /\ cpu.pc = "boot" /\ slots' = [slots EXCEPT ![layer] = TaskCount - 1]
      /\ cpu' = [cpu EXCEPT !.r0 = "own"]
      /\ call' = [who |-> cpu.pc, op |-> "Register", owed |-> <<>>, sent |-> <<>>]
      /\ UNCHANGED <<resume, pending, heap, mail, link, handles, table>>
  BY DEF Register, Called
<1>2. ~Busy /\ cpu.r2 \notin Engines /\ cpu.r3 = "own"
  BY <1>1 DEF Busy, Guest, IInv, GuestOwns
<1>3. /\ cpu' \in Cpus /\ cpu'.pc = cpu.pc /\ cpu'.r0 = "own" /\ cpu'.r2 = cpu.r2
      /\ cpu'.r3 = cpu.r3 /\ cpu'.pc \in Guest
  BY <1>1 DEF IInv, Typed, Cpus, Guest
<1>4. slots' \in [Layers -> Tasks \cup {NoTask}]
  BY <1>1, TasksAssumption DEF IInv, Typed, Tasks
<1>5. /\ call' = [who |-> call'.who, op |-> call'.op, owed |-> call'.owed, sent |-> call'.sent]
      /\ call'.who = cpu'.pc /\ call'.sent = <<>> /\ call'.owed = <<>>
  BY <1>1, <1>3
<1>6. Reported("own", <<>>, <<>>)
  BY DEF Reported
<1>7. /\ heap \subseteq Blocks /\ mail \in [Tasks -> SUBSET Blocks] /\ link \in Links
      /\ handles \in [{"rx", "cccd"} -> Nat]
      /\ \A which \in {"rx", "cccd"} : handles[which] # 0 => Meant(which, handles[which])
  BY DEF IInv, Typed, Addressed, Links
<1> QED BY <1>1, <1>2, <1>3, <1>4, <1>5, <1>6, <1>7, GuestPreserves DEF Links

LEMMA GoOnStep ==
  ASSUME IInv, ~Busy, NEW pc \in Guest, GoOn(pc), heap' \subseteq Blocks,
         mail' \in [Tasks -> SUBSET Blocks]
  PROVE  IInv'
<1>1. /\ cpu' = [cpu EXCEPT !.pc = pc, !.r0 = "own", !.r2 = "own"]
      /\ call' = [who |-> pc, op |-> "none", owed |-> <<>>, sent |-> <<>>]
      /\ UNCHANGED <<resume, pending, slots, link, handles, table>>
  BY DEF GoOn, NoCall
<1>2. cpu.r3 = "own"
  BY DEF IInv, GuestOwns
<1>3. /\ cpu' \in Cpus /\ cpu'.pc = pc /\ cpu'.r0 = "own" /\ cpu'.r2 = "own" /\ cpu'.r3 = cpu.r3
  BY <1>1 DEF IInv, Typed, Cpus, R2
<1>4. "own" \notin Engines
  BY DEF Engines
<1>5. /\ call' = [who |-> call'.who, op |-> call'.op, owed |-> call'.owed, sent |-> call'.sent]
      /\ call'.who = cpu'.pc /\ call'.sent = <<>> /\ call'.owed = <<>>
  BY <1>1, <1>3
<1>6. Reported("own", <<>>, <<>>)
  BY DEF Reported
<1>7. /\ slots \in [Layers -> Tasks \cup {NoTask}] /\ link \in Links
      /\ handles \in [{"rx", "cccd"} -> Nat]
      /\ \A which \in {"rx", "cccd"} : handles[which] # 0 => Meant(which, handles[which])
  BY DEF IInv, Typed, Addressed, Links
<1> QED BY <1>1, <1>2, <1>3, <1>4, <1>5, <1>6, <1>7, GuestPreserves DEF Links

LEMMA GuestStep ==
  ASSUME IInv, \/ Booted \/ RunTask \/ GoIdle
               \/ \E t \in Tasks : \E b \in mail[t] : Receive(t, b)
  PROVE  IInv'
<1>1. heap \subseteq Blocks /\ mail \in [Tasks -> SUBSET Blocks]
  BY DEF IInv, Typed
<1>2. CASE Booted \/ RunTask \/ GoIdle
  <2>1. ~Busy /\ UNCHANGED <<heap, mail>> /\ (GoOn("idle") \/ GoOn("task"))
    BY <1>2 DEF Booted, RunTask, GoIdle, Busy, Guest
  <2> QED BY <1>1, <2>1, GoOnStep DEF Guest
<1>3. ASSUME NEW t \in Tasks, NEW b \in mail[t], Receive(t, b) PROVE IInv'
  <2>1. ~Busy /\ GoOn("task") /\ "task" \in Guest
    BY <1>3 DEF Receive, Busy, Guest
  <2>2. heap' \subseteq Blocks /\ mail' \in [Tasks -> SUBSET Blocks]
    BY <1>1, <1>3 DEF Receive
  <2> QED BY <2>1, <2>2, GoOnStep
<1> QED BY <1>2, <1>3

\* An event of the idle loop.
LEMMA AsyncPreserves ==
  ASSUME IInv, HostIdle, NEW stage \in FirstStages, NEW op, NEW handle \in Nat,
         BeginAsync(stage, op, handle), UNCHANGED <<slots, heap, mail, table>>, link' \in Links,
         handles' \in [{"rx", "cccd"} -> Nat],
         \A which \in {"rx", "cccd"} : handles'[which] # 0 => Meant(which, handles'[which]),
         handle # 0 => Meant(op, handle)
  PROVE  IInv'
<1> DEFINE words == [NoPending EXCEPT !.op = op, !.handle = handle]
<1>1. ~Busy /\ cpu.r2 \in R2 \ Engines /\ "rom" \in Engines
  BY DEF HostIdle, Busy, Guest, IInv, GuestOwns, Typed, Cpus, Engines
<1>2. /\ Words(words) /\ words.msg = Null /\ words.data = Null
      /\ words.op = op /\ words.followup = FALSE /\ words.handle = handle
  BY PollWords
<1>3. Begin("rom", stage, op, cpu.r2, words)
  BY DEF BeginAsync
<1> HIDE DEF words
<1> QED BY <1>1, <1>2, <1>3, BeginPreserves DEF Links

LEMMA AttWriteStep ==
  ASSUME IInv, HostIdle, NEW which \in {"rx", "cccd"}, StageAttWrite(which), link' \in Links
  PROVE  IInv'
<1>1. /\ handles' = [handles EXCEPT ![which] = Resolve(which)]
      /\ UNCHANGED <<slots, heap, mail, table>>
  BY DEF StageAttWrite
<1>2. Resolve(which) # 0 => Meant(which, Resolve(which))
  BY ResolveMeant
<1>3. Resolve(which) \in Nat
  <2>1. \A i \in DOMAIN table : table[i].handle \in Nat
    <3>1. Registrable(table)
      BY TablesAssumption DEF IInv, Typed
    <3>2. DOMAIN table = 1 .. Len(table) /\ Len(table) \in Nat
      BY <3>1 DEF Registrable
    <3>3. \A k \in DOMAIN table : table[k] \in
             [uuid : STRING, handle : Nat, writable : BOOLEAN, of : STRING]
      BY <3>1, <3>2, ElementOfSeq DEF Registrable
    <3> QED BY <3>3
  <2> QED BY <1>2, <2>1 DEF Meant
<1>4. handles' \in [{"rx", "cccd"} -> Nat] /\ handles'[which] = Resolve(which)
      /\ \A other \in {"rx", "cccd"} \ {which} : handles'[other] = handles[other]
  BY <1>1, <1>3 DEF IInv, Typed
<1>5. \A other \in {"rx", "cccd"} : handles'[other] # 0 => Meant(other, handles'[other])
  BY <1>2, <1>4 DEF IInv, Addressed
<1>6. CASE Resolve(which) = 0
  BY <1>1, <1>4, <1>5, <1>6, AsidePreserves DEF StageAttWrite
<1>7. CASE Resolve(which) # 0
  <2>1. BeginAsync("rx_alloc", which, Resolve(which)) /\ "rx_alloc" \in FirstStages
    BY <1>7 DEF StageAttWrite, FirstStages
  <2> QED BY <1>1, <1>2, <1>3, <1>4, <1>5, <2>1, AsyncPreserves
<1> QED BY <1>6, <1>7

LEMMA PollStep ==
  ASSUME IInv, PollRadio \/ PollCccd \/ PollRx
  PROVE  IInv'
<1>1. [link EXCEPT !.seen = link.status] \in Links /\ [link EXCEPT !.fresh = FALSE] \in Links
  BY DEF IInv, Typed, Links
<1>2. CASE PollRadio
  <2> DEFINE stage == IF Connected THEN "conn_alloc" ELSE "disconn_alloc"
  <2>1. HostIdle /\ stage \in FirstStages /\ BeginAsync(stage, "Link", 0)
        /\ UNCHANGED <<slots, heap, mail, handles, table>> /\ link' \in Links
    BY <1>1, <1>2 DEF PollRadio, FirstStages
  <2>2. /\ handles \in [{"rx", "cccd"} -> Nat]
        /\ \A which \in {"rx", "cccd"} : handles[which] # 0 => Meant(which, handles[which])
    BY DEF IInv, Typed, Addressed
  <2> HIDE DEF stage
  <2> QED BY <2>1, <2>2, AsyncPreserves
<1>3. CASE PollCccd
  BY <1>1, <1>3, AttWriteStep DEF PollCccd
<1>4. CASE PollRx
  BY <1>1, <1>4, AttWriteStep DEF PollRx
<1> QED BY <1>2, <1>3, <1>4

\* Every step keeps the invariant.
LEMMA NextStep ==
  ASSUME IInv, [Next]_hciVars
  PROVE  IInv'
<1>1. CASE UNCHANGED hciVars
  BY <1>1, UnchangedPreserves
<1>2. CASE Next
  BY <1>2, CommandsStep, HostStep, StageStep, HciInitStep, RegisterStep, GuestStep, PollStep DEF Next
<1> QED BY <1>1, <1>2

LEMMA InitStep == Init => IInv
<1> SUFFICES ASSUME Init PROVE IInv
  OBVIOUS
<1>1. /\ cpu = [pc |-> "boot", r0 |-> "success", to |-> 0, r1 |-> Null, r2 |-> "own", r3 |-> "own",
                lr |-> "guest"]
      /\ call = [who |-> "boot", op |-> "none", owed |-> <<>>, sent |-> <<>>]
      /\ pending = NoPending /\ handles = [h \in {"rx", "cccd"} |-> 0]
  BY DEF Init, NoCall
<1>2. cpu \in Cpus
  BY <1>1, TasksAssumption DEF Cpus, Guest, Statuses, Tasks, R2, Stages
<1>3. slots \in [Layers -> Tasks \cup {NoTask}]
  BY TasksAssumption DEF Init, Tasks
<1>4. /\ resume \in [Engines -> [pc : Guest \cup {"none"}, r2 : R2, r3 : Stages]]
      /\ heap \subseteq Blocks /\ mail \in [Tasks -> SUBSET Blocks]
      /\ link \in [status : SUBSET Flags, seen : SUBSET Flags, fresh : BOOLEAN]
      /\ handles \in [{"rx", "cccd"} -> Nat] /\ table \in Tables
  BY DEF Init, NoResume, Guest, R2, Stages
<1>5. /\ call = [who |-> call.who, op |-> call.op, owed |-> call.owed, sent |-> call.sent]
      /\ call.who \in Guest
  BY <1>1 DEF Guest
<1>6. Typed
  BY <1>1, <1>2, <1>3, <1>4, <1>5, NoPendingWords DEF Typed
<1>7. ~Busy
  BY <1>1 DEF Busy, Guest
<1>8. GuestOwns
  BY <1>1 DEF GuestOwns, Engines
<1>9. EngineOwns /\ Progress /\ BlocksKept
  BY <1>7 DEF EngineOwns, Progress, BlocksKept
<1>10. Addressed
  BY <1>1, NoPendingWords DEF Addressed
<1>11. AnsweredOnce
  BY <1>1 DEF AnsweredOnce
<1> QED BY <1>6, <1>8, <1>9, <1>10, <1>11 DEF IInv

-----------------------------------------------------------------------------
(* The theorems. *)

\* The invariant holds in every reachable state of the controller.
THEOREM Invariance == Spec => []IInv
<1>1. Init => IInv
  BY InitStep
<1>2. IInv /\ [Next]_hciVars => IInv'
  BY NextStep
<1> QED BY <1>1, <1>2, PTL DEF Spec

\* Every command is answered by exactly the events it is owed, if it reports
\* success, by fewer of them if it reports that there was no memory, and by none
\* otherwise, in whatever order allocations fail in the three engines.
THEOREM AnswersTheorem == Spec => []AnsweredOnce
<1>1. IInv => AnsweredOnce
  BY DEF IInv
<1> QED BY <1>1, Invariance, PTL

\* Every injected write goes to the attribute it means, for every table that a
\* firmware may register.
THEOREM WritesTheorem == Spec => []WritesAddressed
<1>1. IInv => WritesAddressed
  BY DEF IInv, Addressed, Meant, WritesAddressed
<1> QED BY <1>1, Invariance, PTL

\* The registers, the words of the mailbox and the guest's own state keep
\* their types.
THEOREM TypesTheorem == Spec => []TypeOK
<1>1. IInv => TypeOK
  <2> SUFFICES ASSUME IInv PROVE TypeOK
    OBVIOUS
  <2>1. /\ cpu.pc \in Guest \cup {"osal_alloc", "osal_send"} \cup Engines
        /\ cpu.r0 \in Blocks \cup {Null, "own"} \cup Statuses
        /\ cpu.to \in Tasks /\ cpu.r1 \in Blocks \cup {Null} /\ cpu.r2 \in R2
        /\ cpu.r3 \in Stages /\ cpu.lr \in Engines \cup {"guest"}
    BY DEF IInv, Typed, Cpus
  <2> QED BY <2>1 DEF IInv, Typed, Words, TypeOK
<1> QED BY <1>1, Invariance, PTL

\* While an engine works, the call it works for stays the same.
LEMMA CallKept ==
  ASSUME IInv, Busy, Next
  PROVE  call'.who = call.who
<1>1. ~(Commands \/ HciInit \/ Booted \/ RunTask \/ GoIdle \/ PollRadio \/ PollCccd \/ PollRx)
  BY DEF Commands, SetRadio, ReadController, EditList, ReadRssi, ControllerCaps, SetDataLength,
         Encrypt, KeyReply, StartEncrypt, LlStatus, HostNumCompleted, Disconnect, ProcessEvent,
         ResetCmd, LlReset, Command, InGuest, HciInit, Booted, RunTask, GoIdle, PollRadio,
         PollCccd, PollRx, HostIdle, Busy, Guest
<1>2. /\ ~\E layer \in Layers : Register(layer, TaskCount - 1)
      /\ ~\E t \in Tasks : \E b \in mail[t] : Receive(t, b)
  BY DEF Register, Receive, Busy, Guest
<1>3. CASE Host
  BY <1>3 DEF Host, HostConnects, HostDisconnects, HostSubscribes, HostWrites, HostSets
<1>4. CASE Stage
  <2>1. ASSUME NEW event, Answers(event) PROVE call'.who = call.who
    BY <2>1 DEF Answers, IInv, Typed
  <2>2. ASSUME NEW e \in Engines, NEW stage, NEW layer, NEW event, NEW next,
               FinishAlloc(e, stage, layer, event, next)
        PROVE  call'.who = call.who
    BY <2>1, <2>2 DEF FinishAlloc, AllocFailed, Route, Unroutable, Engines
  <2>3. CASE OsalAlloc \/ OsalSend \/ RxMessage \/ SecurityFollowup \/ \E e \in Engines : FinishSend(e)
    BY <2>3 DEF OsalAlloc, OsalSend, RxMessage, AllocFailed, SecurityFollowup, FinishSend
  <2>4. CASE RxData
    BY <2>1, <2>4 DEF RxData, AllocFailed, Route, Unroutable
  <2>5. CASE RomComplete \/ RomConnection \/ RomDisconnection
    BY <2>2, <2>5 DEF RomComplete, RomConnection, RomDisconnection, Engines
  <2>6. CASE ExtraComplete \/ ExtraStatus
    BY <2>2, <2>6 DEF ExtraComplete, ExtraStatus, Engines
  <2>7. CASE SecurityComplete \/ SecurityStatus \/ SecurityChange
    BY <2>2, <2>7 DEF SecurityComplete, SecurityStatus, SecurityChange, Engines
  <2> QED BY <1>4, <2>3, <2>4, <2>5, <2>6, <2>7 DEF Stage
<1> QED BY <1>1, <1>2, <1>3, <1>4 DEF Next

\* The CPU comes back to the code that it was taken from, with no magic number
\* left in a register.
THEOREM CallerTheorem == Spec => CallerRestored
<1>1. IInv /\ IInv' /\ [Next]_hciVars =>
        [Busy /\ ~Busy' => cpu'.pc = call.who /\ cpu'.r2 \notin Engines /\ cpu'.r3 = "own"]_hciVars
  <2> SUFFICES ASSUME IInv, IInv', Next, Busy, ~Busy'
               PROVE  cpu'.pc = call.who /\ cpu'.r2 \notin Engines /\ cpu'.r3 = "own"
    OBVIOUS
  <2>1. call'.who = call.who
    BY CallKept
  <2>2. cpu'.pc = call'.who /\ cpu'.r2 \notin Engines /\ cpu'.r3 = "own"
    BY DEF IInv, GuestOwns
  <2> QED BY <2>1, <2>2
<1> QED BY <1>1, Invariance, PTL DEF Spec, CallerRestored

-----------------------------------------------------------------------------
(* No block is lost. *)

Queued == UNION {mail[t] : t \in Tasks}
Returned == IF cpu.pc \in Engines THEN {cpu.r0} ELSE {}
Passed == IF cpu.pc = "osal_send" THEN {cpu.r1} ELSE {}
AtHand == Returned \cup Passed \cup {pending.msg, pending.data}

LEMMA LostIs ==
  /\ Lost = heap \ (Queued \cup AtHand)
  /\ Lost' = heap' \ (Queued' \cup AtHand')
<1>1. /\ Lost = heap \ (Queued \cup Returned \cup Passed \cup {pending.msg, pending.data})
      /\ Lost' = heap' \ (Queued' \cup Returned' \cup Passed' \cup {pending'.msg, pending'.data})
  BY Zenon DEF Lost, Queued, Returned, Passed
<1> QED BY <1>1 DEF AtHand

\* It is enough that what a step takes out of a stage's hands was no block, is
\* in the mail, or is still at hand, and that what it allocates is at hand.
LEMMA StillKnown ==
  ASSUME IInv, Queued \subseteq Queued', heap' \subseteq heap \cup AtHand',
         AtHand \cap Blocks \subseteq Queued' \cup AtHand'
  PROVE  Lost' \subseteq Lost
<1>1. Lost = heap \ (Queued \cup AtHand) /\ Lost' = heap' \ (Queued' \cup AtHand')
  BY LostIs
<1>2. heap \subseteq Blocks
  BY DEF IInv, Typed
<1> QED BY <1>1, <1>2

\* What a stage has at hand when it goes back to its caller was nothing or is in
\* the mail.
LEMMA ResumeLosesNothing ==
  ASSUME IInv, NEW e \in Engines, cpu.pc = e, cpu.r2 = e, NEW r0, Resume(e, r0),
         UNCHANGED <<heap, mail>>, cpu.r0 \notin Blocks, cpu.r3 # "data_alloc"
  PROVE  Lost' \subseteq Lost
<1>1. Busy /\ cpu.pc # "osal_send" /\ cpu.r3 \in AllocStages \cup SendStages
  BY DEF Busy, Guest, Engines, IInv, EngineOwns
<1>2. {pending.msg, pending.data} \subseteq {Null} \cup Queued
  BY <1>1 DEF IInv, BlocksKept, AllocStages, FirstStages, SendStages, Queued
<1>3. AtHand \cap Blocks \subseteq Queued
  BY <1>1, <1>2, BlocksAssumption DEF AtHand, Returned, Passed
<1> QED BY <1>3, StillKnown DEF Queued

LEMMA WordsAreNoBlocks ==
  Null \notin Blocks /\ "own" \notin Blocks /\ "success" \notin Blocks
BY BlocksAssumption

LEMMA AllocLosesNothing ==
  ASSUME IInv, OsalAlloc
  PROVE  Lost' \subseteq Lost
<1>1. PICK b \in (Blocks \ heap) \cup {Null} :
         heap' = heap \cup ({b} \ {Null}) /\ cpu' = [cpu EXCEPT !.r0 = b, !.pc = cpu.lr]
  BY DEF OsalAlloc
<1>2. cpu.pc = "osal_alloc" /\ UNCHANGED <<pending, mail>> /\ cpu.lr \in Engines
  BY DEF OsalAlloc, Busy, Guest, IInv, EngineOwns
<1>3. cpu'.pc = cpu.lr /\ cpu'.r0 = b
  BY <1>1 DEF IInv, Typed, Cpus
<1>4. b \in AtHand' /\ AtHand \subseteq AtHand'
  BY <1>2, <1>3 DEF AtHand, Returned, Passed, Engines
<1> QED BY <1>1, <1>2, <1>4, StillKnown DEF Queued

LEMMA SendLosesNothing ==
  ASSUME IInv, OsalSend
  PROVE  Lost' \subseteq Lost
<1>1. /\ cpu.pc = "osal_send" /\ UNCHANGED <<heap, pending>>
      /\ mail' = [mail EXCEPT ![cpu.to] = @ \cup {cpu.r1} \cup ({pending.data} \ {Null})]
      /\ cpu.to \in Tasks
  BY DEF OsalSend, IInv, Typed, Cpus
<1>2. /\ \A t \in Tasks : mail[t] \subseteq mail'[t]
      /\ cpu.r1 \in mail'[cpu.to]
  BY <1>1 DEF IInv, Typed
<1>3. Queued \subseteq Queued' /\ cpu.r1 \in Queued'
  BY <1>1, <1>2 DEF Queued
<1>4. AtHand \subseteq Queued' \cup AtHand'
  BY <1>1, <1>3 DEF AtHand, Returned, Passed, Engines
<1> QED BY <1>1, <1>3, <1>4, StillKnown

LEMMA RouteLosesNothing ==
  ASSUME IInv, NEW e \in Engines, cpu.pc = e, NEW stage, NEW layer, NEW msg, NEW event,
         Route(e, stage, layer, msg, event), UNCHANGED <<heap, mail>>,
         AtHand \cap Blocks \subseteq {msg, pending'.msg, pending'.data}
  PROVE  Lost' \subseteq Lost
<1>1. cpu' = [cpu EXCEPT !.pc = "osal_send", !.to = slots[layer], !.r1 = msg, !.r2 = e,
                        !.r3 = stage, !.lr = e]
  BY DEF Route, EnterSend
<1>2. cpu'.pc = "osal_send" /\ cpu'.r1 = msg
  BY <1>1 DEF IInv, Typed, Cpus
<1>3. {msg, pending'.msg, pending'.data} \subseteq AtHand'
  BY <1>2 DEF AtHand, Returned, Passed
<1> QED BY <1>3, StillKnown DEF Queued

LEMMA FinishAllocLosesNothing ==
  ASSUME IInv, NEW e \in Engines, NEW stage \in AllocStages \ {"rx_alloc", "data_alloc"},
         NEW layer \in Layers, NEW next, NEW event, FinishAlloc(e, stage, layer, event, next),
         Registered
  PROVE  Lost' \subseteq Lost
<1>1. /\ cpu.pc = e /\ cpu.r2 = e /\ cpu.r3 = stage /\ UNCHANGED <<heap, mail>>
      /\ Busy /\ pending.msg = Null /\ pending.data = Null /\ cpu.pc # "osal_send"
  BY DEF FinishAlloc, AtTrap, Busy, Guest, Engines, IInv, BlocksKept, AllocStages, FirstStages
<1>2. CASE cpu.r0 = Null
  BY <1>1, <1>2, WordsAreNoBlocks, ResumeLosesNothing DEF FinishAlloc, AllocFailed
<1>3. CASE Route(e, next, layer, cpu.r0, event) /\ UNCHANGED pending
  <2>1. AtHand \subseteq {cpu.r0, Null}
    BY <1>1 DEF AtHand, Returned, Passed
  <2> QED BY <1>1, <1>3, <2>1, WordsAreNoBlocks, RouteLosesNothing
<1>4. ~Unroutable(e, layer, cpu.r0)
  BY DEF Unroutable, Registered
<1> QED BY <1>2, <1>3, <1>4 DEF FinishAlloc

LEMMA SecondAllocLosesNothing ==
  ASSUME IInv, NEW e \in Engines, cpu.pc = e, NEW stage, EnterAlloc(e, stage),
         UNCHANGED <<heap, mail>>,
         AtHand \cap Blocks \subseteq {pending'.msg, pending'.data}
  PROVE  Lost' \subseteq Lost
<1>1. {pending'.msg, pending'.data} \subseteq AtHand'
  BY DEF AtHand, Returned, Passed
<1> QED BY <1>1, StillKnown DEF Queued

LEMMA StageLosesNothing ==
  ASSUME IInv, Stage, Registered, ~(AtTrap("rom", "data_alloc") /\ cpu.r0 = Null)
  PROVE  Lost' \subseteq Lost
<1>1. ASSUME NEW e \in Engines, FinishSend(e) PROVE Lost' \subseteq Lost
  <2>1. cpu.pc = e /\ cpu.r2 = e /\ cpu.r3 = "send" /\ Resume(e, cpu.r0) /\ UNCHANGED <<heap, mail>>
    BY <1>1 DEF FinishSend, AtTrap
  <2>2. cpu.r0 = "success"
    BY <2>1 DEF Busy, Guest, Engines, IInv, EngineOwns, SendStages
  <2> QED BY <2>1, <2>2, WordsAreNoBlocks, ResumeLosesNothing
<1>2. CASE RxMessage
  <2>1. /\ cpu.pc = "rom" /\ cpu.r2 = "rom" /\ cpu.r3 = "rx_alloc" /\ UNCHANGED <<heap, mail>>
        /\ "rom" \in Engines /\ Busy /\ pending.msg = Null /\ pending.data = Null
    BY <1>2 DEF RxMessage, AtTrap, Busy, Guest, Engines, IInv, BlocksKept, FirstStages
  <2>2. CASE cpu.r0 = Null
    BY <1>2, <2>1, <2>2, WordsAreNoBlocks, ResumeLosesNothing DEF RxMessage, AllocFailed
  <2>3. CASE cpu.r0 # Null
    <3>1. EnterAlloc("rom", "data_alloc") /\ pending' = [pending EXCEPT !.msg = cpu.r0]
      BY <1>2, <2>3 DEF RxMessage
    <3>2. AtHand \subseteq {cpu.r0, Null} /\ pending'.msg = cpu.r0
      BY <2>1, <3>1 DEF AtHand, Returned, Passed, IInv, Typed, Words
    <3> QED BY <2>1, <3>1, <3>2, WordsAreNoBlocks, SecondAllocLosesNothing
  <2> QED BY <2>2, <2>3
<1>3. CASE SecurityFollowup
  <2>1. /\ cpu.pc = "security" /\ cpu.r2 = "security" /\ cpu.r3 = "status_send"
        /\ UNCHANGED <<heap, mail>> /\ "security" \in Engines /\ Busy
        /\ pending.msg = Null /\ pending.data = Null /\ cpu.r0 = "success"
    BY <1>3 DEF SecurityFollowup, AtTrap, Busy, Guest, Engines, IInv, BlocksKept, EngineOwns,
                SendStages
  <2>2. CASE pending.followup
    <3>1. EnterAlloc("security", "enc_alloc") /\ AtHand \subseteq {"success", Null}
      BY <1>3, <2>1, <2>2 DEF SecurityFollowup, AtHand, Returned, Passed
    <3> QED BY <2>1, <3>1, WordsAreNoBlocks, SecondAllocLosesNothing
  <2>3. CASE ~pending.followup
    BY <1>3, <2>1, <2>3, WordsAreNoBlocks, ResumeLosesNothing DEF SecurityFollowup
  <2> QED BY <2>2, <2>3
<1>4. CASE RxData
  <2>1. /\ AtTrap("rom", "data_alloc") /\ cpu.r0 # Null /\ UNCHANGED <<heap, mail>>
        /\ "rom" \in Engines /\ cpu.pc = "rom" /\ pending.data = Null
    BY <1>4 DEF RxData, AtTrap, Busy, Guest, Engines, IInv, BlocksKept
  <2>2. /\ Route("rom", "send", "L2CAP", pending.msg, "write")
        /\ pending' = [pending EXCEPT !.data = cpu.r0]
    BY <1>4, <2>1 DEF RxData, Unroutable, Registered, Layers
  <2>3. pending'.data = cpu.r0
    BY <2>2 DEF IInv, Typed, Words
  <2>4. AtHand \cap Blocks \subseteq {pending.msg, pending'.msg, pending'.data}
    BY <2>1, <2>3, WordsAreNoBlocks DEF AtHand, Returned, Passed
  <2> QED BY <2>1, <2>2, <2>4, RouteLosesNothing
<1>5. /\ {"alloc", "conn_alloc", "disconn_alloc", "status_alloc", "enc_alloc"}
           \subseteq AllocStages \ {"rx_alloc", "data_alloc"}
      /\ {"rom", "extra", "security"} = Engines /\ "GAP" \in Layers /\ "SMP" \in Layers
  BY DEF AllocStages, Engines, Layers
<1>6. CASE RomComplete \/ RomConnection \/ RomDisconnection
  BY <1>5, <1>6, FinishAllocLosesNothing DEF RomComplete, RomConnection, RomDisconnection
<1>7. CASE ExtraComplete \/ ExtraStatus
  BY <1>5, <1>7, FinishAllocLosesNothing DEF ExtraComplete, ExtraStatus
<1>8. CASE SecurityComplete \/ SecurityStatus \/ SecurityChange
  BY <1>5, <1>8, FinishAllocLosesNothing DEF SecurityComplete, SecurityStatus, SecurityChange
<1> QED BY <1>1, <1>2, <1>3, <1>4, <1>6, <1>7, <1>8, AllocLosesNothing, SendLosesNothing DEF Stage

\* What the guest and the host do leaves nothing in the hands of a stage.
LEMMA GuestLosesNothing ==
  ASSUME IInv, ~Busy, heap' \subseteq heap, Queued \subseteq Queued'
  PROVE  Lost' \subseteq Lost
<1>1. cpu.pc \notin Engines /\ cpu.pc # "osal_send" /\ pending.msg = Null /\ pending.data = Null
  BY DEF Busy, Guest, Engines, IInv, GuestOwns, NoPending
<1>2. AtHand = {Null}
  BY <1>1 DEF AtHand, Returned, Passed
<1> QED BY <1>2, WordsAreNoBlocks, StillKnown

LEMMA ReceiveLosesNothing ==
  ASSUME IInv, NEW t \in Tasks, NEW b \in mail[t], Receive(t, b)
  PROVE  Lost' \subseteq Lost
<1>1. /\ ~Busy /\ heap' = heap \ {b} /\ mail' = [mail EXCEPT ![t] = @ \ {b}]
      /\ UNCHANGED pending
  BY DEF Receive, GoOn, Busy, Guest
<1>2. Queued \ {b} \subseteq Queued'
  BY <1>1 DEF Queued, IInv, Typed
<1>3. cpu.pc \notin Engines /\ cpu.pc # "osal_send" /\ pending.msg = Null /\ pending.data = Null
  BY <1>1 DEF Busy, Guest, Engines, IInv, GuestOwns, NoPending
<1>4. Lost' \subseteq heap' \ Queued' /\ heap \ (Queued \cup {Null}) \subseteq Lost
  <2>1. Lost = heap \ (Queued \cup AtHand) /\ Lost' = heap' \ (Queued' \cup AtHand')
    BY LostIs
  <2>2. AtHand = {Null}
    BY <1>3 DEF AtHand, Returned, Passed
  <2> QED BY <2>1, <2>2
<1>5. Null \notin heap
  BY WordsAreNoBlocks DEF IInv, Typed
<1> QED BY <1>1, <1>2, <1>4, <1>5

\* No step loses a block, except when the second block of a packet is refused
\* and while a layer has not registered yet.
THEOREM BlocksTheorem == Spec => NothingLost
<1>1. IInv /\ [Next]_hciVars =>
        [\/ Lost' \subseteq Lost
         \/ AtTrap("rom", "data_alloc") /\ cpu.r0 = Null
         \/ ~Registered]_hciVars
  <2> SUFFICES ASSUME IInv, Next, ~(AtTrap("rom", "data_alloc") /\ cpu.r0 = Null), Registered
               PROVE  Lost' \subseteq Lost
    OBVIOUS
  <2>1. CASE Commands
    <3>1. ~Busy /\ UNCHANGED <<heap, mail>>
      BY <2>1 DEF Commands, SetRadio, ReadController, EditList, ReadRssi, ControllerCaps,
         SetDataLength, Encrypt, KeyReply, StartEncrypt, LlStatus, HostNumCompleted, Disconnect,
         ProcessEvent, ResetCmd, LlReset, Command, InGuest, Busy, Guest
    <3> QED BY <3>1, GuestLosesNothing DEF Queued
  <2>2. CASE Host
    <3>1. UNCHANGED <<cpu, pending, heap, mail>>
      BY <2>2 DEF Host, HostConnects, HostDisconnects, HostSubscribes, HostWrites, HostSets
    <3> QED BY <3>1 DEF Lost
  <2>3. CASE Stage
    BY <2>3, StageLosesNothing
  <2>4. CASE HciInit \/ (\E layer \in Layers : Register(layer, TaskCount - 1)) \/ Booted \/ RunTask
             \/ GoIdle \/ PollRadio \/ PollCccd \/ PollRx
    <3>1. ~Busy /\ UNCHANGED <<heap, mail>>
      BY <2>4 DEF HciInit, Register, Booted, RunTask, GoIdle, PollRadio, PollCccd, PollRx,
         StageAttWrite, HostIdle, Busy, Guest
    <3> QED BY <3>1, GuestLosesNothing DEF Queued
  <2>5. CASE \E t \in Tasks : \E b \in mail[t] : Receive(t, b)
    BY <2>5, ReceiveLosesNothing
  <2> QED BY <2>1, <2>2, <2>3, <2>4, <2>5 DEF Next
<1> QED BY <1>1, Invariance, PTL DEF Spec, NothingLost
=============================================================================
