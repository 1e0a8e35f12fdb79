-------------------------- MODULE BotCommandsProofs --------------------------
(***************************************************************************)
(* The cached status of the bot never goes back, and is current once       *)
(* OnReady has finished, and the entries of a command are found: for any   *)
(* number of commands, restarts and faults.                                *)
(***************************************************************************)
EXTENDS BotCommands, TLAPS

Active == {"redis", "build", "reply"}

\* What is known of Discord is known from the ready event on, and what the
\* process and Redis hold is no newer than the process knows.
MemoryOK ==
  /\ onReady # "waiting" => discordBotStatus = TRUE
  /\ botInfo # NoStatus => botInfo.run = run
  /\ cached # NoStatus => cached.run <= run
  /\ cached # NoStatus /\ cached.run = run /\ cached.discord = TRUE => discordBotStatus = TRUE
  /\ onReady = "done" /\ cached # NoStatus => cached.run = run /\ cached.discord = TRUE

\* Each sender has one request under way: a command that waits for Redis, and
\* OnReady while it sets its status.
SenderOK(i) ==
  /\ wire[i].by \in Commands => pc[wire[i].by] = "redis"
  /\ wire[i].by = Ready =>
       onReady = "set" /\ wire[i].op = "set" /\ wire[i].status.discord = TRUE
  /\ \A j \in 1 .. Len(wire) : wire[j].by = wire[i].by => i = j

\* A status under way to Redis is of this process, and knows no less than what
\* Redis holds or will hold before it, nor more than the process.
SetOK(i) ==
  wire[i].op = "set" =>
    /\ wire[i].status \in Status
    /\ wire[i].status.run = run
    /\ wire[i].status.discord = TRUE => discordBotStatus = TRUE
    /\ onReady = "done" => wire[i].status.discord = TRUE
    /\ cached # NoStatus /\ cached.run = run /\ cached.discord = TRUE =>
         wire[i].status.discord = TRUE
    /\ \A j \in 1 .. Len(wire) :
         j < i /\ wire[j].op = "set" /\ wire[j].status.discord = TRUE =>
           wire[i].status.discord = TRUE

WireOK == \A i \in 1 .. Len(wire) : SenderOK(i) /\ SetOK(i)

Current(st) == st.run = run /\ st.discord = TRUE

CommandOK(c) ==
  /\ pc[c] = "idle" => status[c] = NoStatus
  /\ informed[c] = TRUE /\ pc[c] \in Active =>
       /\ onReady = "done"
       /\ status[c] # NoStatus => Current(status[c])

IInv == TypeOK /\ MemoryOK /\ WireOK /\ \A c \in Commands : CommandOK(c)

Request == [by : Commands \cup {Ready}, op : {"get", "set"}, status : Status \cup {NoStatus}]

-----------------------------------------------------------------------------
(* Requests and statuses *)

LEMMA Appended ==
  ASSUME NEW r \in Request, wire \in Seq(Request), wire' = Append(wire, r)
  PROVE  /\ wire' \in Seq(Request)
         /\ Len(wire) \in Nat
         /\ Len(wire') = Len(wire) + 1
         /\ \A i \in 1 .. Len(wire) : wire'[i] = wire[i]
         /\ wire'[Len(wire) + 1] = r
OBVIOUS

LEMMA Answered ==
  ASSUME wire \in Seq(Request), wire # <<>>, wire' = Tail(wire)
  PROVE  /\ wire' \in Seq(Request)
         /\ Len(wire) \in Nat \ {0}
         /\ Len(wire') = Len(wire) - 1
         /\ \A i \in 1 .. Len(wire') : i + 1 \in 1 .. Len(wire) /\ wire'[i] = wire[i + 1]
         /\ Head(wire) = wire[1]
         /\ wire[1] \in Request
OBVIOUS

LEMMA BuiltIsCurrent ==
  ASSUME TypeOK
  PROVE  /\ BasicApplicationInfo \in Status
         /\ BasicApplicationInfo.run = run
         /\ BasicApplicationInfo.discord = discordBotStatus
         /\ BasicApplicationInfo # NoStatus
BY CommandsAssumption DEF BasicApplicationInfo, Status, TypeOK

\* Equal statuses are what they tell.
LEMMA StatusFields ==
  ASSUME NEW st \in Status
  PROVE  /\ st # NoStatus
         /\ st.run \in 1 .. MaxRuns
         /\ st.discord \in BOOLEAN
         /\ Current(st) => st = [run |-> run, discord |-> TRUE]
BY CommandsAssumption DEF Status, Current

LEMMA InitIInv == Init => IInv
<1> SUFFICES ASSUME Init PROVE IInv
  OBVIOUS
<1>1. TypeOK
  <2>1. run \in 1 .. MaxRuns /\ faults \in 0 .. MaxFaults
    BY CommandsAssumption DEF Init
  <2>2. wire \in Seq(Request)
    BY DEF Init
  <2>3. /\ pc \in [Commands -> Pcs]
        /\ status \in [Commands -> Status \cup {NoStatus}]
        /\ informed \in [Commands -> BOOLEAN]
    BY DEF Init, Pcs
  <2> QED
    BY <2>1, <2>2, <2>3 DEF Init, TypeOK, Request
<1>2. MemoryOK /\ WireOK
  BY CommandsAssumption DEF Init, MemoryOK, WireOK
<1>3. \A c \in Commands : CommandOK(c)
  BY DEF Init, CommandOK, Active
<1> QED
  BY <1>1, <1>2, <1>3 DEF IInv

\* A request is sent that knows all that the process knows.
LEMMA Sends ==
  ASSUME IInv, NEW r \in Request, wire' = Append(wire, r), UNCHANGED <<run, cached>>,
         r.by # Ready => onReady' = onReady,
         discordBotStatus = TRUE => discordBotStatus' = TRUE,
         r.by \in Commands => pc[r.by] # "redis" /\ pc'[r.by] = "redis",
         \A c \in Commands : pc[c] = "redis" => pc'[c] = "redis",
         r.by = Ready => /\ onReady # "set" /\ onReady' = "set"
                         /\ r.op = "set" /\ r.status.discord = TRUE,
         r.op = "set" => /\ r.status \in Status /\ r.status.run = run
                         /\ discordBotStatus = TRUE => r.status.discord = TRUE
                         /\ r.status.discord = TRUE => discordBotStatus' = TRUE
  PROVE  WireOK' /\ wire' \in Seq(Request)
<1>0. /\ TypeOK /\ MemoryOK /\ wire \in Seq(Request)
      /\ \A i \in 1 .. Len(wire) : SenderOK(i) /\ SetOK(i)
  BY DEF IInv, WireOK, TypeOK, Request
<1>n. PICK n \in Nat : n = Len(wire)
  BY <1>0, Appended
<1>1. /\ wire' \in Seq(Request)
      /\ n \in Nat /\ Len(wire') = n + 1
      /\ \A i \in 1 .. n : wire'[i] = wire[i]
      /\ wire'[n + 1] = r
  BY <1>0, <1>n, Appended
<1>2. \A i \in 1 .. Len(wire') : i \in 1 .. n \/ i = n + 1
  BY <1>1
<1>3. \A i \in 1 .. n : SenderOK(i) /\ SetOK(i)
  BY <1>0, <1>n
<1>r. (r.by \in Commands /\ r.by # Ready) \/ r.by = Ready
  BY CommandsAssumption DEF Request
<1>4. ASSUME NEW i \in 1 .. n PROVE SenderOK(i)'
  BY <1>r, <1>n, <1>1, <1>2, <1>3, <1>4 DEF SenderOK
<1>5. SenderOK(n + 1)'
  BY <1>r, <1>n, <1>1, <1>2, <1>3 DEF SenderOK
<1>6. ASSUME NEW i \in 1 .. n PROVE SetOK(i)'
  BY <1>n, <1>1, <1>2, <1>3, <1>6 DEF SetOK
<1>7. SetOK(n + 1)'
  BY <1>n, <1>0, <1>1, <1>2, <1>3 DEF SetOK, MemoryOK
<1> QED
  BY <1>1, <1>2, <1>4, <1>5, <1>6, <1>7 DEF WireOK

\* The request at the head is answered, executed or not.
LEMMA Answers ==
  ASSUME IInv, wire # <<>>, wire' = Tail(wire), UNCHANGED <<run, discordBotStatus>>,
         \A c \in Commands : c # Head(wire).by => pc'[c] = pc[c],
         cached' = cached \/ (Head(wire).op = "set" /\ cached' = Head(wire).status),
         Head(wire).by # Ready => onReady' = onReady
  PROVE  WireOK' /\ wire' \in Seq(Request)
<1>0. /\ TypeOK /\ MemoryOK /\ wire \in Seq(Request)
      /\ \A i \in 1 .. Len(wire) : SenderOK(i) /\ SetOK(i)
  BY DEF IInv, WireOK, TypeOK, Request
<1>1. /\ wire' \in Seq(Request)
      /\ Len(wire) \in Nat \ {0}
      /\ Len(wire') = Len(wire) - 1
      /\ \A i \in 1 .. Len(wire') : i + 1 \in 1 .. Len(wire) /\ wire'[i] = wire[i + 1]
      /\ Head(wire) = wire[1]
  BY <1>0, Answered
<1>2. SenderOK(1) /\ SetOK(1) /\ 1 \in 1 .. Len(wire)
  BY <1>0, <1>1
<1>3. ASSUME NEW i \in 1 .. Len(wire') PROVE SenderOK(i)' /\ SetOK(i)'
  <2>1. /\ SenderOK(i + 1) /\ SetOK(i + 1)
        /\ i + 1 \in 1 .. Len(wire) /\ 1 # i + 1 /\ 1 < i + 1
        /\ wire'[i] = wire[i + 1]
    BY <1>0, <1>1
  <2>2. ASSUME NEW j \in 1 .. Len(wire')
        PROVE  /\ j + 1 \in 1 .. Len(wire) /\ wire'[j] = wire[j + 1]
               /\ i + 1 = j + 1 => i = j
               /\ j < i => j + 1 < i + 1
    BY <1>1
  <2>3. SenderOK(i)'
    BY <1>1, <1>2, <2>1, <2>2 DEF SenderOK
  <2>4. wire[1].op = "set" /\ wire[1].status.discord = TRUE /\ wire[i + 1].op = "set" =>
          wire[i + 1].status.discord = TRUE
    BY <1>2, <2>1 DEF SetOK
  <2>5. SetOK(i)'
    BY <1>1, <1>2, <2>1, <2>2, <2>4 DEF SetOK, SenderOK
  <2> QED
    BY <2>3, <2>5
<1> QED
  BY <1>1, <1>3 DEF WireOK

\* No request is sent or answered.
LEMMA Rests ==
  ASSUME WireOK, UNCHANGED <<run, wire>>, cached' = cached \/ cached' = NoStatus,
         onReady' = "done" => onReady = "done",
         onReady = "set" => onReady' = "set",
         discordBotStatus = TRUE => discordBotStatus' = TRUE,
         \A c \in Commands : pc[c] = "redis" => pc'[c] = "redis"
  PROVE  WireOK'
<1>1. ASSUME NEW i \in 1 .. Len(wire) PROVE SenderOK(i)' /\ SetOK(i)'
  BY DEF WireOK, SenderOK, SetOK
<1> QED
  BY <1>1 DEF WireOK

-----------------------------------------------------------------------------
(* Every step keeps the invariant *)

LEMMA InterceptKeeps ==
  ASSUME IInv, NEW c \in Commands, Intercept(c), NEW label \in {"reply", "redis"},
         Goto(c, label), wire' \in Seq(Request), WireOK'
  PROVE  IInv'
<1>0. TypeOK /\ MemoryOK /\ \A d \in Commands : CommandOK(d)
  BY DEF IInv
<1>1. /\ UNCHANGED <<run, discordBotStatus, botInfo, onReady, cached, status, faults>>
      /\ pc[c] = "idle"
      /\ pc' = [pc EXCEPT ![c] = label]
      /\ informed' = [informed EXCEPT ![c] = (onReady = "done")]
  BY DEF Intercept, Goto, memory
<1>2. pc' \in [Commands -> Pcs] /\ informed' \in [Commands -> BOOLEAN]
  BY <1>0, <1>1 DEF TypeOK, Pcs
<1>3. TypeOK'
  BY <1>0, <1>1, <1>2 DEF TypeOK, Request
<1>4. MemoryOK'
  BY <1>0, <1>1 DEF MemoryOK
<1>5. ASSUME NEW d \in Commands PROVE CommandOK(d)'
  BY <1>0, <1>1 DEF TypeOK, CommandOK, Current, Active
<1> QED
  BY <1>3, <1>4, <1>5 DEF IInv

\* A use of a command ends: nothing is asked of it any more.
LEMMA EndKeeps ==
  ASSUME IInv, NEW c \in Commands, NEW label \in {"answered", "failed"}, Goto(c, label),
         UNCHANGED <<status, informed>>, wire' \in Seq(Request), WireOK',
         UNCHANGED <<run, discordBotStatus, botInfo>>,
         cached' \in Status \cup {NoStatus}, faults' \in 0 .. MaxFaults,
         UNCHANGED onReady, MemoryOK'
  PROVE  IInv'
<1>0. TypeOK /\ \A d \in Commands : CommandOK(d)
  BY DEF IInv
<1>1. pc' = [pc EXCEPT ![c] = label] /\ pc' \in [Commands -> Pcs]
  BY <1>0 DEF Goto, TypeOK, Pcs
<1>2. TypeOK'
  BY <1>0, <1>1 DEF TypeOK, Request
<1>3. ASSUME NEW d \in Commands PROVE CommandOK(d)'
  BY <1>0, <1>1 DEF TypeOK, CommandOK, Current, Active
<1> QED
  BY <1>2, <1>3 DEF IInv

LEMMA BuildKeeps == ASSUME IInv, NEW c \in Commands, Build(c) PROVE IInv'
<1> DEFINE r == [by |-> c, op |-> "set", status |-> BasicApplicationInfo]
<1>0. TypeOK /\ MemoryOK /\ \A d \in Commands : CommandOK(d)
  BY DEF IInv
<1>1. /\ UNCHANGED <<run, discordBotStatus, onReady, cached, informed, faults>>
      /\ pc[c] = "build" /\ pc' = [pc EXCEPT ![c] = "redis"]
      /\ botInfo' = BasicApplicationInfo
      /\ status' = [status EXCEPT ![c] = BasicApplicationInfo]
      /\ wire' = Append(wire, r)
  BY DEF Build, Goto, Send
<1>2. /\ BasicApplicationInfo \in Status
      /\ BasicApplicationInfo.run = run
      /\ BasicApplicationInfo.discord = discordBotStatus
  BY <1>0, BuiltIsCurrent
<1>3. r \in Request /\ r.by = c /\ r.op = "set" /\ r.status = BasicApplicationInfo
  BY <1>2 DEF Request
<1> HIDE DEF r
<1>4. WireOK' /\ wire' \in Seq(Request)
  BY <1>0, <1>1, <1>2, <1>3, Sends, CommandsAssumption DEF TypeOK
<1>5. TypeOK'
  <2>1. pc' \in [Commands -> Pcs] /\ status' \in [Commands -> Status \cup {NoStatus}]
    BY <1>0, <1>1, <1>2 DEF TypeOK, Pcs
  <2> QED
    BY <1>0, <1>1, <1>2, <1>4, <2>1 DEF TypeOK, Request
<1>6. MemoryOK'
  BY <1>0, <1>1, <1>2 DEF MemoryOK
<1>7. ASSUME NEW d \in Commands PROVE CommandOK(d)'
  <2>1. CASE d # c
    BY <1>0, <1>1, <2>1 DEF TypeOK, CommandOK, Current, Active
  <2>2. CASE d = c
    <3>1. onReady = "done" => discordBotStatus = TRUE
      BY <1>0 DEF MemoryOK
    <3>2. status'[c] = BasicApplicationInfo /\ pc'[c] = "redis"
      BY <1>0, <1>1 DEF TypeOK
    <3> QED
      BY <1>0, <1>1, <1>2, <2>2, <3>1, <3>2 DEF CommandOK, Current, Active
  <2> QED
    BY <2>1, <2>2
<1> QED
  BY <1>4, <1>5, <1>6, <1>7 DEF IInv

LEMMA ClientReadyKeeps == ASSUME IInv, ClientReady PROVE IInv'
<1>0. TypeOK /\ MemoryOK /\ WireOK /\ \A d \in Commands : CommandOK(d)
  BY DEF IInv
<1>1. /\ UNCHANGED <<run, cached, pc, status, informed, faults>>
      /\ onReady = "waiting" /\ discordBotStatus' = TRUE
      /\ onReady' \in {"build", "set"}
  BY DEF ClientReady, uses
<1>2. /\ botInfo' = NoStatus \/ (botInfo' \in Status /\ botInfo'.run = run)
      /\ WireOK' /\ wire' \in Seq(Request)
  <2>1. CASE botInfo = NoStatus
    <3>1. UNCHANGED <<botInfo, wire>>
      BY <2>1 DEF ClientReady
    <3>2. WireOK'
      BY <1>0, <1>1, <3>1, Rests
    <3> QED
      BY <1>0, <2>1, <3>1, <3>2 DEF TypeOK, Request
  <2>2. CASE botInfo # NoStatus
    <3>1. botInfo' = [botInfo EXCEPT !.discord = TRUE]
          /\ wire' = Append(wire, [by |-> Ready, op |-> "set", status |-> botInfo'])
      BY <2>2 DEF ClientReady, Send
    <3>2. botInfo \in Status /\ botInfo.run = run
      BY <1>0, <2>2 DEF TypeOK, MemoryOK
    <3>3. botInfo' \in Status /\ botInfo'.run = run /\ botInfo'.discord = TRUE
      BY <3>1, <3>2 DEF Status
    <3>4. PICK st \in Status : st = botInfo'
      BY <3>3
    <3> DEFINE r == [by |-> Ready, op |-> "set", status |-> st]
    <3>5. r \in Request /\ r.by = Ready /\ r.op = "set" /\ r.status = st
      BY DEF Request
    <3>6. wire' = Append(wire, r) /\ st.run = run /\ st.discord = TRUE
      BY <3>1, <3>3, <3>4
    <3> HIDE DEF r
    <3>7. WireOK' /\ wire' \in Seq(Request)
      <4>1. onReady # "set" /\ onReady' = "set"
        BY <1>1, <2>2 DEF ClientReady
      <4> QED
        BY <1>1, <4>1, <3>5, <3>6, Sends, CommandsAssumption
    <3> QED
      BY <3>3, <3>7
  <2> QED
    BY <2>1, <2>2
<1>3. TypeOK'
  BY <1>0, <1>1, <1>2 DEF TypeOK, Request
<1>4. MemoryOK'
  BY <1>0, <1>1, <1>2 DEF MemoryOK
<1>5. ASSUME NEW d \in Commands PROVE CommandOK(d)'
  BY <1>0, <1>1 DEF CommandOK, Current
<1> QED
  BY <1>2, <1>3, <1>4, <1>5 DEF IInv

LEMMA ReadyBuildsKeeps == ASSUME IInv, ReadyBuilds PROVE IInv'
<1> DEFINE r == [by |-> Ready, op |-> "set", status |-> BasicApplicationInfo]
<1>0. TypeOK /\ MemoryOK /\ WireOK /\ \A d \in Commands : CommandOK(d)
  BY DEF IInv
<1>1. /\ UNCHANGED <<run, discordBotStatus, cached, pc, status, informed, faults>>
      /\ onReady = "build" /\ onReady' = "set"
      /\ botInfo' = BasicApplicationInfo
      /\ wire' = Append(wire, r)
  BY DEF ReadyBuilds, uses, Send
<1>2. /\ BasicApplicationInfo \in Status
      /\ BasicApplicationInfo.run = run
      /\ BasicApplicationInfo.discord = TRUE
      /\ discordBotStatus = TRUE
  BY <1>0, <1>1, BuiltIsCurrent DEF MemoryOK
<1>3. r \in Request /\ r.by = Ready /\ r.op = "set" /\ r.status = BasicApplicationInfo
  BY <1>2 DEF Request
<1> HIDE DEF r
<1>4. WireOK' /\ wire' \in Seq(Request)
  BY <1>1, <1>2, <1>3, Sends, CommandsAssumption
<1>5. TypeOK'
  BY <1>0, <1>1, <1>2, <1>4 DEF TypeOK, Request
<1>6. MemoryOK'
  BY <1>0, <1>1, <1>2 DEF MemoryOK
<1>7. ASSUME NEW d \in Commands PROVE CommandOK(d)'
  BY <1>0, <1>1 DEF CommandOK, Current
<1> QED
  BY <1>4, <1>5, <1>6, <1>7 DEF IInv

\* What the head of the wire tells of its sender, which is no other's.
LEMMA HeadOK ==
  ASSUME IInv, wire # <<>>
  PROVE  /\ Head(wire) \in Request
         /\ Head(wire).by \in Commands => pc[Head(wire).by] = "redis"
         /\ Head(wire).by = Ready => /\ onReady = "set"
                                     /\ Head(wire).op = "set"
                                     /\ Head(wire).status.discord = TRUE
         /\ Head(wire).op = "set" =>
              /\ Head(wire).status \in Status
              /\ Head(wire).status.run = run
              /\ Head(wire).status.discord = TRUE => discordBotStatus = TRUE
              /\ onReady = "done" => Head(wire).status.discord = TRUE
              /\ cached # NoStatus /\ cached.run = run /\ cached.discord = TRUE =>
                   Head(wire).status.discord = TRUE
<1>1. wire \in Seq(Request)
  BY DEF IInv, TypeOK, Request
<1>2. Head(wire) = wire[1] /\ wire[1] \in Request /\ 1 \in 1 .. Len(wire)
  BY <1>1
<1>3. SenderOK(1) /\ SetOK(1)
  BY <1>2 DEF IInv, WireOK
<1> QED
  BY <1>2, <1>3 DEF SenderOK, SetOK

LEMMA AnswerGetKeeps == ASSUME IInv, NEW c \in Commands, AnswerGet(c) PROVE IInv'
<1>0. TypeOK /\ MemoryOK /\ \A d \in Commands : CommandOK(d)
  BY DEF IInv
<1>1. /\ UNCHANGED <<run, discordBotStatus, botInfo, onReady, cached, informed, faults>>
      /\ wire # <<>> /\ wire' = Tail(wire) /\ Head(wire).by = c
      /\ status' = [status EXCEPT ![c] = cached]
      /\ \E label \in {"build", "reply"} : pc' = [pc EXCEPT ![c] = label]
  BY DEF AnswerGet, memory, Goto
<1>2. pc[c] = "redis"
  BY <1>1, HeadOK
<1>3. /\ pc' \in [Commands -> Pcs]
      /\ status' \in [Commands -> Status \cup {NoStatus}]
      /\ \A d \in Commands \ {c} : pc'[d] = pc[d] /\ status'[d] = status[d]
      /\ pc'[c] \in {"build", "reply"} /\ status'[c] = cached
  BY <1>0, <1>1 DEF TypeOK, Pcs
<1>4. WireOK' /\ wire' \in Seq(Request)
  BY <1>1, <1>3, Answers, CommandsAssumption
<1>5. TypeOK'
  BY <1>0, <1>1, <1>3, <1>4 DEF TypeOK, Request
<1>6. MemoryOK'
  BY <1>0, <1>1 DEF MemoryOK
<1>7. ASSUME NEW d \in Commands PROVE CommandOK(d)'
  <2>1. CASE d # c
    BY <1>0, <1>1, <1>3, <2>1 DEF CommandOK, Current
  <2>2. CASE d = c
    BY <1>0, <1>1, <1>2, <1>3, <2>2 DEF CommandOK, MemoryOK, Current, Active
  <2> QED
    BY <2>1, <2>2
<1> QED
  BY <1>4, <1>5, <1>6, <1>7 DEF IInv

LEMMA AnswerSetKeeps == ASSUME IInv, AnswerSet PROVE IInv'
<1>0. TypeOK /\ MemoryOK /\ \A d \in Commands : CommandOK(d)
  BY DEF IInv
<1>1. /\ UNCHANGED <<run, discordBotStatus, botInfo, status, informed, faults>>
      /\ wire # <<>> /\ wire' = Tail(wire)
      /\ Head(wire).op = "set" /\ cached' = Head(wire).status
  BY DEF AnswerSet
<1>2. /\ \/ Head(wire).by = Ready /\ onReady' = "done" /\ pc' = pc
         \/ /\ Head(wire).by \in Commands /\ onReady' = onReady
            /\ pc' = [pc EXCEPT ![Head(wire).by] = "reply"]
      /\ Head(wire).by \in Commands \/ Head(wire).by = Ready
  <2>1. Head(wire).by \in Commands \cup {Ready}
    BY <1>1, HeadOK DEF Request
  <2> QED
    BY <2>1 DEF AnswerSet, Goto
<1>3. WireOK' /\ wire' \in Seq(Request)
  <2>1. \A c \in Commands : c # Head(wire).by => pc'[c] = pc[c]
    BY <1>0, <1>2 DEF TypeOK
  <2>2. Head(wire).by # Ready => onReady' = onReady
    BY <1>2
  <2> QED
    BY <1>1, <2>1, <2>2, Answers
<1>4. TypeOK'
  <2>1. pc' \in [Commands -> Pcs] /\ cached' \in Status
    BY <1>0, <1>1, <1>2, HeadOK DEF TypeOK, Pcs
  <2> QED
    BY <1>0, <1>1, <1>2, <1>3, <2>1 DEF TypeOK, Request
<1>5. MemoryOK'
  <2>1. /\ cached' \in Status /\ cached'.run = run
        /\ cached'.discord = TRUE => discordBotStatus = TRUE
        /\ onReady' = "done" => cached'.discord = TRUE
    BY <1>1, <1>2, HeadOK
  <2>2. onReady' # "waiting" => discordBotStatus = TRUE
    BY <1>0, <1>2, HeadOK, <1>1 DEF MemoryOK
  <2>3. cached'.run <= run
    BY <1>0, <2>1 DEF TypeOK
  <2> QED
    BY <1>0, <1>1, <2>1, <2>2, <2>3 DEF MemoryOK
<1>6. ASSUME NEW d \in Commands PROVE CommandOK(d)'
  <2>1. CASE Head(wire).by = Ready
    BY <1>0, <1>1, <1>2, <2>1, CommandsAssumption DEF CommandOK, Current
  <2>2. CASE Head(wire).by \in Commands /\ d # Head(wire).by
    <3>1. pc'[d] = pc[d] /\ onReady' = onReady
      BY <1>0, <1>2, <2>2, CommandsAssumption DEF TypeOK
    <3> QED
      BY <1>0, <1>1, <3>1 DEF CommandOK, Current
  <2>3. CASE Head(wire).by \in Commands /\ d = Head(wire).by
    <3>1. pc[d] = "redis" /\ pc'[d] = "reply" /\ onReady' = onReady
      BY <1>0, <1>1, <1>2, <2>3, HeadOK, CommandsAssumption DEF TypeOK
    <3> QED
      BY <1>0, <1>1, <3>1 DEF CommandOK, Current, Active
  <2> QED
    BY <1>2, <2>1, <2>2, <2>3
<1> QED
  BY <1>3, <1>4, <1>5, <1>6 DEF IInv

LEMMA FaultCounts == ASSUME TypeOK, Fault PROVE faults' \in 0 .. MaxFaults
BY CommandsAssumption DEF TypeOK, Fault

LEMMA RedisFailsKeeps == ASSUME IInv, RedisFails PROVE IInv'
<1>0. TypeOK /\ MemoryOK /\ \A d \in Commands : CommandOK(d)
  BY DEF IInv
<1>1. /\ UNCHANGED <<run, discordBotStatus, botInfo>>
      /\ wire # <<>> /\ wire' = Tail(wire)
      /\ cached' = cached \/ (Head(wire).op = "set" /\ cached' = Head(wire).status)
      /\ faults' \in 0 .. MaxFaults
  BY <1>0, FaultCounts DEF RedisFails
<1>2. Head(wire).by \in Commands \/ Head(wire).by = Ready
  BY <1>1, HeadOK DEF Request
<1>3. cached' \in Status \cup {NoStatus}
  BY <1>0, <1>1, HeadOK DEF TypeOK
<1>4. ASSUME onReady' # "waiting" => discordBotStatus = TRUE,
             onReady' = "done" => onReady = "done"
      PROVE  MemoryOK'
  <2>1. CASE cached' = cached
    BY <1>0, <1>1, <1>4, <2>1 DEF MemoryOK
  <2>2. CASE Head(wire).op = "set" /\ cached' = Head(wire).status
    <3>1. /\ cached' \in Status /\ cached'.run = run
          /\ cached'.discord = TRUE => discordBotStatus = TRUE
          /\ onReady = "done" => cached'.discord = TRUE
      BY <1>1, <2>2, HeadOK
    <3>2. cached'.run <= run
      BY <1>0, <3>1 DEF TypeOK
    <3> QED
      BY <1>0, <1>1, <1>4, <3>1, <3>2 DEF MemoryOK
  <2> QED
    BY <1>1, <2>1, <2>2
<1>5. CASE Head(wire).by = Ready
  <2>1. /\ onReady' = "failed" /\ UNCHANGED <<pc, status, informed>>
        /\ onReady = "set"
    BY <1>1, <1>5, HeadOK DEF RedisFails, uses
  <2>2. WireOK' /\ wire' \in Seq(Request)
    BY <1>1, <1>5, <2>1, Answers
  <2>3. TypeOK'
    BY <1>0, <1>1, <1>3, <2>1, <2>2 DEF TypeOK, Request
  <2>4. MemoryOK'
    BY <1>0, <1>4, <2>1 DEF MemoryOK
  <2>5. ASSUME NEW d \in Commands PROVE CommandOK(d)'
    BY <1>0, <1>1, <2>1 DEF CommandOK
  <2> QED
    BY <2>2, <2>3, <2>4, <2>5 DEF IInv
<1>6. CASE Head(wire).by \in Commands
  <2>1. PICK c \in Commands : c = Head(wire).by
    BY <1>6
  <2>2. /\ Goto(c, "failed") /\ pc' = [pc EXCEPT ![c] = "failed"]
        /\ UNCHANGED <<onReady, status, informed>>
    BY <2>1, CommandsAssumption DEF RedisFails, Fails, Goto
  <2>3. WireOK' /\ wire' \in Seq(Request)
    <3>1. \A d \in Commands : d # Head(wire).by => pc'[d] = pc[d]
      BY <1>0, <2>1, <2>2 DEF TypeOK
    <3> QED
      BY <1>1, <2>2, <3>1, Answers
  <2>4. MemoryOK'
    BY <1>0, <1>4, <2>2 DEF MemoryOK
  <2> QED
    BY <1>1, <1>3, <2>2, <2>3, <2>4, EndKeeps
<1> QED
  BY <1>2, <1>5, <1>6

LEMMA RestartKeeps == ASSUME IInv, Restart PROVE IInv'
<1>0. TypeOK /\ MemoryOK /\ \A d \in Commands : CommandOK(d)
  BY DEF IInv
<1>1. /\ UNCHANGED <<cached, status, informed, faults>>
      /\ run < MaxRuns /\ run' = run + 1 /\ discordBotStatus' = FALSE
      /\ botInfo' = NoStatus /\ onReady' = "waiting" /\ wire' = <<>>
      /\ pc' = [c \in Commands |-> IF pc[c] \in Active THEN "lost" ELSE pc[c]]
  BY DEF Restart, Active
<1>2. run' \in 1 .. MaxRuns /\ run \in 1 .. MaxRuns
  BY <1>0, <1>1, CommandsAssumption DEF TypeOK
<1>3. wire' \in Seq(Request) /\ WireOK'
  BY <1>1 DEF WireOK
<1>4. pc' \in [Commands -> Pcs]
  BY <1>0, <1>1 DEF TypeOK, Pcs
<1>5. TypeOK'
  BY <1>0, <1>1, <1>2, <1>3, <1>4 DEF TypeOK, Request
<1>6. MemoryOK'
  <2>1. cached # NoStatus => cached.run <= run /\ cached.run \in Int
    BY <1>0 DEF TypeOK, MemoryOK, Status
  <2> QED
    BY <1>1, <1>2, <2>1 DEF MemoryOK
<1>7. ASSUME NEW d \in Commands PROVE CommandOK(d)'
  <2>1. pc'[d] \notin Active /\ (pc'[d] = "idle" => pc[d] = "idle")
    BY <1>1 DEF Active
  <2> QED
    BY <1>0, <1>1, <2>1 DEF CommandOK
<1> QED
  BY <1>3, <1>5, <1>6, <1>7 DEF IInv

LEMMA NextIInv == IInv /\ [Next]_vars => IInv'
<1> SUFFICES ASSUME IInv, [Next]_vars PROVE IInv'
  OBVIOUS
<1>0. /\ TypeOK /\ MemoryOK /\ WireOK /\ wire \in Seq(Request)
      /\ \A d \in Commands : CommandOK(d)
  BY DEF IInv, TypeOK, Request
<1>1. CASE UNCHANGED vars
  <2>1. UNCHANGED <<run, discordBotStatus, botInfo, onReady, cached, wire, pc, status,
                    informed, faults>>
    BY <1>1 DEF vars, memory, redis, uses
  <2>2. WireOK'
    BY <1>0, <2>1, Rests
  <2>3. TypeOK' /\ MemoryOK'
    BY <1>0, <2>1 DEF TypeOK, MemoryOK
  <2>4. \A d \in Commands : CommandOK(d)'
    BY <1>0, <2>1 DEF CommandOK, Current
  <2> QED
    BY <2>2, <2>3, <2>4 DEF IInv
<1>2. ASSUME NEW c \in Commands, StartPing(c) PROVE IInv'
  <2>1. /\ Intercept(c) /\ Goto(c, "reply") /\ pc[c] = "idle"
        /\ UNCHANGED <<run, discordBotStatus, onReady, cached, wire>>
    BY <1>2 DEF StartPing, Intercept, memory
  <2>2. WireOK' /\ wire' \in Seq(Request)
    <3>1. \A d \in Commands : pc[d] = "redis" => pc'[d] = "redis"
      BY <1>0, <2>1 DEF Goto, TypeOK
    <3> QED
      BY <1>0, <2>1, <3>1, Rests
  <2> QED
    BY <2>1, <2>2, InterceptKeeps
<1>3. ASSUME NEW c \in Commands, StartBotStatus(c) PROVE IInv'
  <2> DEFINE r == [by |-> c, op |-> "get", status |-> NoStatus]
  <2>1. /\ Intercept(c) /\ Goto(c, "redis") /\ pc[c] = "idle"
        /\ UNCHANGED <<run, discordBotStatus, onReady, cached>>
        /\ wire' = Append(wire, r)
    BY <1>3 DEF StartBotStatus, Intercept, memory, Send
  <2>2. r \in Request /\ r.by = c /\ r.op = "get"
    BY DEF Request
  <2>3. /\ pc[c] # "redis" /\ pc'[c] = "redis"
        /\ \A d \in Commands : pc[d] = "redis" => pc'[d] = "redis"
    BY <1>0, <2>1 DEF Goto, TypeOK
  <2> HIDE DEF r
  <2>4. WireOK' /\ wire' \in Seq(Request)
    BY <2>1, <2>2, <2>3, Sends, CommandsAssumption
  <2> QED
    BY <2>1, <2>4, InterceptKeeps
<1>4. ASSUME NEW c \in Commands, Reply(c) \/ ReplyFails(c) PROVE IInv'
  <2>1. PICK label \in {"answered", "failed"} : Goto(c, label)
    BY <1>4 DEF Reply, ReplyFails, Fails
  <2>2. /\ UNCHANGED <<run, discordBotStatus, botInfo, onReady, cached, wire, status, informed>>
        /\ pc[c] = "reply" /\ faults' \in 0 .. MaxFaults
    BY <1>0, <1>4, FaultCounts DEF Reply, ReplyFails, memory, redis, TypeOK
  <2>3. WireOK'
    <3>1. \A d \in Commands : pc[d] = "redis" => pc'[d] = "redis"
      BY <1>0, <2>1, <2>2 DEF Goto, TypeOK
    <3> QED
      BY <1>0, <2>2, <3>1, Rests
  <2>4. MemoryOK'
    BY <1>0, <2>2 DEF MemoryOK
  <2>5. cached' \in Status \cup {NoStatus}
    BY <1>0, <2>2 DEF TypeOK
  <2> QED
    BY <1>0, <2>1, <2>2, <2>3, <2>4, <2>5, EndKeeps
<1>5. ASSUME Expire PROVE IInv'
  <2>1. /\ UNCHANGED <<run, discordBotStatus, botInfo, onReady, wire, pc, status, informed, faults>>
        /\ cached' = NoStatus
    BY <1>5 DEF Expire, memory, uses
  <2>2. WireOK'
    BY <1>0, <2>1, Rests
  <2>3. TypeOK' /\ MemoryOK'
    BY <1>0, <2>1 DEF TypeOK, MemoryOK
  <2>4. \A d \in Commands : CommandOK(d)'
    BY <1>0, <2>1 DEF CommandOK, Current
  <2> QED
    BY <2>2, <2>3, <2>4 DEF IInv
<1>6. CASE Next
  BY <1>2, <1>3, <1>4, <1>5, <1>6, BuildKeeps, ClientReadyKeeps, ReadyBuildsKeeps,
     AnswerGetKeeps, AnswerSetKeeps, RedisFailsKeeps, RestartKeeps DEF Next
<1> QED
  BY <1>1, <1>6

LEMMA Invariance == Spec => []IInv
BY InitIInv, NextIInv, PTL DEF Spec

-----------------------------------------------------------------------------
(* Theorems *)

\* The memory of the process, the cache and every use of a command are of
\* their types.
THEOREM CommandsTypeCorrect == Spec => []TypeOK
BY Invariance, PTL DEF IInv

\* Whoever asks when OnReady has finished is shown the status of this process
\* with the part on Discord, however many commands, restarts and faults.
THEOREM AnswersStayCurrent == Spec => []AnswersAreCurrent
<1>1. IInv => AnswersAreCurrent
  <2> SUFFICES ASSUME IInv, NEW c \in Commands, pc[c] = "reply", informed[c],
                      status[c] # NoStatus
               PROVE  status[c] = [run |-> run, discord |-> TRUE]
    BY DEF AnswersAreCurrent
  <2>1. Current(status[c])
    BY DEF IInv, CommandOK, Active, TypeOK
  <2>2. status[c] \in Status
    BY DEF IInv, TypeOK
  <2> QED
    BY <2>1, <2>2, StatusFields
<1> QED
  BY <1>1, Invariance, PTL

LEMMA StepKeepsStatus ==
  ASSUME IInv, [Next]_vars, cached # NoStatus, cached' # NoStatus
  PROVE  \/ cached'.run > cached.run
         \/ cached'.run = cached.run /\ (cached.discord => cached'.discord)
<1>1. CASE cached' = cached
  BY <1>1
<1>2. CASE wire # <<>> /\ Head(wire).op = "set" /\ cached' = Head(wire).status
  <2>1. /\ cached' \in Status /\ cached'.run = run
        /\ cached.run = run /\ cached.discord = TRUE => cached'.discord = TRUE
    BY <1>2, HeadOK
  <2>2. cached.run <= run /\ cached.run \in Int /\ run \in Int /\ cached.discord \in BOOLEAN
    BY DEF IInv, TypeOK, MemoryOK, Status
  <2>3. CASE cached.run = run
    BY <2>1, <2>2, <2>3
  <2>4. CASE cached.run # run
    BY <2>1, <2>2, <2>4
  <2> QED
    BY <2>3, <2>4
<1>3. cached' = cached \/ (wire # <<>> /\ Head(wire).op = "set" /\ cached' = Head(wire).status)
  BY DEF Next, StartPing, StartBotStatus, Intercept, AnswerGet, Build, Reply, ReplyFails,
         ClientReady, ReadyBuilds, AnswerSet, RedisFails, Expire, Restart, vars, redis
<1> QED
  BY <1>1, <1>2, <1>3

\* The cached status never goes back, whatever the order in which commands and
\* OnReady reach Redis, and over any number of processes.
THEOREM StatusStaysForward == Spec => StatusNeverGoesBack
<1>1. IInv /\ [Next]_vars =>
        [cached # NoStatus /\ cached' # NoStatus =>
           \/ cached'.run > cached.run
           \/ cached'.run = cached.run /\ (cached.discord => cached'.discord)]_vars
  BY StepKeepsStatus
<1> QED
  BY <1>1, Invariance, PTL DEF Spec, StatusNeverGoesBack
-----------------------------------------------------------------------------
(* The entries of the interceptor *)

Elapsed == [durationMs |-> "ms"]
StartEntry(c) == Log(Payload(c))
EndEntry(c) == Log(With(Elapsed, Payload(c)))
ErrorEntry(c) == Error(With(Elapsed, Payload(c)))

\* What a use of a command has published, by where it stands.
Entries(c) ==
  CASE pc[c] = "idle"     -> <<>>
    [] pc[c] = "answered" -> <<StartEntry(c), EndEntry(c)>>
    [] pc[c] = "failed"   -> <<StartEntry(c), ErrorEntry(c)>>
    [] OTHER              -> <<StartEntry(c)>>

PublishedInv ==
  /\ DOMAIN published = Commands
  /\ \A c \in Commands : published[c] = Entries(c)

\* Fields given over metadata are there, and so are the others.
LEMMA WithFields ==
  ASSUME NEW fields, NEW metadata, NEW f
  PROVE  /\ f \in DOMAIN With(fields, metadata) <=> f \in DOMAIN fields \/ f \in DOMAIN metadata
         /\ f \in DOMAIN fields => With(fields, metadata)[f] = fields[f]
         /\ f \in DOMAIN metadata /\ f \notin DOMAIN fields =>
              With(fields, metadata)[f] = metadata[f]
BY DEF With

\* The entry that reaches the log keeps every field of the metadata but the
\* kind.
LEMMA EntryFields ==
  ASSUME NEW level, NEW metadata, NEW f, f # "kind", NEW value
  PROVE  HasField(Entry(level, metadata), f, value) <=>
           f \in DOMAIN metadata /\ metadata[f] = value
<1>1. Entry(level, metadata).metadata = Restrict(metadata, DOMAIN metadata \ {"kind"})
  BY DEF Entry
<1> QED
  BY <1>1 DEF HasField, Restrict

\* Metadata from the interceptor: with the guild and the user of the command,
\* and an error or none.
Tells(metadata, c, failed) ==
  /\ "guildId" \in DOMAIN metadata /\ metadata["guildId"] = GuildOf[c]
  /\ "actorUserId" \in DOMAIN metadata /\ metadata["actorUserId"] = ActorOf[c]
  /\ IF failed THEN "error" \in DOMAIN metadata /\ metadata["error"] = "error"
               ELSE "error" \notin DOMAIN metadata

LEMMA InterceptorTells ==
  ASSUME NEW c
  PROVE  /\ Tells(Payload(c), c, FALSE)
         /\ Tells(With(Elapsed, Payload(c)), c, FALSE)
         /\ Tells(ResolveErrorParams(With(Elapsed, Payload(c))), c, TRUE)
<1> DEFINE p == Payload(c)
<1> DEFINE e == [error |-> "error"]
<1>1. /\ DOMAIN p = {"guildId", "actorUserId", "entityType"}
      /\ p["guildId"] = GuildOf[c] /\ p["actorUserId"] = ActorOf[c]
  BY DEF Payload, CreateAuditEventPayload
<1>2. DOMAIN Elapsed = {"durationMs"}
  BY DEF Elapsed
<1>3. DOMAIN e = {"error"} /\ e["error"] = "error"
  OBVIOUS
<1> HIDE DEF p, e
<1>4. Tells(p, c, FALSE)
  BY <1>1 DEF Tells
<1>5. Tells(With(Elapsed, p), c, FALSE)
  BY <1>1, <1>2, WithFields DEF Tells
<1>6. Tells(With(e, With(Elapsed, p)), c, TRUE)
  <2>1. /\ "guildId" \in DOMAIN With(Elapsed, p)
        /\ With(Elapsed, p)["guildId"] = GuildOf[c]
        /\ "actorUserId" \in DOMAIN With(Elapsed, p)
        /\ With(Elapsed, p)["actorUserId"] = ActorOf[c]
    BY <1>5 DEF Tells
  <2> QED
    BY <1>3, <2>1, WithFields DEF Tells
<1> QED
  BY <1>4, <1>5, <1>6 DEF p, e, ResolveErrorParams

LEMMA TwoEntries == ASSUME NEW a, NEW b PROVE Append(<<a>>, b) = <<a, b>>
<1> DEFINE S == {a, b}
<1> DEFINE p == Append(<<a>>, b)
<1>1. <<a>> \in Seq(S) /\ Len(<<a>>) = 1 /\ <<a>>[1] = a /\ b \in S
  OBVIOUS
<1>2. p \in Seq(S) /\ Len(p) = 2 /\ p[1] = a /\ p[2] = b
  BY <1>1
<1> DEFINE q == <<a, b>>
<1> HIDE DEF p
<1>3. DOMAIN p = 1 .. 2 /\ p = [i \in DOMAIN p |-> p[i]]
  BY <1>2
<1>4. DOMAIN q = 1 .. 2 /\ q = [i \in DOMAIN q |-> q[i]] /\ q[1] = a /\ q[2] = b
  OBVIOUS
<1> HIDE DEF q
<1>5. \A i \in 1 .. 2 : p[i] = q[i]
  BY <1>2, <1>4
<1>6. p = q
  BY <1>3, <1>4, <1>5
<1> QED
  BY <1>6 DEF p, q

\* What a search finds of an entry of the interceptor.
LEMMA TellsIsFound ==
  ASSUME NEW level, NEW metadata, NEW c, NEW failed \in BOOLEAN, Tells(metadata, c, failed)
  PROVE  LET entry == Entry(level, metadata)
         IN  /\ \A g : Finds("guild-id", g, entry) <=> g = GuildOf[c]
             /\ \A a : Finds("actor-id", a, entry) <=> a = ActorOf[c]
             /\ HasField(entry, "error", "error") <=> failed
<1> DEFINE entry == Entry(level, metadata)
<1>1. \A v : HasField(entry, "guildId", v) <=> v = GuildOf[c]
  BY EntryFields DEF Tells
<1>2. \A v : HasField(entry, "actorUserId", v) <=> v = ActorOf[c]
  BY EntryFields DEF Tells
<1>3. HasField(entry, "error", "error") <=> failed
  BY EntryFields DEF Tells
<1> HIDE DEF entry
<1>4. \A g : Finds("guild-id", g, entry) <=> HasField(entry, "guildId", g)
  BY DEF Finds
<1>5. \A a : Finds("actor-id", a, entry) <=> HasField(entry, "actorUserId", a)
  BY DEF Finds
<1> QED
  BY <1>1, <1>2, <1>3, <1>4, <1>5 DEF entry

\* A step of one use of a command, on the way ...
LEMMA PublishedMoves ==
  ASSUME TypeOK, PublishedInv, NEW c \in Commands, NEW label \in Active, Goto(c, label),
         pc[c] \in Active, UNCHANGED published
  PROVE  PublishedInv'
<1>1. \A d \in Commands : pc'[d] = IF d = c THEN label ELSE pc[d]
  BY DEF Goto, TypeOK
<1>2. ASSUME NEW d \in Commands PROVE published'[d] = Entries(d)'
  BY <1>1 DEF PublishedInv, Entries, Active
<1> QED
  BY <1>2 DEF PublishedInv

\* ... and at its end.
LEMMA PublishedEnds ==
  ASSUME TypeOK, PublishedInv, NEW c \in Commands, pc[c] \in Active,
         \/ Goto(c, "answered") /\ Publish(c, EndEntry(c))
         \/ Goto(c, "failed") /\ Publish(c, ErrorEntry(c))
  PROVE  PublishedInv'
<1>1. published[c] = <<StartEntry(c)>>
  BY DEF PublishedInv, Entries, Active
<1>2. /\ DOMAIN published' = Commands
      /\ \A d \in Commands \ {c} : pc'[d] = pc[d] /\ published'[d] = published[d]
  BY DEF Goto, Publish, PublishedInv, TypeOK
<1>3. ASSUME NEW d \in Commands, d # c PROVE published'[d] = Entries(d)'
  BY <1>2, <1>3 DEF PublishedInv, Entries
<1>4. published'[c] = Entries(c)'
  <2>1. CASE Goto(c, "answered") /\ Publish(c, EndEntry(c))
    <3>1. pc'[c] = "answered" /\ published'[c] = Append(published[c], EndEntry(c))
      BY <2>1 DEF Goto, Publish, PublishedInv, TypeOK
    <3>2. published'[c] = <<StartEntry(c), EndEntry(c)>>
      BY <1>1, <3>1, TwoEntries
    <3> QED
      BY <3>1, <3>2 DEF Entries
  <2>2. CASE Goto(c, "failed") /\ Publish(c, ErrorEntry(c))
    <3>1. pc'[c] = "failed" /\ published'[c] = Append(published[c], ErrorEntry(c))
      BY <2>2 DEF Goto, Publish, PublishedInv, TypeOK
    <3>2. published'[c] = <<StartEntry(c), ErrorEntry(c)>>
      BY <1>1, <3>1, TwoEntries
    <3> QED
      BY <3>1, <3>2 DEF Entries
  <2> QED
    BY <2>1, <2>2
<1> QED
  BY <1>2, <1>3, <1>4 DEF PublishedInv

\* What nobody touches stays.
LEMMA PublishedRests ==
  ASSUME PublishedInv, UNCHANGED <<pc, published>> PROVE PublishedInv'
BY DEF PublishedInv, Entries

LEMMA PublishedStep == IInv /\ PublishedInv /\ [Next]_vars => PublishedInv'
<1> SUFFICES ASSUME IInv, PublishedInv, [Next]_vars PROVE PublishedInv'
  OBVIOUS
<1>0. TypeOK
  BY DEF IInv
<1>1. ASSUME NEW c \in Commands, StartPing(c) \/ StartBotStatus(c) PROVE PublishedInv'
  <2>1. PICK label \in Active :
          pc[c] = "idle" /\ Goto(c, label) /\ Publish(c, StartEntry(c))
    BY <1>1 DEF StartPing, StartBotStatus, Intercept, Active, StartEntry
  <2>2. /\ DOMAIN published' = Commands
        /\ \A d \in Commands \ {c} : pc'[d] = pc[d] /\ published'[d] = published[d]
        /\ pc'[c] = label /\ published'[c] = Append(published[c], StartEntry(c))
    BY <1>0, <2>1 DEF Goto, Publish, PublishedInv, TypeOK
  <2>3. ASSUME NEW d \in Commands, d # c PROVE published'[d] = Entries(d)'
    BY <2>2, <2>3 DEF PublishedInv, Entries
  <2>4. published'[c] = Entries(c)'
    <3>1. published[c] = <<>>
      BY <2>1 DEF PublishedInv, Entries
    <3>2. published'[c] = <<StartEntry(c)>>
      BY <2>2, <3>1
    <3> QED
      BY <2>2, <3>2 DEF Entries, Active
  <2> QED
    BY <2>2, <2>3, <2>4 DEF PublishedInv
<1>2. ASSUME NEW c \in Commands, AnswerGet(c) PROVE PublishedInv'
  <2>1. pc[c] = "redis"
    BY <1>2, HeadOK DEF AnswerGet
  <2>2. PICK label \in {"build", "reply"} : Goto(c, label)
    BY <1>2 DEF AnswerGet
  <2> QED
    BY <1>0, <1>2, <2>1, <2>2, PublishedMoves DEF AnswerGet, Active
<1>3. ASSUME NEW c \in Commands, Build(c) PROVE PublishedInv'
  BY <1>0, <1>3, PublishedMoves DEF Build, Active
<1>4. ASSUME NEW c \in Commands, Reply(c) PROVE PublishedInv'
  BY <1>0, <1>4, PublishedEnds DEF Reply, Active, EndEntry, Elapsed
<1>5. ASSUME NEW c \in Commands, ReplyFails(c) PROVE PublishedInv'
  BY <1>0, <1>5, PublishedEnds DEF ReplyFails, Fails, Active, ErrorEntry, Elapsed
<1>6. ASSUME ClientReady \/ ReadyBuilds \/ Expire \/ UNCHANGED vars PROVE PublishedInv'
  <2>1. UNCHANGED <<pc, published>>
    BY <1>6 DEF ClientReady, ReadyBuilds, Expire, vars, uses
  <2> QED
    BY <2>1, PublishedRests
<1>7. ASSUME AnswerSet PROVE PublishedInv'
  <2>1. UNCHANGED published /\ wire # <<>>
    BY <1>7 DEF AnswerSet
  <2>2. CASE Head(wire).by = Ready
    BY <1>7, <2>1, <2>2, PublishedRests DEF AnswerSet
  <2>3. CASE Head(wire).by # Ready
    <3>1. Head(wire).by \in Commands /\ pc[Head(wire).by] = "redis"
      BY <2>1, <2>3, HeadOK DEF Request
    <3>2. Goto(Head(wire).by, "reply")
      BY <1>7, <2>3 DEF AnswerSet
    <3> QED
      BY <1>0, <2>1, <3>1, <3>2, PublishedMoves DEF Active
  <2> QED
    BY <2>2, <2>3
<1>8. ASSUME RedisFails PROVE PublishedInv'
  <2>1. CASE Head(wire).by = Ready
    BY <1>8, <2>1, PublishedRests DEF RedisFails, uses
  <2>2. CASE Head(wire).by # Ready
    <3>1. Head(wire).by \in Commands /\ pc[Head(wire).by] = "redis"
      BY <1>8, <2>2, HeadOK DEF Request, RedisFails
    <3>2. Fails(Head(wire).by)
      BY <1>8, <2>2 DEF RedisFails
    <3> QED
      BY <1>0, <3>1, <3>2, PublishedEnds DEF Fails, Active, ErrorEntry, Elapsed
  <2> QED
    BY <2>1, <2>2
<1>9. ASSUME Restart PROVE PublishedInv'
  <2>1. /\ UNCHANGED published
        /\ \A c \in Commands : \/ pc'[c] = pc[c]
                               \/ pc[c] \in Active /\ pc'[c] = "lost"
    BY <1>9 DEF Restart, Active
  <2>2. ASSUME NEW c \in Commands PROVE published'[c] = Entries(c)'
    BY <2>1 DEF PublishedInv, Entries, Active
  <2> QED
    BY <2>1, <2>2 DEF PublishedInv
<1> QED
  BY <1>1, <1>2, <1>3, <1>4, <1>5, <1>6, <1>7, <1>8, <1>9 DEF Next

\* Every use of a command leaves its start and its end in the log, found by a
\* search for its guild or its user and by no other.
THEOREM CommandsStayFound == Spec => []CommandsAreFound
<1>1. Init => PublishedInv
  BY DEF Init, PublishedInv, Entries
<1>2. ASSUME PublishedInv PROVE CommandsAreFound
  <2> SUFFICES ASSUME NEW c \in Commands
               PROVE  /\ pc[c] \in {"answered", "failed"} => Len(published[c]) = 2
                      /\ \A i \in DOMAIN published[c] :
                           LET entry == published[c][i]
                           IN  /\ \A d \in Commands :
                                    /\ GuildOf[d] # NoGuild =>
                                         (Finds("guild-id", GuildOf[d], entry)
                                            <=> GuildOf[d] = GuildOf[c])
                                    /\ Finds("actor-id", ActorOf[d], entry)
                                         <=> ActorOf[d] = ActorOf[c]
                               /\ HasField(entry, "error", "error") <=> i = 2 /\ pc[c] = "failed"
    BY DEF CommandsAreFound
  <2> DEFINE Shows(entry, failed) ==
        /\ \A g : Finds("guild-id", g, entry) <=> g = GuildOf[c]
        /\ \A a : Finds("actor-id", a, entry) <=> a = ActorOf[c]
        /\ HasField(entry, "error", "error") <=> failed
  <2>1. Shows(StartEntry(c), FALSE)
    BY InterceptorTells, TellsIsFound DEF StartEntry, Log
  <2>2. Shows(EndEntry(c), FALSE)
    BY InterceptorTells, TellsIsFound DEF EndEntry, Log
  <2>3. Shows(ErrorEntry(c), TRUE)
    BY InterceptorTells, TellsIsFound DEF ErrorEntry, Error
  <2> HIDE DEF Shows
  <2>4. published[c] = Entries(c)
    BY <1>2 DEF PublishedInv
  <2>5. pc[c] \in {"answered", "failed"} => Len(published[c]) = 2
    BY <2>4 DEF Entries
  <2>6. ASSUME NEW i \in DOMAIN published[c]
        PROVE  Shows(published[c][i], i = 2 /\ pc[c] = "failed")
    <3>1. CASE pc[c] = "answered"
      <4>1. published[c] = <<StartEntry(c), EndEntry(c)>>
        BY <2>4, <3>1 DEF Entries
      <4>2. i \in {1, 2} /\ published[c][1] = StartEntry(c) /\ published[c][2] = EndEntry(c)
        BY <4>1
      <4> QED
        BY <2>1, <2>2, <3>1, <4>2
    <3>2. CASE pc[c] = "failed"
      <4>1. published[c] = <<StartEntry(c), ErrorEntry(c)>>
        BY <2>4, <3>2 DEF Entries
      <4>2. i \in {1, 2} /\ published[c][1] = StartEntry(c) /\ published[c][2] = ErrorEntry(c)
        BY <4>1
      <4> QED
        BY <2>1, <2>3, <3>2, <4>2
    <3>3. CASE pc[c] \notin {"answered", "failed"}
      <4>1. published[c] = <<>> \/ published[c] = <<StartEntry(c)>>
        BY <2>4, <3>3 DEF Entries
      <4>2. i = 1 /\ published[c][1] = StartEntry(c)
        BY <4>1
      <4> QED
        BY <2>1, <3>3, <4>2
    <3> QED
      BY <3>1, <3>2, <3>3
  <2> QED
    BY <2>5, <2>6 DEF Shows
<1> QED
  BY <1>1, <1>2, Invariance, PublishedStep, PTL DEF Spec

=============================================================================
