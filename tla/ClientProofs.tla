----------------------------- MODULE ClientProofs -----------------------------
(***************************************************************************)
(* What TLAPS proves about Client, for any number of calls and any replies *)
(* of the server.                                                          *)
(***************************************************************************)
EXTENDS Client, SequenceLemmas, TLAPS

ContentTypes == {"data", "proto", "chunk", "last", "crlf", "trailers"}
PieceTypes == ContentTypes \cup {"line", "fields", "eof"}
Framings ==
    {"small", "large", "chunked", "trailers", "close", "empty", "switching", "interim", "head"}

(* The pieces that the server has sent: they answer a call whose request    *)
(* was written, and a head announces a switch of protocols when the reply   *)
(* is one.                                                                  *)
SentPieces ==
    {p \in [k : Calls, t : PieceTypes, f : Framings] :
        /\ p.k <= n /\ (p.k = n => pc # "write")
        /\ p.t = "fields" => (p.f = "switching" <=> reply[p.k].framing = "switching")}

Sending ==
    /\ todo \in [Conns -> Seq(SentPieces)] /\ socket \in [Conns -> Seq(SentPieces)]
    /\ buf \in [Calls -> Seq(SentPieces)]

(* A call that is under way has taken its connection out of the pool. *)
Calling ==
    /\ pc # "idle" => n # 0 /\ pool = 0 /\ used[n] # 0 /\ status[n] = "none"
    /\ opened <= n
    /\ \A k \in Calls : used[k] <= opened /\ (k > n => used[k] = 0 /\ status[k] = "none")

(* A body that is read is that of a response. *)
Reading == \A k \in Calls : Streaming(k) => used[k] # 0 /\ status[k] = "ok"

(* An answer is one that the server has given. *)
Answered ==
    /\ \A k \in Calls : status[k] = "ok" => answer[k] \in 1..n /\ (answer[k] = n => pc # "write")
    /\ pc = "small" => answer[n] \in 1..n /\ reply[answer[n]].framing # "switching"

(* The calls before on a connection that is used allowed it. *)
Reusable(j) ==
    (status[j] = "ok" /\ Allows(reply[answer[j]])) \/ status[j] \in {"truncated", "stray"}

Pooled ==
    /\ pool # 0 => \A j \in Calls : used[j] = pool => Reusable(j)
    /\ ReusedWhenAllowed

ReuseInv == TypeOK /\ Sending /\ Calling /\ Reading /\ Answered /\ Pooled

(* The connection is used up to the eof, and after it nothing arrives. *)
Closing ==
    /\ \A c \in Conns : link[c] # "open" => todo[c] = << >>
    /\ \A c \in Conns : \A i \in 1..Len(todo[c]) : todo[c][i].t = "eof" => i = Len(todo[c])
    /\ \A c \in Conns : c > opened => todo[c] = << >> /\ socket[c] = << >>
    /\ \A k \in Calls : k > n \/ (k = n /\ pc = "write") => buf[k] = << >>

(* The heads of responses among pieces. *)
NoHead(s) == \A i \in 1..Len(s) : s[i].t # "fields"
OneHead(s) == \A i, j \in 1..Len(s) : s[i].t = "fields" /\ s[j].t = "fields" => i = j
HeadsOf(s, k) == \A i \in 1..Len(s) : s[i].t = "fields" => s[i].k = k

(* All heads in a buffer, a socket and what is to come are of call k, and   *)
(* there is one at most.                                                    *)
AllOf(b, s, t, k) == HeadsOf(b, k) /\ HeadsOf(s, k) /\ HeadsOf(t, k)
Single(b, s, t) ==
    /\ OneHead(b) /\ OneHead(s) /\ OneHead(t)
    /\ NoHead(b) \/ (NoHead(s) /\ NoHead(t))
    /\ NoHead(s) \/ NoHead(t)

(* On a connection where a call took something else for its response, heads *)
(* and calls are out of step.  On any other the pool has no head of an      *)
(* older response, and a call finds one head at most, its own.              *)
Mixed(c) == \E j \in 1..n : used[j] = c /\ (reply[j].framing = "interim" \/ status[j] = "stray")

PoolClean == pool # 0 => Mixed(pool) \/ (NoHead(socket[pool]) /\ NoHead(todo[pool]))

OwnHeads ==
    pc # "idle" /\ ~Displaced(n) =>
        LET c == used[n]
        IN  /\ AllOf(buf[n], socket[c], todo[c], n)
            /\ pc = "write" => NoHead(socket[c]) /\ NoHead(todo[c])
            /\ pc = "small" => answer[n] = n
            /\ reply[n].framing # "interim" =>
                /\ Single(buf[n], socket[c], todo[c])
                /\ pc = "small" => NoHead(socket[c]) /\ NoHead(todo[c])

(* A call returns its own response, or something else on a connection where *)
(* a call before it did so.                                                 *)
OwnAnswers == \A k \in Calls : status[k] = "ok" => answer[k] = k \/ Displaced(k)

OwnInv == Closing /\ PoolClean /\ OwnHeads /\ OwnAnswers

-----------------------------------------------------------------------------
(* What an answer of the server consists of. *)

(* A sequence over a set is one over any larger set. *)
LEMMA SeqGrows ==
    ASSUME NEW S, NEW T, S \subseteq T, NEW s \in Seq(S)
    PROVE  s \in Seq(T)
  OBVIOUS

(* Every element of one sequence behind another is of one of the two. *)
LEMMA Located ==
    ASSUME NEW S, NEW s \in Seq(S), NEW t \in Seq(S)
    PROVE  /\ s \o t \in Seq(S) /\ Len(s \o t) = Len(s) + Len(t)
           /\ \A i \in 1..Len(s) : (s \o t)[i] = s[i]
           /\ \A i \in 1..Len(s \o t) : i > Len(s) => i - Len(s) \in 1..Len(t) /\ (s \o t)[i] = t[i - Len(s)]
  OBVIOUS

(* The contents of a message are pieces of a body. *)
LEMMA ContentsShape ==
    ASSUME NEW framing
    PROVE  Contents(framing) \in Seq(ContentTypes)
  <1> USE DEF Contents, ContentTypes
  <1>1. CASE framing = "small"
    BY <1>1
  <1>2. CASE framing = "large"
    BY <1>2
  <1>3. CASE framing = "close"
    BY <1>3
  <1>4. CASE framing = "switching"
    BY <1>4
  <1>5. CASE framing = "chunked"
    BY <1>5
  <1>6. CASE framing = "trailers"
    BY <1>6
  <1>7. CASE framing \notin {"small", "large", "close", "switching", "chunked", "trailers"}
    BY <1>7
  <1> QED
    BY <1>1, <1>2, <1>3, <1>4, <1>5, <1>6, <1>7

(* A message is a line, its fields and then no other head. *)
LEMMA MessageShape ==
    ASSUME NEW k \in Calls, NEW framing, NEW announced \in Framings
    PROVE  LET m == Message(k, framing, announced)
           IN  /\ m \in Seq([k : {k}, t : PieceTypes, f : {announced}])
               /\ Len(m) >= 2
               /\ \A i \in 1..Len(m) : m[i].t # "eof" /\ (m[i].t = "fields" <=> i = 2)
  <1>1. PICK c \in Seq(ContentTypes) : c = Contents(framing)
    BY ContentsShape
  <1>2. PICK s \in Seq(PieceTypes) : s = << "line", "fields" >> \o c
    <2>1. c \in Seq(PieceTypes)
      BY SeqGrows DEF PieceTypes
    <2>2. << "line", "fields" >> \in Seq(PieceTypes)
      BY DEF PieceTypes
    <2>3. << "line", "fields" >> \o c \in Seq(PieceTypes)
      BY <2>1, <2>2
    <2> QED
      BY <2>3
  <1>3. /\ Len(s) = 2 + Len(c) /\ s[1] = "line" /\ s[2] = "fields"
        /\ \A i \in 1..Len(s) : i > 2 => s[i] = c[i - 2] /\ i - 2 \in 1..Len(c)
    BY <1>2
  <1>4. \A i \in 1..Len(s) : s[i] # "eof" /\ (s[i] = "fields" <=> i = 2)
    BY <1>3 DEF ContentTypes
  <1>5. Message(k, framing, announced) = [i \in 1..Len(s) |-> [k |-> k, t |-> s[i], f |-> announced]]
    BY <1>1, <1>2 DEF Message
  <1>6. PICK m : m = Message(k, framing, announced)
    OBVIOUS
  <1>7. /\ m \in Seq([k : {k}, t : PieceTypes, f : {announced}]) /\ Len(m) = Len(s)
        /\ \A i \in 1..Len(m) : m[i].t = s[i]
    BY <1>5, <1>6
  <1> QED
    BY <1>3, <1>4, <1>6, <1>7

(* The pieces of a reply r to call k. *)
AnswerPieces(k, r) ==
    {p \in [k : {k}, t : PieceTypes, f : Framings] :
        p.t = "fields" => (p.f = "switching" <=> r.framing = "switching")}

(* A message of the answer to call k has one head and does not end the      *)
(* connection.                                                              *)
LEMMA MessageOfAnswer ==
    ASSUME NEW k \in Calls, NEW r, NEW framing, NEW announced \in Framings,
           announced = "switching" <=> r.framing = "switching"
    PROVE  LET m == Message(k, framing, announced)
           IN  /\ m \in Seq(AnswerPieces(k, r)) /\ OneHead(m)
               /\ \A i \in 1..Len(m) : m[i].t # "eof"
  <1>1. PICK m \in Seq([k : {k}, t : PieceTypes, f : {announced}]) :
            /\ m = Message(k, framing, announced) /\ Len(m) >= 2
            /\ \A i \in 1..Len(m) : m[i].t # "eof" /\ (m[i].t = "fields" <=> i = 2)
    BY MessageShape
  <1>2. [k : {k}, t : PieceTypes, f : {announced}] \subseteq AnswerPieces(k, r)
    BY DEF AnswerPieces
  <1>3. m \in Seq(AnswerPieces(k, r))
    BY <1>2, SeqGrows
  <1>4. OneHead(m)
    BY <1>1 DEF OneHead
  <1> QED
    BY <1>1, <1>3, <1>4

(* An answer: the end of the connection comes last, and but for an interim  *)
(* response there is one head.                                              *)
LEMMA AnswerShape ==
    ASSUME NEW k \in Calls, NEW r \in ReplyRecords
    PROVE  LET a == Answer(k, r)
           IN  /\ a \in Seq(AnswerPieces(k, r))
               /\ \A i \in 1..Len(a) : a[i].t = "eof" => i = Len(a)
               /\ r.framing # "interim" => OneHead(a)
  <1>1. r.framing \in Framings
    BY DEF ReplyRecords, Framings
  <1> DEFINE e == IF r.after = "close" THEN << [k |-> k, t |-> "eof", f |-> r.framing] >> ELSE << >>
  <1>2. e \in Seq(AnswerPieces(k, r)) /\ Len(e) <= 1 /\ \A i \in 1..Len(e) : e[i].t = "eof"
    <2>1. [k |-> k, t |-> "eof", f |-> r.framing] \in AnswerPieces(k, r)
      BY <1>1 DEF AnswerPieces, PieceTypes
    <2> QED
      BY <2>1
  <1>3. PICK x \in Seq(AnswerPieces(k, r)) : x = e
    BY <1>2
  <1>4. \E m \in Seq(AnswerPieces(k, r)) :
            /\ Answer(k, r) = m \o e /\ (r.framing # "interim" => OneHead(m))
            /\ \A i \in 1..Len(m) : m[i].t # "eof"
    <2>1. CASE r.framing = "interim"
      <3>1. "empty" \in Framings /\ "small" \in Framings
        BY DEF Framings
      <3>2. PICK a \in Seq(AnswerPieces(k, r)) : a = Message(k, "empty", "empty") /\ \A i \in 1..Len(a) : a[i].t # "eof"
        BY <2>1, <3>1, MessageOfAnswer
      <3>3. PICK b \in Seq(AnswerPieces(k, r)) : b = Message(k, "small", "small") /\ \A i \in 1..Len(b) : b[i].t # "eof"
        BY <2>1, <3>1, MessageOfAnswer
      <3>4. PICK m \in Seq(AnswerPieces(k, r)) :
                m = a \o b /\ \A i \in 1..Len(m) : m[i].t # "eof"
        <4>1. PICK m \in Seq(AnswerPieces(k, r)) :
                  /\ m = a \o b /\ Len(m) = Len(a) + Len(b) /\ \A i \in 1..Len(a) : m[i] = a[i]
                  /\ \A i \in 1..Len(m) : i > Len(a) => i - Len(a) \in 1..Len(b) /\ m[i] = b[i - Len(a)]
          <5>1. PICK S : S = AnswerPieces(k, r)
            OBVIOUS
          <5>2. PICK m \in Seq(S) : m = a \o b
            <6>1. a \in Seq(S) /\ b \in Seq(S)
              BY <5>1
            <6>2. a \o b \in Seq(S)
              BY <6>1
            <6> QED
              BY <6>2
          <5>3. a \in Seq(S) /\ b \in Seq(S)
            BY <5>1
          <5>4. /\ Len(m) = Len(a) + Len(b) /\ \A i \in 1..Len(a) : m[i] = a[i]
                /\ \A i \in 1..Len(m) : i > Len(a) => i - Len(a) \in 1..Len(b) /\ m[i] = b[i - Len(a)]
            BY <5>2, <5>3, Located
          <5> QED
            BY <5>1, <5>2, <5>4
        <4>2. \A i \in 1..Len(m) : m[i].t # "eof"
          <5> TAKE i \in 1..Len(m)
          <5>1. CASE i > Len(a)
            BY <3>3, <4>1, <5>1
          <5>2. CASE ~(i > Len(a))
            <6>1. i \in 1..Len(a)
              BY <5>2
            <6> QED
              BY <3>2, <4>1, <6>1
          <5> QED
            BY <5>1, <5>2
        <4> QED
          BY <4>1, <4>2
      <3>5. Answer(k, r) = (a \o b) \o e
        BY <2>1, <3>2, <3>3 DEF Answer
      <3> QED
        BY <2>1, <3>4, <3>5
    <2>2. CASE r.framing = "head"
      <3>1. "small" \in Framings
        BY DEF Framings
      <3>2. PICK m \in Seq(AnswerPieces(k, r)) :
                m = Message(k, "empty", "small") /\ OneHead(m) /\ \A i \in 1..Len(m) : m[i].t # "eof"
        BY <2>2, <3>1, MessageOfAnswer
      <3>3. Answer(k, r) = m \o e
        BY <2>2, <3>2 DEF Answer
      <3> QED
        BY <3>2, <3>3
    <2>3. CASE r.framing \notin {"interim", "head"}
      <3>1. PICK m \in Seq(AnswerPieces(k, r)) :
                m = Message(k, r.framing, r.framing) /\ OneHead(m) /\ \A i \in 1..Len(m) : m[i].t # "eof"
        BY <1>1, MessageOfAnswer
      <3>2. Answer(k, r) = m \o e
        BY <2>3, <3>1 DEF Answer
      <3> QED
        BY <3>1, <3>2
    <2> QED
      BY <2>1, <2>2, <2>3
  <1>5. PICK m \in Seq(AnswerPieces(k, r)) :
            /\ Answer(k, r) = m \o e /\ (r.framing # "interim" => OneHead(m))
            /\ \A i \in 1..Len(m) : m[i].t # "eof"
    BY <1>4
  <1>6. /\ Len(x) <= 1 /\ \A i \in 1..Len(x) : x[i].t = "eof"
        /\ Answer(k, r) = m \o x
    BY <1>2, <1>3, <1>5
  <1> HIDE DEF e
  <1>7. PICK a \in Seq(AnswerPieces(k, r)) :
            /\ a = m \o x /\ Len(a) = Len(m) + Len(x)
            /\ \A i \in 1..Len(m) : a[i] = m[i]
            /\ \A i \in 1..Len(a) : i > Len(m) => i - Len(m) \in 1..Len(x) /\ a[i] = x[i - Len(m)]
    <2>1. PICK S : S = AnswerPieces(k, r)
      OBVIOUS
    <2>2. m \in Seq(S) /\ x \in Seq(S)
      BY <2>1
    <2>3. m \o x \in Seq(S)
      BY <2>2
    <2>4. PICK a \in Seq(S) : a = m \o x
      BY <2>3
    <2>5. /\ Len(a) = Len(m) + Len(x) /\ \A i \in 1..Len(m) : a[i] = m[i]
          /\ \A i \in 1..Len(a) : i > Len(m) => i - Len(m) \in 1..Len(x) /\ a[i] = x[i - Len(m)]
      BY <2>2, <2>4, Located
    <2> QED
      BY <2>1, <2>4, <2>5
  <1>8. \A i \in 1..Len(a) : a[i].t = "eof" => i = Len(a)
    BY <1>5, <1>6, <1>7
  <1>9. r.framing # "interim" => OneHead(a)
    <2>1. \A i \in 1..Len(a) : a[i].t = "fields" => i \in 1..Len(m) /\ m[i].t = "fields"
      BY <1>6, <1>7
    <2> QED
      BY <1>5, <2>1 DEF OneHead
  <1> QED
    BY <1>6, <1>7, <1>8, <1>9

-----------------------------------------------------------------------------
(* What the steps do to the calls. *)
Untouched == UNCHANGED <<n, pc, pool, opened, used, status, answer, reply>>

Ends(how) ==
    /\ pc # "idle" /\ pc' = "idle"
    /\ status' = [status EXCEPT ![n] = how]
    /\ UNCHANGED <<n, opened, used, reply>>

Dropped == (Ends("invalid") \/ Ends("failed")) /\ UNCHANGED <<pool, answer>>

CutOff ==
    (Ends("truncated") \/ Ends("stray")) /\ (pool' = pool \/ pool' = used[n]) /\ UNCHANGED answer

Returned(j) ==
    /\ Ends("ok") /\ answer' = [answer EXCEPT ![n] = j]
    /\ pool' = pool \/ (pool' = used[n] /\ Allows(reply[j]))

ReadsHead ==
    /\ pc = "parse" /\ pc' = "parse"
    /\ \E x \in 1..n : answer' = [answer EXCEPT ![n] = x]
    /\ UNCHANGED <<n, pool, opened, used, status, reply>>

HasHead ==
    /\ pc = "parse" /\ pc' = "small"
    /\ \E x \in 1..n : reply[x].framing # "switching" /\ answer' = [answer EXCEPT ![n] = x]
    /\ UNCHANGED <<n, pool, opened, used, status, reply>>

(* The piece in front of call n. *)
LEMMA FrontPiece ==
    ASSUME TypeOK, Sending, Calling, pc # "idle", buf[n] # << >>
    PROVE  /\ n \in Calls /\ buf[n] \in Seq(SentPieces) /\ Head(buf[n]) \in SentPieces
           /\ Head(buf[n]).k \in 1..n /\ Head(buf[n]).f \in Framings /\ reply[Head(buf[n]).k] \in ReplyRecords
           /\ Head(buf[n]).t = "fields" =>
                (Head(buf[n]).f = "switching" <=> reply[Head(buf[n]).k].framing = "switching")
  <1>1. n \in Calls
    BY ClientAssumption DEF TypeOK, Calling, Calls
  <1>2. buf[n] \in Seq(SentPieces) /\ Head(buf[n]) \in SentPieces
    BY <1>1 DEF Sending
  <1>3. PICK p \in SentPieces : p = Head(buf[n])
    BY <1>2
  <1>4. p.k \in 1..n /\ p.k \in Calls /\ p.f \in Framings
    BY DEF SentPieces, Calls
  <1>5. reply[p.k] \in ReplyRecords
    <2>1. Replies \cup {NoReply} \subseteq ReplyRecords
      BY ClientAssumption DEF NoReply, ReplyRecords
    <2> QED
      BY <1>4, <2>1 DEF TypeOK
  <1> QED
    BY <1>1, <1>2, <1>3, <1>4, <1>5 DEF SentPieces

(* What returning a response does to the call and to the pool. *)
LEMMA ReturnEffect ==
    ASSUME TypeOK, Calling, pc # "idle", NEW j \in 1..n, NEW framing, Return(j, framing),
           reply[j] \in ReplyRecords, reply[j].framing = "switching" => framing = "switching",
           UNCHANGED <<n, opened, used, reply>>
    PROVE  Returned(j)
  <1>1. Ends("ok") /\ answer' = [answer EXCEPT ![n] = j]
    BY DEF Ends, Return
  <1>2. pool' = (IF Outcome(reply[j].conn, framing) = "KeepAlive" THEN used[n] ELSE pool)
    BY DEF Return
  <1>3. Outcome(reply[j].conn, framing) = "KeepAlive" => Allows(reply[j])
    BY DEF Outcome, Allows, ReplyRecords
  <1> QED
    BY <1>1, <1>2, <1>3 DEF Returned

(* The effects that a step can have on the calls. *)
LEMMA CallEffects ==
    TypeOK /\ Sending /\ Calling /\ Answered /\ [Next]_vars =>
        \/ Untouched \/ Request \/ RequestRejected \/ WriteRequest \/ Dropped \/ CutOff
        \/ ReadsHead \/ HasHead \/ \E j \in 1..n : Returned(j)
  <1> SUFFICES ASSUME TypeOK, Sending, Calling, Answered, [Next]_vars,
                      ~Untouched, ~Request, ~RequestRejected, ~WriteRequest
               PROVE  Dropped \/ CutOff \/ ReadsHead \/ HasHead \/ \E j \in 1..n : Returned(j)
    OBVIOUS
  <1> USE DEF callVars, bodyVars, serverVars
  <1>1. ASSUME NEW k \in Calls, BodyStep(k) \/ IntoUpgraded(k) \/ BodyAbandoned(k) PROVE Untouched
    BY <1>1 DEF BodyStep, Fill, BodyPiece, BodyDone, LetGo, IntoUpgraded, BodyAbandoned, Untouched
  <1>2. ASSUME NEW c \in Conns, ServerSend(c) \/ ServerClose(c) PROVE Untouched
    BY <1>2 DEF ServerSend, ServerClose, Untouched
  <1>3. Idle \/ UNCHANGED vars \/ Fill(n) => Untouched
    BY DEF Idle, vars, Fill, Untouched
  <1>4. CASE WriteInvalid \/ WriteFails
    BY <1>4 DEF WriteInvalid, WriteFails, Fail, Dropped, Ends
  <1>5. CASE ParsePiece
    <2>0. /\ n \in Calls /\ Head(buf[n]).k \in 1..n /\ reply[Head(buf[n]).k] \in ReplyRecords
          /\ Head(buf[n]).t = "fields" =>
               (Head(buf[n]).f = "switching" <=> reply[Head(buf[n]).k].framing = "switching")
      BY <1>5, FrontPiece DEF ParsePiece
    <2>1. PICK p : p = Head(buf[n])
      OBVIOUS
    <2>2. CASE answer' = [answer EXCEPT ![n] = p.k] /\ UNCHANGED <<pc, pool, status>>
      BY <1>5, <2>0, <2>1, <2>2 DEF ParsePiece, ReadsHead
    <2>3. CASE Fail /\ UNCHANGED answer
      BY <1>5, <2>3 DEF ParsePiece, Fail, Dropped, Ends
    <2>4. CASE p.t = "fields" /\ p.f = "small" /\ pc' = "small" /\ answer' = [answer EXCEPT ![n] = p.k]
               /\ UNCHANGED <<pool, status>>
      BY <1>5, <2>0, <2>1, <2>4 DEF ParsePiece, HasHead
    <2>5. CASE p.t = "fields" /\ Return(p.k, p.f)
      <3>1. Returned(p.k)
        BY <1>5, <2>0, <2>1, <2>5, ReturnEffect DEF ParsePiece
      <3> QED
        BY <2>0, <2>1, <3>1
    <2>6. CASE /\ pc' = "idle" /\ pool' \in {pool, used[n]} /\ UNCHANGED answer
               /\ status' = [status EXCEPT ![n] = "stray"]
      BY <1>5, <2>6 DEF ParsePiece, CutOff, Ends
    <2> QED
      BY <1>5, <2>1, <2>2, <2>3, <2>4, <2>5, <2>6 DEF ParsePiece, ParseLoose, NextPiece
  <1>6. CASE BufferBody
    <2>1. n \in Calls /\ answer[n] \in 1..n /\ reply[answer[n]].framing # "switching"
      BY <1>6, ClientAssumption DEF BufferBody, Answered, TypeOK, Calling, Calls
    <2>2. reply[answer[n]] \in ReplyRecords
      <3>1. Replies \cup {NoReply} \subseteq ReplyRecords
        BY ClientAssumption DEF NoReply, ReplyRecords
      <3>2. answer[n] \in Calls
        BY <2>1, ClientAssumption DEF TypeOK, Calls
      <3> QED
        BY <3>1, <3>2 DEF TypeOK
    <2>3. Returned(answer[n])
      BY <1>6, <2>1, <2>2, ReturnEffect DEF BufferBody
    <2> QED
      BY <2>1, <2>3
  <1>7. CASE ParseEof
    <2>1. CASE Fail
      BY <1>7, <2>1 DEF ParseEof, Fail, Dropped, Ends
    <2>2. CASE /\ pc' = "idle" /\ (pool' = pool \/ pool' = used[n])
               /\ status' = [status EXCEPT ![n] = "truncated"]
      BY <1>7, <2>2 DEF ParseEof, CutOff, Ends
    <2> QED
      BY <1>7, <2>1, <2>2 DEF ParseEof
  <1> QED
    BY <1>1, <1>2, <1>3, <1>4, <1>5, <1>6, <1>7 DEF Next, CallStep

(* The types of what a call's effects touch. *)
LEMMA Basics ==
    ASSUME TypeOK, Calling
    PROVE  /\ MaxRequests \in Nat /\ Calls = 1..MaxRequests /\ Conns = 1..MaxRequests
           /\ n \in Nat /\ opened \in Nat /\ opened <= n /\ n <= MaxRequests /\ pool \in Nat
           /\ \A k \in Calls : used[k] \in Nat /\ answer[k] \in Nat
           /\ pc # "idle" => n \in Calls /\ used[n] \in Conns
  BY ClientAssumption DEF TypeOK, Calling, Calls, Conns

(* A request takes the connection of the pool, or opens one. *)
LEMMA RequestEffect ==
    ASSUME TypeOK, Calling, Request
    PROVE  \E c \in Conns :
               /\ c = (IF pool # 0 THEN pool ELSE opened + 1) /\ pool' = 0
               /\ opened' = (IF pool # 0 THEN opened ELSE opened + 1)
               /\ used' = [used EXCEPT ![n + 1] = c] /\ n + 1 \in Calls /\ DOMAIN used = Calls
               /\ n' = n + 1 /\ pc' = "write" /\ UNCHANGED <<status, answer, buf, serverVars>>
  <1>1. n \in 0..(MaxRequests - 1) /\ opened \in Nat /\ opened <= n /\ pool \in 0..opened
        /\ MaxRequests \in Nat /\ Calls = 1..MaxRequests /\ Conns = 1..MaxRequests /\ DOMAIN used = Calls
    BY Basics DEF TypeOK, Request
  <1>2. CASE pool # 0
    BY <1>1, <1>2 DEF Request, Use
  <1>3. CASE pool = 0
    BY <1>1, <1>3 DEF Request, Use
  <1> QED
    BY <1>2, <1>3

(* A call is answered when the server listens. *)
LEMMA WriteEffect ==
    ASSUME TypeOK, Calling, WriteRequest
    PROVE  /\ n \in Calls /\ used[n] \in Conns
           /\ \A k \in Calls : k # n => reply'[k] = reply[k]
           /\ \/ UNCHANGED <<reply, todo>>
              \/ Listening(used[n]) /\ \E r \in Replies :
                    /\ reply' = [reply EXCEPT ![n] = r]
                    /\ todo' = [todo EXCEPT ![used[n]] = @ \o Answer(n, r)]
  <1>1. n \in Calls /\ used[n] \in Conns
    BY Basics DEF WriteRequest
  <1>2. \/ UNCHANGED <<reply, todo>>
        \/ Listening(used[n]) /\ \E r \in Replies :
              /\ reply' = [reply EXCEPT ![n] = r]
              /\ todo' = [todo EXCEPT ![used[n]] = @ \o Answer(n, r)]
    BY DEF WriteRequest
  <1>3. DOMAIN reply = Calls
    BY DEF TypeOK
  <1>4. \A k \in Calls : k # n => reply'[k] = reply[k]
    <2>1. CASE UNCHANGED <<reply, todo>>
      BY <2>1
    <2>2. CASE \E r \in Replies : reply' = [reply EXCEPT ![n] = r]
      BY <1>3, <2>2
    <2> QED
      BY <1>2, <2>1, <2>2
  <1> QED
    BY <1>1, <1>2, <1>4

(* What was sent up to now was also sent up to a later call. *)
LEMMA PiecesGrow ==
    ASSUME TypeOK, Sending, Calling, Answered, [Next]_vars
    PROVE  SentPieces \subseteq SentPieces'
  <1> SUFFICES ASSUME NEW p \in SentPieces PROVE p \in SentPieces'
    OBVIOUS
  <1>0. /\ p \in [k : Calls, t : PieceTypes, f : Framings] /\ p.k <= n /\ (p.k = n => pc # "write")
        /\ p.t = "fields" => (p.f = "switching" <=> reply[p.k].framing = "switching")
    BY DEF SentPieces
  <1>1. n \in Nat /\ p.k \in Nat
    BY <1>0, Basics
  <1>2. ASSUME n' = n, pc' # "write" \/ pc' = pc, reply' = reply PROVE p \in SentPieces'
    BY <1>0, <1>2 DEF SentPieces
  <1>3. CASE Request \/ RequestRejected
    BY <1>0, <1>1, <1>3 DEF Request, RequestRejected, SentPieces, serverVars
  <1>4. CASE WriteRequest
    <2>1. reply'[p.k] = reply[p.k] /\ n' = n /\ pc' = "parse"
      BY <1>0, <1>4, WriteEffect DEF WriteRequest
    <2> QED
      BY <1>0, <2>1 DEF SentPieces
  <1> QED
    BY <1>2, <1>3, <1>4, CallEffects DEF Untouched, Dropped, CutOff, ReadsHead, HasHead, Returned, Ends

(* The place of the call: Calling is preserved. *)
LEMMA CallingStep ==
    TypeOK /\ Sending /\ Calling /\ Answered /\ [Next]_vars => Calling'
  <1> SUFFICES ASSUME TypeOK, Sending, Calling, Answered, [Next]_vars PROVE Calling'
    OBVIOUS
  <1>0. /\ MaxRequests \in Nat /\ Calls = 1..MaxRequests /\ n \in Nat /\ opened \in Nat /\ opened <= n
        /\ \A k \in Calls : used[k] \in Nat
        /\ used \in [Calls -> 0..MaxRequests]
        /\ DOMAIN status = Calls
    BY Basics DEF TypeOK
  <1>1. CASE Untouched
    BY <1>1 DEF Untouched, Calling
  <1>2. CASE Request
    <2>1. PICK c \in Conns :
              /\ c = (IF pool # 0 THEN pool ELSE opened + 1) /\ pool' = 0
              /\ opened' = (IF pool # 0 THEN opened ELSE opened + 1)
              /\ used' = [used EXCEPT ![n + 1] = c] /\ n + 1 \in Calls /\ DOMAIN used = Calls
              /\ n' = n + 1 /\ pc' = "write" /\ UNCHANGED <<status, answer, buf, serverVars>>
      BY <1>2, RequestEffect
    <2>2. c \in Nat /\ c # 0 /\ c <= opened' /\ opened' \in Nat /\ opened <= opened' /\ opened' <= n'
      <3>1. pool \in 0..opened
        BY DEF TypeOK
      <3>2. CASE pool # 0
        BY <1>0, <2>1, <3>1, <3>2
      <3>3. CASE pool = 0
        BY <1>0, <2>1, <3>3
      <3> QED
        BY <3>2, <3>3
    <2>3. \A k \in Calls : used'[k] = IF k = n + 1 THEN c ELSE used[k]
      BY <2>1
    <2> QED
      BY <1>0, <2>1, <2>2, <2>3 DEF Calling
  <1>3. CASE RequestRejected
    BY <1>0, <1>3 DEF RequestRejected, Calling
  <1>4. CASE WriteRequest
    BY <1>4 DEF WriteRequest, Calling
  <1>5. ASSUME NEW how, Ends(how) PROVE Calling'
    BY <1>0, <1>5, Basics DEF Ends, Calling
  <1>6. CASE ReadsHead \/ HasHead
    BY <1>6 DEF ReadsHead, HasHead, Calling
  <1> QED
    BY <1>1, <1>2, <1>3, <1>4, <1>5, <1>6, CallEffects DEF Dropped, CutOff, Returned

(* The answer that a call has: Answered is preserved. *)
LEMMA AnsweredStep ==
    TypeOK /\ Sending /\ Calling /\ Answered /\ [Next]_vars => Answered'
  <1> SUFFICES ASSUME TypeOK, Sending, Calling, Answered, [Next]_vars PROVE Answered'
    OBVIOUS
  <1>0. /\ MaxRequests \in Nat /\ Calls = 1..MaxRequests /\ n \in Nat
        /\ DOMAIN status = Calls /\ DOMAIN answer = Calls
        /\ \A k \in Calls : answer[k] \in Nat
        /\ pc # "idle" => n \in Calls /\ status[n] = "none"
        /\ \A k \in Calls : k > n => status[k] = "none"
    BY Basics DEF TypeOK, Calling
  <1>1. CASE Untouched
    BY <1>1 DEF Untouched, Answered
  <1>2. CASE Request
    BY <1>0, <1>2 DEF Request, Answered
  <1>3. CASE RequestRejected
    BY <1>0, <1>3 DEF RequestRejected, Answered
  <1>4. CASE WriteRequest
    BY <1>4 DEF WriteRequest, Answered
  <1>5. CASE Dropped \/ CutOff
    BY <1>0, <1>5 DEF Dropped, CutOff, Ends, Answered
  <1>6. ASSUME NEW j \in 1..n, Returned(j) PROVE Answered'
    BY <1>0, <1>6 DEF Returned, Ends, Answered
  <1>7. CASE ReadsHead
    BY <1>0, <1>7 DEF ReadsHead, Answered
  <1>8. CASE HasHead
    BY <1>0, <1>8 DEF HasHead, Answered
  <1> QED
    BY <1>1, <1>2, <1>3, <1>4, <1>5, <1>6, <1>7, <1>8, CallEffects

(* What a call that has returned has returned does not change. *)
LEMMA Settled ==
    ASSUME TypeOK, Sending, Calling, Answered, [Next]_vars, NEW j \in Calls, status[j] # "none"
    PROVE  /\ status'[j] = status[j] /\ answer'[j] = answer[j]
           /\ status[j] = "ok" => reply'[answer[j]] = reply[answer[j]]
  <1>0. /\ MaxRequests \in Nat /\ Calls = 1..MaxRequests /\ n \in Nat
        /\ DOMAIN status = Calls /\ DOMAIN answer = Calls /\ answer[j] \in Nat
        /\ pc # "idle" => n \in Calls /\ status[n] = "none"
        /\ \A k \in Calls : k > n => status[k] = "none"
        /\ status[j] = "ok" => (answer[j] = n => pc # "write")
    BY Basics DEF TypeOK, Calling, Answered
  <1> DEFINE Same == /\ status'[j] = status[j] /\ answer'[j] = answer[j]
                     /\ status[j] = "ok" => reply'[answer[j]] = reply[answer[j]]
  <1>1. Same
    <2>1. CASE Untouched
      BY <2>1 DEF Untouched
    <2>2. CASE Request
      BY <2>2 DEF Request, serverVars
    <2>3. CASE RequestRejected
      BY <1>0, <2>3 DEF RequestRejected, serverVars
    <2>4. CASE WriteRequest
      <3>1. status[j] = "ok" => answer[j] \in Calls /\ answer[j] # n
        BY <1>0, <2>4, Basics DEF WriteRequest, Answered
      <3> QED
        BY <2>4, <3>1, WriteEffect DEF WriteRequest
    <2>5. CASE Dropped \/ CutOff
      BY <1>0, <2>5 DEF Dropped, CutOff, Ends
    <2>6. CASE ReadsHead \/ HasHead
      BY <1>0, <2>6 DEF ReadsHead, HasHead
    <2>7. ASSUME NEW i \in 1..n, Returned(i) PROVE Same
      BY <1>0, <2>7 DEF Returned, Ends
    <2> QED
      BY <2>1, <2>2, <2>3, <2>4, <2>5, <2>6, <2>7, CallEffects
  <1> QED
    BY <1>1

(* The reuse of connections: Reusable is preserved. *)
LEMMA ReusableStep ==
    ASSUME TypeOK, Sending, Calling, Answered, [Next]_vars, NEW j \in Calls, Reusable(j)
    PROVE  Reusable(j)'
  <1>1. status[j] # "none"
    BY DEF Reusable
  <1> QED
    BY <1>1, Settled DEF Reusable

(* What the pool holds: Pooled is preserved. *)
LEMMA PooledStep == ReuseInv /\ [Next]_vars => Pooled'
  <1> SUFFICES ASSUME ReuseInv, [Next]_vars PROVE Pooled'
    OBVIOUS
  <1> USE DEF ReuseInv
  <1>0. /\ MaxRequests \in Nat /\ Calls = 1..MaxRequests /\ n \in Nat /\ opened \in Nat /\ pool \in Nat
        /\ DOMAIN status = Calls /\ DOMAIN answer = Calls /\ DOMAIN used = Calls
        /\ \A k \in Calls : used[k] \in Nat /\ used[k] <= opened /\ (k > n => used[k] = 0)
        /\ pc # "idle" => n \in Calls /\ used[n] # 0 /\ pool = 0
    BY Basics DEF TypeOK, Calling
  <1>1. \A j \in Calls : Reusable(j) => Reusable(j)'
    BY ReusableStep
  <1>2. /\ pool # 0 => \A j \in Calls : used[j] = pool => Reusable(j)
        /\ \A k, j \in Calls : j < k /\ used[j] = used[k] /\ used[j] # 0 => Reusable(j)
    BY DEF Pooled, ReusedWhenAllowed, Reusable
  <1> DEFINE Goal == /\ pool' # 0 => \A j \in Calls : used'[j] = pool' => Reusable(j)'
                     /\ \A k, j \in Calls : j < k /\ used'[j] = used'[k] /\ used'[j] # 0 => Reusable(j)'
  <1>3. SUFFICES Goal
    BY DEF Pooled, ReusedWhenAllowed, Reusable
  <1>4. ASSUME UNCHANGED <<used, pool>> PROVE Goal
    BY <1>1, <1>2, <1>4
  <1>5. CASE Request
    <2>1. PICK c \in Conns :
              /\ c = (IF pool # 0 THEN pool ELSE opened + 1) /\ pool' = 0
              /\ used' = [used EXCEPT ![n + 1] = c] /\ n + 1 \in Calls /\ DOMAIN used = Calls
      BY <1>5, RequestEffect
    <2>2. \A k \in Calls : used'[k] = IF k = n + 1 THEN c ELSE used[k]
      BY <2>1
    <2>3. \A j \in Calls : used[j] = c => Reusable(j)
      BY <1>0, <1>2, <2>1
    <2>4. ASSUME NEW k \in Calls, NEW j \in Calls, j < k, used'[j] = used'[k], used'[j] # 0 PROVE Reusable(j)
      <3>1. CASE k = n + 1
        BY <1>0, <2>2, <2>3, <2>4, <3>1
      <3>2. CASE k # n + 1 /\ j # n + 1
        BY <1>2, <2>2, <2>4, <3>2
      <3>3. CASE j = n + 1
        BY <1>0, <2>1, <2>2, <2>4, <3>3
      <3> QED
        BY <3>1, <3>2, <3>3
    <2> QED
      BY <1>1, <2>1, <2>4
  <1>6. CASE RequestRejected \/ WriteRequest \/ Untouched \/ ReadsHead \/ HasHead \/ Dropped
    BY <1>4, <1>6 DEF RequestRejected, WriteRequest, Untouched, ReadsHead, HasHead, Dropped, Ends
  <1>7. ASSUME Ends("ok") \/ Ends("truncated") \/ Ends("stray"), pool' = pool \/ (pool' = used[n] /\ Reusable(n)')
        PROVE  Goal
    <2>1. UNCHANGED <<used, n>> /\ n \in Calls /\ used[n] # 0
      BY <1>0, <1>7 DEF Ends
    <2>2. ASSUME NEW j \in Calls, used[j] = used[n], pool' = used[n], Reusable(n)' PROVE Reusable(j)'
      BY <1>0, <1>1, <1>2, <2>1, <2>2
    <2> QED
      BY <1>1, <1>2, <1>7, <2>1, <2>2
  <1>8. CASE CutOff
    <2>1. Reusable(n)'
      BY <1>0, <1>8 DEF CutOff, Ends, Reusable
    <2> QED
      BY <1>7, <1>8, <2>1 DEF CutOff
  <1>9. ASSUME NEW j \in 1..n, Returned(j) PROVE Goal
    <2>1. Allows(reply[j]) => Reusable(n)'
      BY <1>0, <1>9 DEF Returned, Ends, Reusable
    <2> QED
      BY <1>7, <1>9, <2>1 DEF Returned
  <1> QED
    BY <1>4, <1>5, <1>6, <1>8, <1>9, CallEffects

(* Who reads bodies: Reading is preserved. *)
LEMMA ReadingStep ==
    TypeOK /\ Sending /\ Calling /\ Reading /\ Answered /\ [Next]_vars => Reading'
  <1> SUFFICES ASSUME TypeOK, Sending, Calling, Reading, Answered, [Next]_vars PROVE Reading'
    OBVIOUS
  <1> USE DEF Streaming, callVars, bodyVars, serverVars
  <1>0. DOMAIN body = Calls /\ (pc # "idle" => n \in Calls /\ used[n] # 0)
    BY Basics DEF TypeOK, Calling
  <1>11. \A k \in Calls : Streaming(k) => used[k] # 0 /\ status[k] = "ok" /\ status'[k] = "ok"
    BY Settled DEF Reading
  <1>1. ASSUME UNCHANGED <<used, body>> PROVE Reading'
    BY <1>11, <1>1 DEF Reading
  <1>2. CASE Request
    <2>1. PICK c \in Conns : used' = [used EXCEPT ![n + 1] = c] /\ DOMAIN used = Calls
      BY <1>2, RequestEffect
    <2>2. c # 0 /\ UNCHANGED body
      BY <1>2, Basics DEF Request
    <2> QED
      BY <1>11, <2>1, <2>2 DEF Reading
  <1>3. ASSUME NEW j, NEW framing, Return(j, framing), pc # "idle", UNCHANGED used PROVE Reading'
    <2>1. body' = [body EXCEPT ![n] = BodyKind(reply[j].conn, framing)] /\ status' = [status EXCEPT ![n] = "ok"]
      BY <1>3 DEF Return
    <2>2. DOMAIN status = Calls
      BY DEF TypeOK
    <2> QED
      BY <1>0, <1>11, <1>3, <2>1, <2>2 DEF Reading
  <1>4. CASE ParsePiece
    BY <1>1, <1>3, <1>4 DEF ParsePiece
  <1>5. CASE BufferBody
    BY <1>3, <1>5 DEF BufferBody
  <1>6. ASSUME NEW k \in Calls, BodyDone(k) \/ BodyAbandoned(k) PROVE Reading'
    BY <1>0, <1>11, <1>6 DEF BodyDone, BodyAbandoned, LetGo, Reading
  <1>7. ASSUME NEW k \in Calls, IntoUpgraded(k) PROVE Reading'
    BY <1>0, <1>11, <1>7 DEF IntoUpgraded, Reading
  <1>8. ASSUME NEW k \in Calls \cup {n}, BodyPiece(k) \/ Fill(k) PROVE Reading'
    BY <1>1, <1>8 DEF BodyPiece, Fill
  <1>9. CASE RequestRejected \/ WriteInvalid \/ WriteRequest \/ WriteFails \/ ParseEof \/ Idle \/ UNCHANGED vars
    BY <1>1, <1>9 DEF RequestRejected, WriteInvalid, WriteRequest, WriteFails, ParseEof, Idle, vars
  <1>10. ASSUME NEW c \in Conns, ServerSend(c) \/ ServerClose(c) PROVE Reading'
    BY <1>1, <1>10 DEF ServerSend, ServerClose
  <1> QED
    BY <1>2, <1>4, <1>5, <1>6, <1>7, <1>8, <1>9, <1>10 DEF Next, CallStep, BodyStep

(* What is on its way: Sending is preserved. *)
LEMMA SendingStep ==
    TypeOK /\ Sending /\ Calling /\ Reading /\ Answered /\ [Next]_vars => Sending'
  <1> SUFFICES ASSUME TypeOK, Sending, Calling, Reading, Answered, [Next]_vars PROVE Sending'
    OBVIOUS
  <1> USE DEF callVars, bodyVars, serverVars
  <1>0. PICK T : T = SentPieces' /\ SentPieces \subseteq T
    BY PiecesGrow
  <1>1. /\ todo \in [Conns -> Seq(T)] /\ socket \in [Conns -> Seq(T)] /\ buf \in [Calls -> Seq(T)]
    <2>1. \A s \in Seq(SentPieces) : s \in Seq(T)
      BY <1>0, SeqGrows
    <2> QED
      BY <2>1 DEF Sending
  <1>2. pc # "idle" => n \in Calls /\ used[n] \in Conns
    BY Basics
  <1> DEFINE Goal == todo' \in [Conns -> Seq(T)] /\ socket' \in [Conns -> Seq(T)] /\ buf' \in [Calls -> Seq(T)]
  <1>3. SUFFICES Goal
    BY <1>0 DEF Sending
  <1>4. ASSUME UNCHANGED <<todo, socket, buf>> PROVE Goal
    BY <1>1, <1>4
  <1>5. << >> \in Seq(T) /\ \A s \in Seq(T) : s # << >> => Tail(s) \in Seq(T) /\ Head(s) \in T
    OBVIOUS
  <1>6. CASE WriteRequest
    <2>0. pc' = "parse" /\ n' = n /\ UNCHANGED <<socket, buf>>
      BY <1>6 DEF WriteRequest
    <2>1. CASE UNCHANGED todo
      BY <1>1, <2>0, <2>1
    <2>2. ASSUME NEW r \in Replies, reply' = [reply EXCEPT ![n] = r],
                 todo' = [todo EXCEPT ![used[n]] = @ \o Answer(n, r)]
          PROVE  Goal
      <3>1. n \in Calls /\ used[n] \in Conns /\ r \in ReplyRecords /\ n \in Nat
        BY <1>2, <1>6, ClientAssumption, Basics DEF WriteRequest
      <3>2. reply'[n] = r
        BY <2>2, <3>1 DEF TypeOK
      <3>3. AnswerPieces(n, r) \subseteq T
        BY <1>0, <2>0, <3>1, <3>2 DEF AnswerPieces, SentPieces
      <3>4. PICK a \in Seq(T) : a = Answer(n, r)
        <4>1. Answer(n, r) \in Seq(AnswerPieces(n, r))
          BY <3>1, AnswerShape
        <4>2. Answer(n, r) \in Seq(T)
          BY <3>3, <4>1, SeqGrows
        <4> QED
          BY <4>2
      <3>5. todo[used[n]] \o a \in Seq(T)
        BY <1>1, <3>1, <3>4
      <3>6. todo' \in [Conns -> Seq(T)]
        BY <1>1, <2>2, <3>1, <3>4, <3>5
      <3> QED
        BY <1>1, <2>0, <3>6
    <2> QED
      BY <1>6, <2>1, <2>2, WriteEffect
  <1>7. ASSUME NEW k \in Calls, Fill(k) PROVE Goal
    <2>1. used[k] \in Conns
      <3>1. used[k] # 0 => used[k] \in Conns
        BY Basics DEF TypeOK
      <3> QED
        BY <1>2, <1>7, <3>1 DEF Fill, Reads, Reading, Streaming
    <2>2. socket[used[k]] \in Seq(T)
      BY <1>1, <2>1
    <2> QED
      BY <1>1, <1>5, <1>7, <2>1, <2>2 DEF Fill
  <1>8. ASSUME n > 0, Fill(n) PROVE Goal
    <2>1. n \in Calls
      BY <1>8, Basics
    <2> QED
      BY <1>7, <1>8, <2>1
  <1>9. ASSUME NEW k \in Calls, UNCHANGED <<todo, socket>>, buf[k] # << >> \/ buf'[k] = << >>,
               \/ buf' = [buf EXCEPT ![k] = Tail(@)]
               \/ buf' = [buf EXCEPT ![k] = << >>]
        PROVE  Goal
    <2>1. CASE buf' = [buf EXCEPT ![k] = << >>]
      BY <1>1, <1>5, <1>9, <2>1
    <2>2. CASE buf' = [buf EXCEPT ![k] = Tail(@)] /\ buf[k] # << >>
      BY <1>1, <1>5, <1>9, <2>2
    <2>3. CASE buf' = [buf EXCEPT ![k] = Tail(@)] /\ buf'[k] = << >>
      <3>1. buf' = [buf EXCEPT ![k] = << >>]
        BY <1>1, <2>3
      <3> QED
        BY <2>1, <3>1
    <2> QED
      BY <1>9, <2>1, <2>2, <2>3
  <1>10. ASSUME NEW j, NEW framing, Return(j, framing), n \in Calls, buf[n] # << >>, UNCHANGED <<todo, socket>>
         PROVE  Goal
    <2>1. buf' = [buf EXCEPT ![n] = Tail(@)] \/ buf' = [buf EXCEPT ![n] = << >>]
      BY <1>10 DEF Return
    <2> QED
      BY <1>9, <1>10, <2>1
  <1>11. CASE ParsePiece
    <2>1. n \in Calls /\ buf[n] # << >> /\ UNCHANGED <<todo, socket>>
      BY <1>2, <1>11 DEF ParsePiece
    <2>2. Consume(n) \/ Return(NextPiece(n).k, NextPiece(n).f)
      BY <1>11 DEF ParsePiece, ParseLoose
    <2> QED
      BY <1>9, <1>10, <2>1, <2>2 DEF Consume
  <1>12. CASE BufferBody
    BY <1>2, <1>10, <1>12 DEF BufferBody
  <1>13. ASSUME NEW k \in Calls, BodyPiece(k) PROVE Goal
    BY <1>9, <1>13 DEF BodyPiece, Consume
  <1>14. ASSUME NEW k \in Calls, BodyDone(k) \/ BodyAbandoned(k) PROVE Goal
    <2>1. buf' = [buf EXCEPT ![k] = << >>] /\ UNCHANGED <<todo, socket>>
      BY <1>14 DEF BodyDone, BodyAbandoned, LetGo
    <2> QED
      BY <1>1, <1>5, <2>1
  <1>15. ASSUME NEW c \in Conns, ServerSend(c) PROVE Goal
    <2>1. todo[c] \in Seq(T) /\ todo[c] # << >> /\ socket[c] \in Seq(T)
      BY <1>1, <1>15 DEF ServerSend
    <2>2. Tail(todo[c]) \in Seq(T) /\ Append(socket[c], Head(todo[c])) \in Seq(T)
      BY <1>5, <2>1
    <2>3. todo' \in [Conns -> Seq(T)]
      BY <1>1, <1>15, <2>2 DEF ServerSend
    <2>4. socket' \in [Conns -> Seq(T)]
      BY <1>1, <1>15, <2>2 DEF ServerSend
    <2> QED
      BY <1>1, <1>15, <2>3, <2>4 DEF ServerSend
  <1>16. ASSUME NEW c \in Conns, ServerClose(c) PROVE Goal
    BY <1>1, <1>5, <1>16 DEF ServerClose
  <1>17. CASE Request \/ RequestRejected \/ WriteInvalid \/ WriteFails \/ ParseEof \/ Idle \/ UNCHANGED vars
    BY <1>4, <1>17 DEF Request, RequestRejected, WriteInvalid, WriteFails, ParseEof, Idle, vars
  <1>18. ASSUME NEW k \in Calls, IntoUpgraded(k) PROVE Goal
    BY <1>4, <1>18 DEF IntoUpgraded
  <1> QED
    BY <1>6, <1>7, <1>8, <1>11, <1>12, <1>13, <1>14, <1>15, <1>16, <1>17, <1>18 DEF Next, CallStep, BodyStep

-----------------------------------------------------------------------------
(* The types. *)
LEMMA CallTypes ==
    ASSUME TypeOK, Sending, Calling, Answered, [Next]_vars
    PROVE  /\ n' \in 0..MaxRequests /\ opened' \in 0..MaxRequests /\ pool' \in 0..opened'
           /\ pc' \in {"idle", "write", "parse", "small"}
           /\ used' \in [Calls -> 0..MaxRequests] /\ answer' \in [Calls -> 0..MaxRequests]
           /\ status' \in [Calls -> {"none", "invalid", "failed", "ok", "truncated", "stray"}]
           /\ reply' \in [Calls -> Replies \cup {NoReply}]
  <1> DEFINE Goal ==
        /\ n' \in 0..MaxRequests /\ opened' \in 0..MaxRequests /\ pool' \in 0..opened'
        /\ pc' \in {"idle", "write", "parse", "small"}
        /\ used' \in [Calls -> 0..MaxRequests] /\ answer' \in [Calls -> 0..MaxRequests]
        /\ status' \in [Calls -> {"none", "invalid", "failed", "ok", "truncated", "stray"}]
        /\ reply' \in [Calls -> Replies \cup {NoReply}]
  <1>0. /\ MaxRequests \in Nat /\ n \in 0..MaxRequests /\ opened \in 0..MaxRequests /\ pool \in 0..opened
        /\ pc \in {"idle", "write", "parse", "small"}
        /\ used \in [Calls -> 0..MaxRequests] /\ answer \in [Calls -> 0..MaxRequests]
        /\ status \in [Calls -> {"none", "invalid", "failed", "ok", "truncated", "stray"}]
        /\ reply \in [Calls -> Replies \cup {NoReply}]
        /\ pc # "idle" => n \in Calls /\ used[n] \in 0..opened
        /\ Calls = 1..MaxRequests /\ Conns = 1..MaxRequests
        /\ \A j \in 1..n : j \in 0..MaxRequests
    BY Basics DEF TypeOK, Calling
  <1>1. CASE Untouched
    BY <1>0, <1>1 DEF Untouched
  <1>2. CASE Request
    <2>1. PICK c \in Conns :
              /\ pool' = 0 /\ opened' = (IF pool # 0 THEN opened ELSE opened + 1)
              /\ used' = [used EXCEPT ![n + 1] = c] /\ n + 1 \in Calls
              /\ n' = n + 1 /\ pc' = "write" /\ UNCHANGED <<status, answer, buf, serverVars>>
      BY <1>2, RequestEffect
    <2>2. opened' \in 0..MaxRequests /\ c \in 0..MaxRequests /\ n' \in 0..MaxRequests /\ pool' \in 0..opened'
      BY <1>0, <2>1, Basics
    <2>3. used' \in [Calls -> 0..MaxRequests]
      BY <1>0, <2>1, <2>2
    <2> QED
      BY <1>0, <2>1, <2>2, <2>3 DEF serverVars
  <1>3. CASE RequestRejected
    BY <1>0, <1>3 DEF RequestRejected, serverVars
  <1>4. CASE WriteRequest
    <2>1. reply' \in [Calls -> Replies \cup {NoReply}]
      BY <1>0, <1>4, WriteEffect
    <2> QED
      BY <1>0, <1>4, <2>1 DEF WriteRequest
  <1>5. ASSUME NEW how \in {"invalid", "failed", "ok", "truncated", "stray"}, Ends(how),
               pool' = pool \/ pool' = used[n], answer' \in [Calls -> 0..MaxRequests]
        PROVE  Goal
    <2>1. status' \in [Calls -> {"none", "invalid", "failed", "ok", "truncated", "stray"}]
      BY <1>0, <1>5 DEF Ends
    <2> QED
      BY <1>0, <1>5, <2>1 DEF Ends
  <1>6. CASE Dropped \/ CutOff
    BY <1>0, <1>5, <1>6 DEF Dropped, CutOff
  <1>7. ASSUME NEW j \in 1..n, Returned(j) PROVE Goal
    <2>1. answer' \in [Calls -> 0..MaxRequests]
      BY <1>0, <1>7 DEF Returned
    <2> QED
      BY <1>5, <1>7, <2>1 DEF Returned
  <1>8. CASE ReadsHead \/ HasHead
    <2>1. answer' \in [Calls -> 0..MaxRequests]
      BY <1>0, <1>8 DEF ReadsHead, HasHead
    <2> QED
      BY <1>0, <1>8, <2>1 DEF ReadsHead, HasHead
  <1> QED
    BY <1>1, <1>2, <1>3, <1>4, <1>6, <1>7, <1>8, CallEffects

Kinds == {"none", "Reader", "Iter", "Rest", "Extension", "Upgraded"}

(* Every framing gives a kind of body. *)
LEMMA KindType == ASSUME NEW conn, NEW framing PROVE BodyKind(conn, framing) \in Kinds
  BY DEF BodyKind, Kinds

(* The bodies, and what is at the other end. *)
OtherTypes ==
    /\ got \in {"nothing", "blank", "line", "junk"}
    /\ body \in [Calls -> Kinds] /\ left \in [Calls -> 0..2]
    /\ ending \in [Calls -> {"none", "whole", "abandoned"}]
    /\ shared \subseteq Calls /\ link \in [Conns -> {"open", "closed", "cut"}]

(* The type invariant is preserved. *)
LEMMA TypeStep ==
    TypeOK /\ Sending /\ Calling /\ Answered /\ [Next]_vars => TypeOK'
  <1> SUFFICES ASSUME TypeOK, Sending, Calling, Answered, [Next]_vars PROVE TypeOK'
    OBVIOUS
  <1> USE DEF callVars, bodyVars, serverVars
  <1>0. /\ got \in {"nothing", "blank", "line", "junk"}
        /\ body \in [Calls -> Kinds] /\ left \in [Calls -> 0..2]
        /\ ending \in [Calls -> {"none", "whole", "abandoned"}]
        /\ shared \subseteq Calls /\ link \in [Conns -> {"open", "closed", "cut"}]
    BY DEF TypeOK, Kinds
  <1>1. SUFFICES OtherTypes'
    BY CallTypes DEF OtherTypes, TypeOK, Kinds
  <1>2. ASSUME got' \in {"nothing", "blank", "line", "junk"}, UNCHANGED <<body, left, ending, shared, link>>
        PROVE  OtherTypes'
    BY <1>0, <1>2 DEF OtherTypes
  <1>3. ASSUME NEW j, NEW framing, Return(j, framing), ending' \in [Calls -> {"none", "whole", "abandoned"}],
               UNCHANGED <<shared, link>>
        PROVE  OtherTypes'
    <2>1. BodyKind(reply[j].conn, framing) \in Kinds
      BY KindType
    <2>2. body' \in [Calls -> Kinds]
      BY <1>0, <1>3, <2>1 DEF Return
    <2>3. left' \in [Calls -> 0..2]
      <3>1. left' = [left EXCEPT ![n] = 2] \/ left' = [left EXCEPT ![n] = 1]
        BY <1>3 DEF Return
      <3> QED
        BY <1>0, <3>1
    <2> QED
      BY <1>0, <1>3, <2>2, <2>3 DEF OtherTypes, Return
  <1>4. CASE Request
    <2>1. shared' \subseteq Calls
      <3>1. n + 1 \in Calls
        BY <1>4, RequestEffect
      <3>2. \E c : Use(n + 1, c)
        BY <1>4 DEF Request
      <3> QED
        BY <1>0, <3>1, <3>2 DEF Use
    <2> QED
      BY <1>0, <1>4, <2>1 DEF Request, OtherTypes
  <1>5. CASE RequestRejected \/ WriteInvalid \/ WriteRequest \/ Idle \/ UNCHANGED vars
    BY <1>0, <1>2, <1>5 DEF RequestRejected, WriteInvalid, WriteRequest, Idle, vars
  <1>6. CASE WriteFails \/ ParseEof
    BY <1>2, <1>6 DEF WriteFails, ParseEof, Fail
  <1>7. CASE ParsePiece
    <2>1. UNCHANGED <<ending, shared, link>>
      BY <1>7 DEF ParsePiece
    <2>2. CASE got' = HeadAfter(got, NextPiece(n).t) /\ UNCHANGED <<body, left>>
      BY <1>2, <2>1, <2>2 DEF HeadAfter
    <2>3. CASE got' = "nothing" /\ UNCHANGED <<body, left>>
      BY <1>2, <2>1, <2>3
    <2>4. CASE UNCHANGED <<got, body, left>>
      BY <1>0, <1>2, <2>1, <2>4
    <2>5. CASE Return(NextPiece(n).k, NextPiece(n).f)
      BY <1>0, <1>3, <2>1, <2>5
    <2> QED
      BY <1>7, <2>2, <2>3, <2>4, <2>5 DEF ParsePiece, ParseLoose, Fail
  <1>8. CASE BufferBody
    <2>1. ending' \in [Calls -> {"none", "whole", "abandoned"}]
      BY <1>0, <1>8 DEF BufferBody
    <2> QED
      BY <1>3, <1>8, <2>1 DEF BufferBody
  <1>9. ASSUME NEW k \in Calls, BodyPiece(k) PROVE OtherTypes'
    <2>1. left[k] \in 0..2 /\ left[k] > 0
      BY <1>0, <1>9 DEF BodyPiece
    <2>2. PICK m \in 0..2 : left' = [left EXCEPT ![k] = m]
      <3>1. left[k] - 1 \in 0..2 /\ 0 \in 0..2
        BY <2>1
      <3> QED
        BY <1>9, <2>1, <3>1 DEF BodyPiece
    <2>3. left' \in [Calls -> 0..2]
      BY <1>0, <2>2
    <2> QED
      BY <1>0, <1>9, <2>3 DEF BodyPiece, OtherTypes
  <1>10. ASSUME NEW k \in Calls, BodyDone(k) \/ BodyAbandoned(k) PROVE OtherTypes'
    BY <1>0, <1>10 DEF BodyDone, BodyAbandoned, LetGo, OtherTypes, Kinds
  <1>11. ASSUME NEW k \in Calls, IntoUpgraded(k) PROVE OtherTypes'
    BY <1>0, <1>11 DEF IntoUpgraded, OtherTypes, Kinds
  <1>12. ASSUME NEW k, Fill(k) PROVE OtherTypes'
    BY <1>0, <1>2, <1>12 DEF Fill
  <1>13. ASSUME NEW c \in Conns, ServerSend(c) \/ ServerClose(c) PROVE OtherTypes'
    BY <1>0, <1>13 DEF ServerSend, ServerClose, OtherTypes
  <1> QED
    BY <1>4, <1>5, <1>6, <1>7, <1>8, <1>9, <1>10, <1>11, <1>12, <1>13 DEF Next, CallStep, BodyStep

-----------------------------------------------------------------------------
(* ReuseInv holds at the beginning. *)
LEMMA InitReuse == Init => ReuseInv
  <1> SUFFICES ASSUME Init PROVE ReuseInv
    OBVIOUS
  <1> USE DEF Init
  <1>0. MaxRequests \in Nat /\ Calls = 1..MaxRequests /\ Conns = 1..MaxRequests
    BY ClientAssumption DEF Calls, Conns
  <1>1. TypeOK
    BY <1>0 DEF TypeOK
  <1>2. Sending
    <2>1. << >> \in Seq(SentPieces)
      OBVIOUS
    <2> QED
      BY <2>1 DEF Sending
  <1>3. Calling /\ Reading /\ Answered
    BY <1>0 DEF Calling, Reading, Streaming, Answered
  <1>4. Pooled
    BY <1>0 DEF Pooled, ReusedWhenAllowed
  <1> QED
    BY <1>1, <1>2, <1>3, <1>4 DEF ReuseInv

(* What a call of request() holds at every place, and that the pool has a   *)
(* connection only after a response that allows it.                         *)
THEOREM ReuseInvHolds == Spec => []ReuseInv
  <1>1. ReuseInv /\ [Next]_vars => ReuseInv'
    BY TypeStep, SendingStep, CallingStep, ReadingStep, AnsweredStep, PooledStep DEF ReuseInv
  <1> QED
    BY <1>1, InitReuse, PTL DEF Spec

(* Every variable keeps its type, for any number of calls. *)
THEOREM TypeCorrect == Spec => []TypeOK
  BY ReuseInvHolds, PTL DEF ReuseInv

(* A connection goes back to the pool, and to another call, only after a    *)
(* response that allows it (src/src/client.rs, request and send_request).   *)
THEOREM ConnectionsReused == Spec => []ReusedWhenAllowed
  BY ReuseInvHolds, PTL DEF ReuseInv, Pooled

-----------------------------------------------------------------------------
(* Heads among pieces. *)
LEMMA NothingNoHead ==
    ASSUME NEW k
    PROVE  NoHead(<< >>) /\ OneHead(<< >>) /\ HeadsOf(<< >>, k)
  <1>1. Len(<< >>) = 0
    OBVIOUS
  <1>2. 1..Len(<< >>) = {}
    BY <1>1
  <1> QED
    BY <1>2, Zenon DEF NoHead, OneHead, HeadsOf

(* Without a head, whatever is said of heads holds. *)
LEMMA NoHeadAny ==
    ASSUME NEW s, NEW k, NoHead(s)
    PROVE  OneHead(s) /\ HeadsOf(s, k)
  BY DEF NoHead, OneHead, HeadsOf

(* Taking the first piece leaves at most the same heads. *)
LEMMA TailHeads ==
    ASSUME NEW S, NEW s \in Seq(S), s # << >>, NEW k
    PROVE  /\ NoHead(s) => NoHead(Tail(s))
           /\ OneHead(s) => OneHead(Tail(s))
           /\ HeadsOf(s, k) => HeadsOf(Tail(s), k)
           /\ OneHead(s) /\ Head(s).t = "fields" => NoHead(Tail(s))
           /\ Head(s).t = "fields" => ~NoHead(s)
           /\ HeadsOf(s, k) /\ Head(s).t = "fields" => Head(s).k = k
  <1>0. Tail(s) \in Seq(S)
    OBVIOUS
  <1>1. PICK u \in Seq(S) : u = Tail(s)
    BY <1>0
  <1>2. Len(s) \in Nat /\ Len(s) >= 1 /\ 1 \in 1..Len(s) /\ Head(s) = s[1]
    OBVIOUS
  <1>3. Len(u) = Len(s) - 1 /\ \A i \in 1..Len(u) : u[i] = s[i + 1] /\ i + 1 \in 1..Len(s)
    BY <1>1
  <1>4. /\ NoHead(s) => NoHead(u)
        /\ HeadsOf(s, k) => HeadsOf(u, k)
        /\ Head(s).t = "fields" => ~NoHead(s)
        /\ HeadsOf(s, k) /\ Head(s).t = "fields" => Head(s).k = k
    BY <1>2, <1>3 DEF NoHead, HeadsOf
  <1>5. ASSUME OneHead(s) PROVE OneHead(u)
    <2> SUFFICES ASSUME NEW i \in 1..Len(u), NEW j \in 1..Len(u), u[i].t = "fields", u[j].t = "fields" PROVE i = j
      BY DEF OneHead
    <2>1. i + 1 = j + 1
      BY <1>3, <1>5 DEF OneHead
    <2> QED
      BY <2>1
  <1>6. ASSUME OneHead(s), Head(s).t = "fields" PROVE NoHead(u)
    <2> SUFFICES ASSUME NEW i \in 1..Len(u), u[i].t = "fields" PROVE FALSE
      BY DEF NoHead
    <2>1. i + 1 = 1
      BY <1>2, <1>3, <1>6 DEF OneHead
    <2> QED
      BY <2>1
  <1> QED
    BY <1>1, <1>4, <1>5, <1>6

(* Adding a piece adds at most its own head. *)
LEMMA AppendHeads ==
    ASSUME NEW S, NEW s \in Seq(S), NEW e \in S, NEW k
    PROVE  /\ NoHead(s) => OneHead(Append(s, e))
           /\ HeadsOf(s, k) /\ (e.t = "fields" => e.k = k) => HeadsOf(Append(s, e), k)
           /\ OneHead(s) /\ e.t # "fields" => OneHead(Append(s, e))
           /\ NoHead(s) /\ e.t # "fields" => NoHead(Append(s, e))
  <1>0. Append(s, e) \in Seq(S)
    OBVIOUS
  <1>1. PICK u \in Seq(S) : u = Append(s, e)
    BY <1>0
  <1>2. Len(s) \in Nat /\ Len(u) = Len(s) + 1 /\ u[Len(s) + 1] = e /\ \A i \in 1..Len(s) : u[i] = s[i]
    BY <1>1
  <1>3. \A i \in 1..Len(u) : i = Len(s) + 1 \/ i \in 1..Len(s)
    BY <1>2
  <1> QED
    BY <1>1, <1>2, <1>3 DEF NoHead, OneHead, HeadsOf

(* Joining two sequences adds no head. *)
LEMMA ConcatHeads ==
    ASSUME NEW S, NEW s \in Seq(S), NEW a \in Seq(S), NEW k, NoHead(s)
    PROVE  /\ HeadsOf(a, k) => HeadsOf(s \o a, k)
           /\ OneHead(a) => OneHead(s \o a)
  <1>0. s \o a \in Seq(S)
    OBVIOUS
  <1>1. PICK u \in Seq(S) : u = s \o a
    BY <1>0
  <1>2. /\ \A i \in 1..Len(s) : u[i] = s[i]
        /\ \A i \in 1..Len(u) : i > Len(s) => i - Len(s) \in 1..Len(a) /\ u[i] = a[i - Len(s)]
    BY <1>1, Located
  <1>3. \A i \in 1..Len(u) : i > Len(s) \/ i \in 1..Len(s)
    OBVIOUS
  <1>4. \A i \in 1..Len(u) : u[i].t = "fields" => i - Len(s) \in 1..Len(a) /\ u[i] = a[i - Len(s)]
    BY <1>2, <1>3 DEF NoHead
  <1>5. HeadsOf(a, k) => HeadsOf(u, k)
    BY <1>4 DEF HeadsOf
  <1>6. ASSUME OneHead(a) PROVE OneHead(u)
    <2> SUFFICES ASSUME NEW i \in 1..Len(u), NEW j \in 1..Len(u), u[i].t = "fields", u[j].t = "fields" PROVE i = j
      BY DEF OneHead
    <2>1. i - Len(s) = j - Len(s)
      BY <1>4, <1>6 DEF OneHead
    <2> QED
      BY <2>1
  <1> QED
    BY <1>1, <1>5, <1>6

(* How the pieces move: what is in front is taken, all is thrown away or    *)
(* lost, a buffer is filled, or the server sends a piece.                   *)
Shorter(x, y) == y = x \/ y = << >> \/ (x # << >> /\ y = Tail(x))

(* A shorter sequence has at most the same heads. *)
LEMMA ShorterHeads ==
    ASSUME NEW S, NEW x \in Seq(S), NEW y, Shorter(x, y), NEW k
    PROVE  (NoHead(x) => NoHead(y)) /\ (OneHead(x) => OneHead(y)) /\ (HeadsOf(x, k) => HeadsOf(y, k))
  <1>1. CASE y = x
    BY <1>1, Zenon
  <1>2. CASE y = << >>
    BY <1>2, NothingNoHead, Zenon
  <1>3. CASE x # << >> /\ y = Tail(x)
    BY <1>3, TailHeads, Zenon
  <1> QED
    BY <1>1, <1>2, <1>3 DEF Shorter

Moved(b, s, t, b2, s2, t2) ==
    \/ Shorter(b, b2) /\ Shorter(s, s2) /\ Shorter(t, t2)
    \/ b = << >> /\ b2 = s /\ s2 = << >> /\ t2 = t
    \/ b2 = b /\ t # << >> /\ s2 = Append(s, Head(t)) /\ t2 = Tail(t)

(* Moving pieces towards the client adds no head. *)
LEMMA MovedHeads ==
    ASSUME NEW S, NEW b \in Seq(S), NEW s \in Seq(S), NEW t \in Seq(S), NEW b2, NEW s2, NEW t2, NEW k,
           Moved(b, s, t, b2, s2, t2)
    PROVE  /\ AllOf(b, s, t, k) => AllOf(b2, s2, t2, k)
           /\ Single(b, s, t) => Single(b2, s2, t2)
           /\ NoHead(s) /\ NoHead(t) => NoHead(s2) /\ NoHead(t2)
  <1> DEFINE Goal == /\ AllOf(b, s, t, k) => AllOf(b2, s2, t2, k)
                     /\ Single(b, s, t) => Single(b2, s2, t2)
                     /\ NoHead(s) /\ NoHead(t) => NoHead(s2) /\ NoHead(t2)
  <1>0. NoHead(<< >>) /\ OneHead(<< >>) /\ HeadsOf(<< >>, k)
    BY NothingNoHead
  <1>1. CASE Shorter(b, b2) /\ Shorter(s, s2) /\ Shorter(t, t2)
    <2>1. (NoHead(b) => NoHead(b2)) /\ (OneHead(b) => OneHead(b2)) /\ (HeadsOf(b, k) => HeadsOf(b2, k))
      BY <1>1, ShorterHeads
    <2>2. (NoHead(s) => NoHead(s2)) /\ (OneHead(s) => OneHead(s2)) /\ (HeadsOf(s, k) => HeadsOf(s2, k))
      BY <1>1, ShorterHeads
    <2>3. (NoHead(t) => NoHead(t2)) /\ (OneHead(t) => OneHead(t2)) /\ (HeadsOf(t, k) => HeadsOf(t2, k))
      BY <1>1, ShorterHeads
    <2> QED
      BY <2>1, <2>2, <2>3 DEF AllOf, Single
  <1>2. CASE b = << >> /\ b2 = s /\ s2 = << >> /\ t2 = t
    BY <1>0, <1>2 DEF AllOf, Single
  <1>3. CASE b2 = b /\ t # << >> /\ s2 = Append(s, Head(t)) /\ t2 = Tail(t)
    <2>0. PICK e \in S : e = Head(t)
      BY <1>3
    <2>1. /\ NoHead(t) => NoHead(t2)
          /\ OneHead(t) => OneHead(t2)
          /\ HeadsOf(t, k) => HeadsOf(t2, k)
          /\ OneHead(t) /\ e.t = "fields" => NoHead(t2)
          /\ e.t = "fields" => ~NoHead(t)
          /\ HeadsOf(t, k) /\ e.t = "fields" => e.k = k
      BY <1>3, <2>0, TailHeads
    <2>2. /\ NoHead(s) => OneHead(s2)
          /\ HeadsOf(s, k) /\ (e.t = "fields" => e.k = k) => HeadsOf(s2, k)
          /\ OneHead(s) /\ e.t # "fields" => OneHead(s2)
          /\ NoHead(s) /\ e.t # "fields" => NoHead(s2)
      BY <1>3, <2>0, AppendHeads
    <2> QED
      BY <1>3, <2>1, <2>2 DEF AllOf, Single
  <1> QED
    BY <1>1, <1>2, <1>3 DEF Moved

-----------------------------------------------------------------------------
(* What the steps do to the pieces, but for a request. *)
Fills(k) ==
    /\ buf[k] = << >> /\ Reads(k) /\ used[k] \in Conns
    /\ buf' = [buf EXCEPT ![k] = socket[used[k]]]
    /\ socket' = [socket EXCEPT ![used[k]] = << >>]
    /\ UNCHANGED <<todo, link>>

Empties ==
    /\ \A j \in Calls : Shorter(buf[j], buf'[j])
    /\ UNCHANGED <<socket, todo, link>>

(* The effects that a step can have on the streams. *)
LEMMA StreamEffects ==
    ReuseInv /\ [Next]_vars =>
        \/ WriteRequest \/ Empties
        \/ \E k \in Calls : Fills(k)
        \/ \E c \in Conns : ServerSend(c) \/ ServerClose(c)
  <1> SUFFICES ASSUME ReuseInv, [Next]_vars
               PROVE  \/ WriteRequest \/ Empties
                      \/ \E k \in Calls : Fills(k)
                      \/ \E c \in Conns : ServerSend(c) \/ ServerClose(c)
    OBVIOUS
  <1> USE DEF ReuseInv, callVars, bodyVars, serverVars
  <1>0. DOMAIN buf = Calls /\ (pc # "idle" => n \in Calls /\ used[n] \in Conns)
    BY Basics DEF Sending
  <1>1. ASSUME UNCHANGED <<buf, socket, todo, link>> PROVE Empties
    BY <1>1 DEF Empties, Shorter
  <1>2. ASSUME NEW k \in Calls, UNCHANGED <<socket, todo, link>>,
               \/ buf[k] # << >> /\ buf' = [buf EXCEPT ![k] = Tail(@)]
               \/ buf' = [buf EXCEPT ![k] = << >>]
        PROVE  Empties
    BY <1>0, <1>2 DEF Empties, Shorter
  <1>3. ASSUME NEW k \in Calls, Fill(k) PROVE Fills(k)
    <2>1. used[k] # 0 => used[k] \in Conns
      BY Basics DEF TypeOK
    <2>2. used[k] \in Conns
      BY <1>0, <1>3, <2>1 DEF Fill, Reads, Reading, Streaming
    <2> QED
      BY <1>3, <2>2 DEF Fill, Fills
  <1>4. n > 0 => n \in Calls
    BY Basics
  <1>5. ASSUME NEW j, NEW framing, Return(j, framing), n \in Calls, buf[n] # << >>, UNCHANGED <<todo, socket, link>>
        PROVE  Empties
    <2>1. buf' = [buf EXCEPT ![n] = Tail(@)] \/ buf' = [buf EXCEPT ![n] = << >>]
      BY <1>5 DEF Return
    <2> QED
      BY <1>2, <1>5, <2>1
  <1>6. CASE ParsePiece
    <2>1. n \in Calls /\ buf[n] # << >> /\ UNCHANGED <<todo, socket, link>>
      BY <1>0, <1>6 DEF ParsePiece
    <2>2. Consume(n) \/ Return(NextPiece(n).k, NextPiece(n).f)
      BY <1>6 DEF ParsePiece, ParseLoose
    <2> QED
      BY <1>2, <1>5, <2>1, <2>2 DEF Consume
  <1>7. CASE BufferBody
    BY <1>0, <1>5, <1>7 DEF BufferBody
  <1>8. ASSUME NEW k \in Calls, BodyPiece(k) PROVE Empties
    BY <1>2, <1>8 DEF BodyPiece, Consume
  <1>9. ASSUME NEW k \in Calls, BodyDone(k) \/ BodyAbandoned(k) PROVE Empties
    BY <1>2, <1>9 DEF BodyDone, BodyAbandoned, LetGo
  <1>10. CASE Request \/ RequestRejected \/ WriteInvalid \/ WriteFails \/ ParseEof \/ Idle \/ UNCHANGED vars
    BY <1>1, <1>10 DEF Request, RequestRejected, WriteInvalid, WriteFails, ParseEof, Idle, vars
  <1>11. ASSUME NEW k \in Calls, IntoUpgraded(k) PROVE Empties
    BY <1>1, <1>11 DEF IntoUpgraded
  <1> QED
    BY <1>3, <1>4, <1>6, <1>7, <1>8, <1>9, <1>10, <1>11 DEF Next, CallStep, BodyStep

(* The pieces on a connection, and those of a call. *)
LEMMA StreamMoves ==
    ASSUME ReuseInv, [Next]_vars, ~WriteRequest, NEW k \in Calls, used[k] \in Conns
    PROVE  Moved(buf[k], socket[used[k]], todo[used[k]], buf'[k], socket'[used[k]], todo'[used[k]])
  <1>0. DOMAIN buf = Calls /\ DOMAIN socket = Conns /\ DOMAIN todo = Conns
    BY DEF ReuseInv, Sending
  <1>1. CASE Empties
    BY <1>1 DEF Empties, Moved, Shorter
  <1>2. ASSUME NEW j \in Calls, Fills(j)
        PROVE  Moved(buf[k], socket[used[k]], todo[used[k]], buf'[k], socket'[used[k]], todo'[used[k]])
    <2>1. CASE j = k
      BY <1>0, <1>2, <2>1 DEF Fills, Moved
    <2>2. CASE j # k
      BY <1>0, <1>2, <2>2 DEF Fills, Moved, Shorter
    <2> QED
      BY <2>1, <2>2
  <1>3. ASSUME NEW c \in Conns, ServerSend(c)
        PROVE  Moved(buf[k], socket[used[k]], todo[used[k]], buf'[k], socket'[used[k]], todo'[used[k]])
    BY <1>0, <1>3 DEF ServerSend, bodyVars, Moved, Shorter
  <1>4. ASSUME NEW c \in Conns, ServerClose(c)
        PROVE  Moved(buf[k], socket[used[k]], todo[used[k]], buf'[k], socket'[used[k]], todo'[used[k]])
    BY <1>0, <1>4 DEF ServerClose, bodyVars, Moved, Shorter
  <1> QED
    BY <1>1, <1>2, <1>3, <1>4, StreamEffects

(* A connection without a head gets none while no request is written to it. *)
LEMMA CleanStays ==
    ASSUME ReuseInv, [Next]_vars, ~WriteRequest, NEW c \in Conns, NoHead(socket[c]), NoHead(todo[c])
    PROVE  NoHead(socket'[c]) /\ NoHead(todo'[c])
  <1>0. /\ DOMAIN socket = Conns /\ DOMAIN todo = Conns
        /\ socket[c] \in Seq(SentPieces) /\ todo[c] \in Seq(SentPieces)
    BY DEF ReuseInv, Sending
  <1>1. Moved(<< >>, socket[c], todo[c], << >>, socket'[c], todo'[c])
    <2>1. CASE Empties
      BY <2>1 DEF Empties, Moved, Shorter
    <2>2. ASSUME NEW j \in Calls, Fills(j) PROVE Moved(<< >>, socket[c], todo[c], << >>, socket'[c], todo'[c])
      BY <1>0, <2>2 DEF Fills, Moved, Shorter
    <2>3. ASSUME NEW d \in Conns, ServerSend(d) PROVE Moved(<< >>, socket[c], todo[c], << >>, socket'[c], todo'[c])
      BY <1>0, <2>3 DEF ServerSend, Moved, Shorter
    <2>4. ASSUME NEW d \in Conns, ServerClose(d) PROVE Moved(<< >>, socket[c], todo[c], << >>, socket'[c], todo'[c])
      BY <1>0, <2>4 DEF ServerClose, Moved, Shorter
    <2> QED
      BY <2>1, <2>2, <2>3, <2>4, StreamEffects
  <1>2. << >> \in Seq(SentPieces)
    OBVIOUS
  <1>3. PICK e \in Seq(SentPieces) : e = << >>
    BY <1>2
  <1> QED
    BY <1>0, <1>1, <1>3, MovedHeads

-----------------------------------------------------------------------------
(* How a call goes on. *)
TakesHead ==
    /\ pc = "parse" /\ buf[n] # << >> /\ Head(buf[n]).t = "fields"
    /\ answer'[n] = Head(buf[n]).k /\ UNCHANGED <<socket, todo>>

(* How a call ends or goes on after its request was written. *)
LEMMA Outcomes ==
    ASSUME ReuseInv, [Next]_vars, pc # "idle", pc' # pc
    PROVE  \/ WriteRequest
           \/ pc' = "idle" /\ pool' = pool /\ status'[n] \in {"invalid", "failed"}
           \/ pc' \in {"small", "idle"} /\ TakesHead
           \/ pc = "small" /\ pc' = "idle" /\ answer'[n] = answer[n] /\ UNCHANGED <<socket, todo>>
           \/ pc' = "idle" /\ EndOfStream(n) /\ status'[n] = "truncated" /\ UNCHANGED <<socket, todo>>
           \/ pc' = "idle" /\ status'[n] = "stray"
  <1> USE DEF callVars, bodyVars, serverVars
  <1>0. n \in Calls /\ DOMAIN status = Calls /\ DOMAIN answer = Calls
    BY Basics DEF ReuseInv, TypeOK
  <1>1. ASSUME NEW k \in Calls, BodyStep(k) \/ IntoUpgraded(k) \/ BodyAbandoned(k) PROVE FALSE
    BY <1>1 DEF BodyStep, Fill, BodyPiece, BodyDone, LetGo, IntoUpgraded, BodyAbandoned
  <1>2. ASSUME NEW c \in Conns, ServerSend(c) \/ ServerClose(c) PROVE FALSE
    BY <1>2 DEF ServerSend, ServerClose
  <1>3. CASE Idle \/ UNCHANGED vars \/ Fill(n) \/ Request \/ RequestRejected
    BY <1>3 DEF Idle, vars, Fill, Request, RequestRejected
  <1>4. CASE WriteInvalid \/ WriteFails
    BY <1>0, <1>4 DEF WriteInvalid, WriteFails, Fail
  <1>5. CASE ParsePiece
    <2>1. CASE Fail
      BY <1>0, <2>1 DEF Fail
    <2>2. CASE ParseLoose(NextPiece(n).t) /\ ~Fail
      BY <1>0, <2>2 DEF ParseLoose
    <2>3. CASE ~ParseLoose(NextPiece(n).t) /\ ~Fail
      BY <1>0, <1>5, <2>3 DEF ParsePiece, NextPiece, Return, TakesHead
    <2> QED
      BY <2>1, <2>2, <2>3
  <1>6. CASE BufferBody
    BY <1>0, <1>6 DEF BufferBody, Return
  <1>7. CASE ParseEof
    BY <1>0, <1>7 DEF ParseEof, Fail
  <1> QED
    BY <1>1, <1>2, <1>3, <1>4, <1>5, <1>6, <1>7 DEF Next, CallStep

(* What came before a call does not change. *)
LEMMA Past ==
    ASSUME ReuseInv, [Next]_vars
    PROVE  /\ \A k \in 1..n : used'[k] = used[k]
           /\ \A k \in 1..(n - 1) : reply'[k] = reply[k] /\ status'[k] = status[k]
           /\ \A k \in Calls : status[k] = "stray" => status'[k] = "stray"
           /\ \A k \in 1..n : Displaced(k)' <=> Displaced(k)
  <1>0. n \in Nat /\ MaxRequests \in Nat /\ n <= MaxRequests /\ Calls = 1..MaxRequests
        /\ DOMAIN used = Calls /\ DOMAIN status = Calls
    BY Basics DEF ReuseInv, TypeOK
  <1>1. \A k \in 1..n : used'[k] = used[k]
    <2>1. CASE Request
      <3>1. \E c \in Conns : used' = [used EXCEPT ![n + 1] = c]
        BY <2>1, RequestEffect DEF ReuseInv
      <3>2. \A k \in 1..n : k \in Calls /\ k # n + 1
        BY <1>0
      <3> QED
        BY <1>0, <3>1, <3>2
    <2>2. CASE ~Request
      <3>1. UNCHANGED used
        BY <2>2, CallEffects DEF ReuseInv, Untouched, RequestRejected, WriteRequest, Dropped, CutOff,
            ReadsHead, HasHead, Returned, Ends
      <3> QED
        BY <3>1
    <2> QED
      BY <2>1, <2>2
  <1>2. \A k \in 1..(n - 1) : reply'[k] = reply[k]
    <2>1. CASE WriteRequest
      <3>1. \A k \in 1..(n - 1) : k \in Calls /\ k # n
        BY <1>0
      <3> QED
        BY <2>1, <3>1, WriteEffect DEF ReuseInv
    <2>2. CASE ~WriteRequest
      <3>1. UNCHANGED reply
        BY <2>2, CallEffects DEF ReuseInv, Untouched, Request, RequestRejected, Dropped, CutOff,
            ReadsHead, HasHead, Returned, Ends, serverVars
      <3> QED
        BY <3>1
    <2> QED
      BY <2>1, <2>2
  <1>3. \A k \in 1..(n - 1) : status'[k] = status[k]
    <2> SUFFICES ASSUME NEW k \in 1..(n - 1) PROVE status'[k] = status[k]
      OBVIOUS
    <2>1. k \in Calls /\ k # n /\ k # n + 1
      BY <1>0
    <2> QED
      BY <1>0, <2>1, CallEffects DEF ReuseInv, Untouched, Request, RequestRejected, WriteRequest, Dropped, CutOff,
          ReadsHead, HasHead, Returned, Ends
  <1>4. \A k \in Calls : status[k] = "stray" => status'[k] = "stray"
    BY Settled DEF ReuseInv
  <1>5. ASSUME NEW k \in 1..n PROVE Displaced(k)' <=> Displaced(k)
    <2>1. \A j \in 1..(k - 1) : j \in 1..n /\ j \in 1..(n - 1)
      BY <1>0
    <2> QED
      BY <1>1, <1>2, <1>3, <2>1 DEF Displaced
  <1> QED
    BY <1>1, <1>2, <1>3, <1>4, <1>5

(* OwnAnswers is preserved. *)
LEMMA OwnAnswersStep ==
    ReuseInv /\ OwnInv /\ [Next]_vars => OwnAnswers'
  <1> SUFFICES ASSUME ReuseInv, OwnInv, [Next]_vars, NEW k \in Calls, status'[k] = "ok"
               PROVE  answer'[k] = k \/ Displaced(k)'
    BY DEF OwnAnswers
  <1>0. /\ n \in Nat /\ MaxRequests \in Nat /\ Calls = 1..MaxRequests /\ DOMAIN status = Calls
        /\ \A j \in Calls : j > n => status[j] = "none"
        /\ pc # "idle" => n \in Calls /\ used[n] \in Conns
    BY Basics DEF ReuseInv, TypeOK, Calling
  <1>1. CASE status[k] # "none"
    <2>1. status[k] = "ok" /\ answer'[k] = answer[k]
      BY <1>1, Settled DEF ReuseInv
    <2>2. k \in 1..n
      BY <1>0, <1>1
    <2> QED
      BY <2>1, <2>2, Past DEF OwnInv, OwnAnswers
  <1>2. CASE status[k] = "none"
    <2>1. k = n /\ pc # "idle" /\ pc' = "idle"
      BY <1>0, <1>2, CallEffects DEF ReuseInv, Untouched, Request, RequestRejected, WriteRequest, Dropped, CutOff,
            ReadsHead, HasHead, Returned, Ends
    <2>2. k \in 1..n
      BY <1>0, <2>1
    <2> SUFFICES ASSUME ~Displaced(n) PROVE answer'[n] = n
      BY <2>1, <2>2, Past
    <2>3. CASE TakesHead
      <3>1. HeadsOf(buf[n], n) /\ buf[n] \in Seq(SentPieces)
        BY <1>0, <2>1 DEF OwnInv, OwnHeads, AllOf, ReuseInv, Sending
      <3>2. Head(buf[n]).k = n
        BY <2>3, <3>1, TailHeads DEF TakesHead
      <3> QED
        BY <2>3, <3>2 DEF TakesHead
    <2>4. CASE pc = "small" /\ answer'[n] = answer[n]
      BY <2>1, <2>4 DEF OwnInv, OwnHeads
    <2>5. status'[n] \notin {"invalid", "failed", "truncated", "stray"}
      BY <2>1
    <2> QED
      BY <2>1, <2>3, <2>4, <2>5, Outcomes DEF WriteRequest
  <1> QED
    BY <1>1, <1>2

(* A connection in the pool has no head: PoolClean is preserved. *)
LEMMA PoolCleanStep ==
    ReuseInv /\ OwnInv /\ [Next]_vars => PoolClean'
  <1> SUFFICES ASSUME ReuseInv, OwnInv, [Next]_vars, pool' # 0
               PROVE  Mixed(pool)' \/ (NoHead(socket'[pool']) /\ NoHead(todo'[pool']))
    BY DEF PoolClean
  <1>0. /\ n \in Nat /\ MaxRequests \in Nat /\ Calls = 1..MaxRequests /\ Conns = 1..MaxRequests
        /\ pc # "idle" => n \in Calls /\ used[n] \in Conns /\ pool = 0
        /\ pool \in 0..MaxRequests
    BY Basics DEF ReuseInv, TypeOK, Calling
  <1>1. CASE pc = "idle"
    <2>1. /\ ~WriteRequest /\ pool' = pool /\ UNCHANGED <<used, reply>> /\ n' \in {n, n + 1}
          /\ \A j \in 1..n : status[j] = "stray" => status'[j] = "stray"
      <3>1. ~Request
        BY RequestEffect DEF ReuseInv
      <3>2. \A j \in 1..n : status[j] = "stray" => status'[j] = "stray"
        BY <1>0, Past, Basics DEF ReuseInv
      <3> QED
        BY <1>1, <3>1, <3>2, CallEffects DEF ReuseInv, Untouched, RequestRejected, WriteRequest, Dropped, CutOff,
            ReadsHead, HasHead, Returned, Ends, serverVars
    <2>2. Mixed(pool) => Mixed(pool)'
      BY <1>0, <2>1 DEF Mixed
    <2>3. pool \in Conns
      BY <1>0, <2>1
    <2> QED
      BY <2>1, <2>2, <2>3, CleanStays DEF OwnInv, PoolClean
  <1>2. CASE pc # "idle"
    <2>1. pc' # pc /\ pool' = used[n] /\ pc' = "idle" /\ UNCHANGED <<used, n, reply>> /\ status'[n] \notin {"invalid", "failed"}
          /\ ~WriteRequest
      BY <1>0, <1>2, CallEffects DEF ReuseInv, Untouched, Request, RequestRejected, WriteRequest, Dropped, CutOff,
            ReadsHead, HasHead, Returned, Ends, TypeOK
    <2>2. CASE EndOfStream(n) /\ UNCHANGED <<socket, todo>>
      <3>1. socket[used[n]] = << >> /\ todo[used[n]] = << >>
        BY <1>0, <1>2, <2>2 DEF EndOfStream, OwnInv, Closing
      <3> QED
        BY <2>1, <2>2, <3>1, NothingNoHead
    <2>3. CASE Displaced(n) \/ reply[n].framing = "interim" \/ status'[n] = "stray"
      <3>1. \A j \in 1..n : status[j] = "stray" => status'[j] = "stray"
        BY <1>0, <1>2, Past
      <3>2. \E j \in 1..n : used[j] = used[n] /\ (reply[j].framing = "interim" \/ status'[j] = "stray")
        BY <1>0, <1>2, <2>3, <3>1 DEF Displaced
      <3> QED
        BY <2>1, <3>2 DEF Mixed
    <2>4. CASE ~Displaced(n) /\ reply[n].framing # "interim" /\ TakesHead
      <3>1. Single(buf[n], socket[used[n]], todo[used[n]]) /\ buf[n] \in Seq(SentPieces)
        BY <1>0, <1>2, <2>4 DEF OwnInv, OwnHeads, ReuseInv, Sending
      <3>2. ~NoHead(buf[n])
        BY <2>4, <3>1, TailHeads DEF TakesHead
      <3> QED
        BY <2>1, <2>4, <3>1, <3>2 DEF Single, TakesHead
    <2>5. CASE ~Displaced(n) /\ reply[n].framing # "interim" /\ pc = "small" /\ UNCHANGED <<socket, todo>>
      BY <2>1, <2>5 DEF OwnInv, OwnHeads
    <2> QED
      BY <1>2, <2>1, <2>2, <2>3, <2>4, <2>5, Outcomes
  <1> QED
    BY <1>1, <1>2

(* An end that was last is last after the first piece was taken. *)
LEMMA EofTail ==
    ASSUME NEW S, NEW s \in Seq(S), s # << >>, \A i \in 1..Len(s) : s[i].t = "eof" => i = Len(s)
    PROVE  /\ \A i \in 1..Len(Tail(s)) : Tail(s)[i].t = "eof" => i = Len(Tail(s))
           /\ Head(s).t = "eof" => Tail(s) = << >>
  <1>0. Tail(s) \in Seq(S)
    OBVIOUS
  <1>1. PICK u \in Seq(S) : u = Tail(s)
    BY <1>0
  <1>2. Len(s) \in Nat /\ Len(s) >= 1 /\ 1 \in 1..Len(s) /\ Head(s) = s[1]
    OBVIOUS
  <1>3. Len(u) = Len(s) - 1 /\ \A i \in 1..Len(u) : u[i] = s[i + 1] /\ i + 1 \in 1..Len(s)
    BY <1>1
  <1>4. \A i \in 1..Len(u) : u[i].t = "eof" => i = Len(u)
    BY <1>2, <1>3, SMTT(30)
  <1>5. ASSUME Head(s).t = "eof" PROVE u = << >>
    <2>1. Len(u) = 0
      BY <1>2, <1>3, <1>5
    <2> QED
      BY <2>1, EmptyLen
  <1> QED
    BY <1>1, <1>4, <1>5

(* An end that is last in what is joined behind is last in the whole. *)
LEMMA EofConcat ==
    ASSUME NEW S, NEW s \in Seq(S), NEW a \in Seq(S), \A i \in 1..Len(s) : s[i].t # "eof",
           \A i \in 1..Len(a) : a[i].t = "eof" => i = Len(a)
    PROVE  \A i \in 1..Len(s \o a) : (s \o a)[i].t = "eof" => i = Len(s \o a)
  <1>0. s \o a \in Seq(S)
    OBVIOUS
  <1>1. PICK u \in Seq(S) : u = s \o a
    BY <1>0
  <1>2. /\ Len(u) = Len(s) + Len(a) /\ \A i \in 1..Len(s) : u[i] = s[i]
        /\ \A i \in 1..Len(u) : i > Len(s) => i - Len(s) \in 1..Len(a) /\ u[i] = a[i - Len(s)]
    BY <1>1, Located
  <1>3. ASSUME NEW i \in 1..Len(u), u[i].t = "eof" PROVE i = Len(u)
    <2>1. i > Len(s)
      <3>1. i \in 1..Len(s) => u[i].t # "eof"
        BY <1>2
      <3> QED
        BY <1>3, <3>1
    <2>2. i - Len(s) = Len(a)
      BY <1>2, <1>3, <2>1
    <2> QED
      BY <1>2, <2>2
  <1> QED
    BY <1>1, <1>3

(* The answer that a request gets. *)
LEMMA AnswerAdded ==
    ASSUME ReuseInv, WriteRequest, ~UNCHANGED <<reply, todo>>
    PROVE  \E r \in ReplyRecords : \E a \in Seq([k : {n}, t : PieceTypes, f : Framings]) :
               /\ n \in Calls /\ used[n] \in Conns /\ Listening(used[n])
               /\ reply'[n] = r
               /\ todo' = [todo EXCEPT ![used[n]] = @ \o a]
               /\ \A i \in 1..Len(a) : a[i].t = "eof" => i = Len(a)
               /\ HeadsOf(a, n) /\ (r.framing # "interim" => OneHead(a))
  <1>1. PICK r \in Replies : /\ Listening(used[n]) /\ reply' = [reply EXCEPT ![n] = r]
                             /\ todo' = [todo EXCEPT ![used[n]] = @ \o Answer(n, r)]
    BY WriteEffect DEF ReuseInv
  <1>2. n \in Calls /\ used[n] \in Conns /\ r \in ReplyRecords /\ DOMAIN reply = Calls
    BY WriteEffect, ClientAssumption DEF ReuseInv, TypeOK
  <1>3. PICK a \in Seq(AnswerPieces(n, r)) :
            /\ a = Answer(n, r) /\ \A i \in 1..Len(a) : a[i].t = "eof" => i = Len(a)
            /\ r.framing # "interim" => OneHead(a)
    BY <1>2, AnswerShape
  <1>4. a \in Seq([k : {n}, t : PieceTypes, f : Framings])
    <2>1. AnswerPieces(n, r) \subseteq [k : {n}, t : PieceTypes, f : Framings]
      BY DEF AnswerPieces
    <2> QED
      BY <2>1, SeqGrows
  <1>5. HeadsOf(a, n)
    <2>0. PICK R : R = [k : {n}, t : PieceTypes, f : Framings]
      OBVIOUS
    <2>1. \A i \in 1..Len(a) : a[i] \in R
      <3>1. a \in Seq(R)
        BY <1>4, <2>0
      <3> QED
        BY <3>1
    <2>2. \A p \in [k : {n}, t : PieceTypes, f : Framings] : p.k = n
      OBVIOUS
    <2> QED
      BY <2>0, <2>1, <2>2 DEF HeadsOf
  <1>6. reply'[n] = r
    BY <1>1, <1>2
  <1> QED
    BY <1>1, <1>2, <1>3, <1>4, <1>5, <1>6

(* What is closed or not yet used is empty: Closing is preserved. *)
LEMMA ClosingStep ==
    ReuseInv /\ Closing /\ [Next]_vars => Closing'
  <1> SUFFICES ASSUME ReuseInv, Closing, [Next]_vars PROVE Closing'
    OBVIOUS
  <1>0. /\ n \in Nat /\ MaxRequests \in Nat /\ Calls = 1..MaxRequests /\ Conns = 1..MaxRequests
        /\ opened \in Nat
        /\ DOMAIN buf = Calls /\ DOMAIN todo = Conns /\ DOMAIN socket = Conns /\ DOMAIN link = Conns
        /\ \A c \in Conns : todo[c] \in Seq(SentPieces) /\ socket[c] \in Seq(SentPieces)
        /\ pc # "idle" => n \in Calls /\ used[n] \in Conns /\ used[n] <= opened
        /\ \A k \in Calls : used[k] <= opened /\ used[k] \in Nat
    BY Basics DEF ReuseInv, TypeOK, Sending, Calling
  <1>1. n' \in Nat /\ n' >= n /\ opened' \in Nat /\ opened' >= opened /\ (pc' = "write" => pc = "write" \/ n' = n + 1)
        /\ (pc = "write" /\ pc' # "write" => n' = n)
    <2>1. CASE Request
      <3>1. n' = n + 1 /\ opened' = (IF pool # 0 THEN opened ELSE opened + 1) /\ pc = "idle"
        BY <2>1, RequestEffect DEF ReuseInv, Request
      <3> QED
        BY <1>0, <3>1
    <2>2. CASE RequestRejected
      BY <1>0, <2>2 DEF RequestRejected
    <2>3. CASE ~Request /\ ~RequestRejected
      <3>1. n' = n /\ opened' = opened /\ (pc' = "write" => pc = "write")
        BY <2>3, CallEffects DEF ReuseInv, Untouched, WriteRequest, Dropped, CutOff,
            ReadsHead, HasHead, Returned, Ends
      <3> QED
        BY <1>0, <3>1
    <2> QED
      BY <2>1, <2>2, <2>3
  <1>2. \A c \in Conns : link'[c] # "open" => todo'[c] = << >>
    <2>1. CASE WriteRequest
      <3>1. CASE UNCHANGED <<reply, todo>>
        BY <2>1, <3>1 DEF WriteRequest, Closing
      <3>2. CASE ~UNCHANGED <<reply, todo>>
        <4>1. link[used[n]] = "open" /\ \A c \in Conns : c # used[n] => todo'[c] = todo[c]
          BY <1>0, <2>1, <3>2, AnswerAdded DEF Listening
        <4> QED
          BY <2>1, <4>1 DEF WriteRequest, Closing
      <3> QED
        BY <3>1, <3>2
    <2>2. ASSUME NEW c \in Conns, ServerSend(c) PROVE \A d \in Conns : link'[d] # "open" => todo'[d] = << >>
      <3>1. todo[c] # << >> /\ todo[c] \in Seq(SentPieces)
            /\ \A i \in 1..Len(todo[c]) : todo[c][i].t = "eof" => i = Len(todo[c])
        BY <1>0, <2>2 DEF ServerSend, Closing
      <3>2. Head(todo[c]).t = "eof" => Tail(todo[c]) = << >>
        BY <3>1, EofTail
      <3> QED
        BY <1>0, <2>2, <3>1, <3>2 DEF ServerSend, Closing
    <2>3. ASSUME NEW c \in Conns, ServerClose(c) PROVE \A d \in Conns : link'[d] # "open" => todo'[d] = << >>
      BY <1>0, <2>3 DEF ServerClose, Closing
    <2> QED
      BY <2>1, <2>2, <2>3, StreamEffects DEF Empties, Fills, Closing
  <1>3. ASSUME NEW c \in Conns PROVE \A i \in 1..Len(todo'[c]) : todo'[c][i].t = "eof" => i = Len(todo'[c])
    <2>0. \A i \in 1..Len(todo[c]) : todo[c][i].t = "eof" => i = Len(todo[c])
      BY DEF Closing
    <2>1. CASE todo'[c] = todo[c]
      BY <2>0, <2>1
    <2>2. CASE todo'[c] = << >>
      BY <2>2
    <2>3. CASE todo[c] # << >> /\ todo'[c] = Tail(todo[c])
      BY <1>0, <2>0, <2>3, EofTail
    <2>4. CASE WriteRequest /\ ~UNCHANGED <<reply, todo>> /\ c = used[n]
      <3>1. PICK a \in Seq([k : {n}, t : PieceTypes, f : Framings]) :
               /\ Listening(used[n]) /\ todo' = [todo EXCEPT ![used[n]] = @ \o a]
               /\ \A i \in 1..Len(a) : a[i].t = "eof" => i = Len(a)
        BY <2>4, AnswerAdded
      <3>2. \A i \in 1..Len(todo[c]) : todo[c][i].t # "eof"
        BY <1>0, <2>4, <3>1 DEF Listening
      <3>3. PICK S : S = SentPieces \cup [k : {n}, t : PieceTypes, f : Framings]
        OBVIOUS
      <3>4. todo[c] \in Seq(S) /\ a \in Seq(S)
        <4>1. SentPieces \subseteq S /\ [k : {n}, t : PieceTypes, f : Framings] \subseteq S
          BY <3>3
        <4>2. todo[c] \in Seq(SentPieces)
          BY <1>0
        <4>3. \A R, x : R \subseteq S /\ x \in Seq(R) => x \in Seq(S)
          BY SeqGrows
        <4> QED
          BY <4>1, <4>2, <4>3
      <3>5. todo'[c] = todo[c] \o a
        BY <1>0, <2>4, <3>1
      <3>6. \A i \in 1..Len(todo[c] \o a) : (todo[c] \o a)[i].t = "eof" => i = Len(todo[c] \o a)
        BY <3>1, <3>2, <3>4, EofConcat
      <3> QED
        BY <3>5, <3>6
    <2>5. CASE WriteRequest /\ ~UNCHANGED <<reply, todo>> /\ c # used[n]
      <3>1. todo'[c] = todo[c]
        BY <1>0, <2>5, AnswerAdded
      <3> QED
        BY <2>1, <3>1
    <2>6. ASSUME NEW d \in Conns, ServerSend(d) \/ ServerClose(d)
          PROVE  todo'[c] = todo[c] \/ todo'[c] = << >> \/ (todo[c] # << >> /\ todo'[c] = Tail(todo[c]))
      BY <1>0, <2>6 DEF ServerSend, ServerClose
    <2> QED
      BY <2>1, <2>2, <2>3, <2>4, <2>5, <2>6, StreamEffects DEF Empties, Fills
  <1>4. ASSUME NEW c \in Conns, c > opened' PROVE todo'[c] = << >> /\ socket'[c] = << >>
    <2>0. c > opened /\ todo[c] = << >> /\ socket[c] = << >>
      BY <1>0, <1>1, <1>4 DEF Closing
    <2>1. CASE WriteRequest
      <3>1. used[n] # c
        BY <1>0, <2>0, <2>1, SMTT(30) DEF WriteRequest
      <3>2. todo'[c] = todo[c]
        BY <1>0, <2>1, <3>1, AnswerAdded
      <3> QED
        BY <2>0, <2>1, <3>2 DEF WriteRequest
    <2>2. ASSUME NEW d \in Conns, ServerSend(d) \/ ServerClose(d) PROVE todo'[c] = << >> /\ socket'[c] = << >>
      BY <1>0, <2>0, <2>2 DEF ServerSend, ServerClose
    <2>3. ASSUME NEW k \in Calls, Fills(k) PROVE todo'[c] = << >> /\ socket'[c] = << >>
      BY <1>0, <2>0, <2>3 DEF Fills
    <2> QED
      BY <2>0, <2>1, <2>2, <2>3, StreamEffects DEF Empties
  <1>5. ASSUME NEW k \in Calls, k > n' \/ (k = n' /\ pc' = "write") PROVE buf'[k] = << >>
    <2>1. (k > n \/ (k = n /\ pc = "write")) /\ buf[k] = << >>
      BY <1>0, <1>1, <1>5 DEF Closing
    <2>2. CASE WriteRequest
      BY <2>1, <2>2 DEF WriteRequest, bodyVars
    <2>3. ASSUME NEW c \in Conns, ServerSend(c) \/ ServerClose(c) PROVE buf'[k] = << >>
      BY <2>1, <2>3 DEF ServerSend, ServerClose, bodyVars
    <2>4. ASSUME NEW j \in Calls, Fills(j) PROVE buf'[k] = << >>
      <3>1. status[k] = "none"
        BY <1>0, <2>1 DEF ReuseInv, Calling
      <3>2. j # k
        BY <1>0, <2>1, <2>4, <3>1 DEF Fills, Reads, ReuseInv, Reading, Streaming
      <3> QED
        BY <1>0, <2>1, <2>4, <3>2 DEF Fills
    <2>5. CASE Empties
      BY <2>1, <2>5 DEF Empties, Shorter
    <2> QED
      BY <2>2, <2>3, <2>4, <2>5, StreamEffects
  <1> QED
    BY <1>2, <1>3, <1>4, <1>5 DEF Closing

(* A call that is under way finds one head at most, its own. *)
LEMMA OwnHeadsStep ==
    ReuseInv /\ OwnInv /\ [Next]_vars => OwnHeads'
  <1> SUFFICES ASSUME ReuseInv, OwnInv, [Next]_vars, pc' # "idle", ~Displaced(n)' PROVE OwnHeads'
    BY DEF OwnHeads
  <1>0. /\ n \in Nat /\ MaxRequests \in Nat /\ Calls = 1..MaxRequests /\ Conns = 1..MaxRequests
        /\ opened \in Nat /\ pool \in 0..MaxRequests /\ n <= MaxRequests
        /\ pc # "idle" => n \in Calls /\ used[n] \in Conns /\ buf[n] \in Seq(SentPieces)
            /\ socket[used[n]] \in Seq(SentPieces) /\ todo[used[n]] \in Seq(SentPieces)
        /\ pc \in {"idle", "write", "parse", "small"} /\ pc' \in {"write", "parse", "small"}
        /\ DOMAIN todo = Conns /\ DOMAIN socket = Conns /\ DOMAIN answer = Calls
    <2>1. pc' \in {"write", "parse", "small"}
      BY CallTypes DEF ReuseInv
    <2> QED
      BY <2>1, Basics DEF ReuseInv, TypeOK, Sending
  <1>1. CASE pc = "idle"
    <2>0. Request
      BY <1>1, CallEffects DEF ReuseInv, Untouched, RequestRejected, WriteRequest, Dropped, CutOff,
            ReadsHead, HasHead, Returned, Ends
    <2>1. PICK c \in Conns :
              /\ c = (IF pool # 0 THEN pool ELSE opened + 1)
              /\ used' = [used EXCEPT ![n + 1] = c] /\ n + 1 \in Calls /\ DOMAIN used = Calls
              /\ n' = n + 1 /\ pc' = "write" /\ UNCHANGED <<status, answer, buf, serverVars>>
      BY <2>0, RequestEffect DEF ReuseInv
    <2>2. buf'[n'] = << >> /\ used'[n'] = c /\ UNCHANGED <<reply, todo, socket>>
      BY <1>0, <2>1 DEF OwnInv, Closing, serverVars
    <2>3. NoHead(socket[c]) /\ NoHead(todo[c])
      <3>1. CASE pool # 0
        <4>1. ASSUME Mixed(pool) PROVE FALSE
          <5>1. PICK j \in 1..n : used[j] = pool /\ (reply[j].framing = "interim" \/ status[j] = "stray")
            BY <4>1 DEF Mixed
          <5>2. j \in 1..(n' - 1) /\ j \in Calls /\ j # n + 1 /\ n' = n + 1
            BY <1>0, <2>1
          <5>3. used'[j] = used[j] /\ c = pool
            BY <2>1, <3>1, <5>2
          <5>4. used'[j] = used'[n'] /\ (reply'[j].framing = "interim" \/ status'[j] = "stray")
            BY <2>1, <2>2, <5>1, <5>3
          <5> QED
            BY <5>2, <5>4 DEF Displaced
        <4> QED
          BY <2>1, <3>1, <4>1 DEF OwnInv, PoolClean
      <3>2. CASE pool = 0
        <4>1. todo[c] = << >> /\ socket[c] = << >>
          BY <1>0, <2>1, <3>2 DEF OwnInv, Closing
        <4> QED
          BY <4>1, NothingNoHead
      <3> QED
        BY <3>1, <3>2
    <2>4. NoHead(buf'[n'])
      BY <2>2, NothingNoHead
    <2>5. /\ AllOf(buf'[n'], socket[c], todo[c], n') /\ Single(buf'[n'], socket[c], todo[c])
      BY <2>3, <2>4, NoHeadAny DEF AllOf, Single
    <2> QED
      BY <2>1, <2>2, <2>3, <2>5 DEF OwnHeads
  <1>2. CASE pc # "idle"
    <2>0. n' = n /\ used' = used /\ n \in 1..n
      BY <1>0, <1>2, CallEffects DEF ReuseInv, Request, RequestRejected, Untouched, WriteRequest, Dropped, CutOff,
            ReadsHead, HasHead, Returned, Ends
    <2>1. ~Displaced(n)
      BY <2>0, Past
    <2>2. PICK c \in Conns : c = used[n] /\ c = used'[n'] /\ socket[c] \in Seq(SentPieces) /\ todo[c] \in Seq(SentPieces)
      BY <1>0, <1>2, <2>0
    <2>3. /\ AllOf(buf[n], socket[c], todo[c], n)
          /\ pc = "write" => NoHead(socket[c]) /\ NoHead(todo[c])
          /\ pc = "small" => answer[n] = n
          /\ reply[n].framing # "interim" => Single(buf[n], socket[c], todo[c])
          /\ reply[n].framing # "interim" /\ pc = "small" => NoHead(socket[c]) /\ NoHead(todo[c])
      BY <1>2, <2>1, <2>2 DEF OwnInv, OwnHeads
    <2>4. CASE WriteRequest
      <3>0. pc = "write" /\ pc' = "parse" /\ UNCHANGED <<buf, socket>> /\ buf[n] = << >>
        BY <1>0, <1>2, <2>4 DEF WriteRequest, bodyVars, OwnInv, Closing
      <3>1. NoHead(buf[n]) /\ NoHead(socket[c]) /\ NoHead(todo[c])
        BY <2>3, <3>0, NothingNoHead
      <3>2. HeadsOf(buf[n], n) /\ HeadsOf(socket[c], n) /\ HeadsOf(todo[c], n)
            /\ OneHead(buf[n]) /\ OneHead(socket[c]) /\ OneHead(todo[c])
        BY <3>1, NoHeadAny
      <3>3. CASE UNCHANGED <<reply, todo>>
        BY <2>0, <2>2, <3>0, <3>1, <3>2, <3>3 DEF OwnHeads, AllOf, Single
      <3>4. CASE ~UNCHANGED <<reply, todo>>
        <4>0. PICK R : R = [k : {n}, t : PieceTypes, f : Framings]
          OBVIOUS
        <4>1. PICK r \in ReplyRecords : \E a \in Seq(R) :
                  /\ reply'[n] = r /\ todo' = [todo EXCEPT ![used[n]] = @ \o a]
                  /\ HeadsOf(a, n) /\ (r.framing # "interim" => OneHead(a))
          BY <2>4, <3>4, <4>0, AnswerAdded
        <4>2. PICK a \in Seq(R) :
                  /\ reply'[n] = r /\ todo' = [todo EXCEPT ![used[n]] = @ \o a]
                  /\ HeadsOf(a, n) /\ (r.framing # "interim" => OneHead(a))
          BY <4>1
        <4>3. PICK S : S = SentPieces \cup R
          OBVIOUS
        <4>4. todo[c] \in Seq(S) /\ a \in Seq(S)
          <5>1. SentPieces \subseteq S /\ R \subseteq S
            BY <4>3
          <5>2. \A Q, x : Q \subseteq S /\ x \in Seq(Q) => x \in Seq(S)
            BY SeqGrows
          <5> QED
            BY <2>2, <5>1, <5>2
        <4>5. todo'[c] = todo[c] \o a
          BY <1>0, <2>2, <4>2
        <4>6. HeadsOf(todo'[c], n) /\ (r.framing # "interim" => OneHead(todo'[c]))
          BY <3>1, <4>2, <4>4, <4>5, ConcatHeads
        <4> QED
          BY <2>0, <2>2, <3>0, <3>1, <3>2, <4>2, <4>6 DEF OwnHeads, AllOf, Single
      <3> QED
        BY <3>3, <3>4
    <2>5. CASE ~WriteRequest
      <3>0. reply' = reply
        BY <1>2, <2>5, CallEffects DEF ReuseInv, Request, RequestRejected, Untouched, Dropped, CutOff,
            ReadsHead, HasHead, Returned, Ends
      <3>1. Moved(buf[n], socket[c], todo[c], buf'[n], socket'[c], todo'[c])
        BY <1>0, <1>2, <2>2, <2>5, StreamMoves
      <3>2. /\ AllOf(buf'[n], socket'[c], todo'[c], n)
            /\ Single(buf[n], socket[c], todo[c]) => Single(buf'[n], socket'[c], todo'[c])
            /\ NoHead(socket[c]) /\ NoHead(todo[c]) => NoHead(socket'[c]) /\ NoHead(todo'[c])
        <4>1. PICK S : S = SentPieces
          OBVIOUS
        <4>2. PICK b \in Seq(S), s \in Seq(S), t \in Seq(S) : b = buf[n] /\ s = socket[c] /\ t = todo[c]
          BY <1>0, <1>2, <2>2, <4>1
        <4>3. Moved(b, s, t, buf'[n], socket'[c], todo'[c]) /\ AllOf(b, s, t, n)
          BY <2>3, <3>1, <4>2
        <4>4. /\ AllOf(buf'[n], socket'[c], todo'[c], n)
              /\ Single(b, s, t) => Single(buf'[n], socket'[c], todo'[c])
              /\ NoHead(s) /\ NoHead(t) => NoHead(socket'[c]) /\ NoHead(todo'[c])
          BY <4>3, MovedHeads
        <4> QED
          BY <4>2, <4>4
      <3>3. CASE pc' = pc
        <4>1. pc = "small" => answer' = answer
          BY <3>3, CallEffects DEF ReuseInv, Request, RequestRejected, Untouched, WriteRequest, Dropped, CutOff,
            ReadsHead, HasHead, Returned, Ends
        <4> QED
          BY <2>0, <2>2, <2>3, <3>0, <3>2, <3>3, <4>1 DEF OwnHeads
      <3>4. CASE pc' # pc
        <4>1. TakesHead /\ pc' = "small"
          BY <1>0, <1>2, <2>5, <3>4, Outcomes
        <4>2. ~NoHead(buf[n]) /\ Head(buf[n]).k = n
          BY <1>0, <1>2, <2>3, <4>1, TailHeads DEF TakesHead, AllOf
        <4>3. reply[n].framing # "interim" => NoHead(socket'[c]) /\ NoHead(todo'[c])
          BY <2>3, <4>1, <4>2 DEF Single, TakesHead
        <4> QED
          BY <2>0, <2>2, <2>3, <3>0, <3>2, <4>1, <4>2, <4>3 DEF OwnHeads, TakesHead
      <3> QED
        BY <3>3, <3>4
    <2> QED
      BY <2>4, <2>5
  <1> QED
    BY <1>1, <1>2

(* OwnInv holds at the beginning. *)
LEMMA InitOwn == Init => OwnInv
  <1> SUFFICES ASSUME Init PROVE OwnInv
    OBVIOUS
  <1>0. MaxRequests \in Nat /\ Calls = 1..MaxRequests /\ Conns = 1..MaxRequests
    BY ClientAssumption DEF Calls, Conns
  <1>1. Closing
    <2>1. \A c \in Conns : todo[c] = << >> /\ socket[c] = << >>
      BY DEF Init
    <2>2. \A c \in Conns : Len(todo[c]) = 0
      BY <2>1
    <2> QED
      BY <1>0, <2>1, <2>2 DEF Init, Closing
  <1>2. PoolClean /\ OwnHeads /\ OwnAnswers
    BY DEF Init, PoolClean, OwnHeads, OwnAnswers
  <1> QED
    BY <1>1, <1>2 DEF OwnInv

(* The invariant of the calls and of their connections that the other       *)
(* theorems rest on (src/src/client.rs, Client::request, send_request).     *)
THEOREM OwnInvHolds == Spec => []OwnInv
<1>1. ReuseInv /\ ReuseInv' /\ OwnInv /\ [Next]_vars => OwnInv'
  BY ClosingStep, PoolCleanStep, OwnHeadsStep, OwnAnswersStep DEF OwnInv
<1> QED BY <1>1, InitOwn, ReuseInvHolds, PTL DEF Spec

-----------------------------------------------------------------------------
(* Where pieces lie.  A script is what the server sends in answer to a      *)
(* call; a sequence lies in it behind the first o pieces.  What lies before *)
(* the script, at 0 and below, is left of older answers and is no head.     *)
Lies(s, a, o) ==
    \A i \in 1..Len(s) :
        IF o + i >= 1 THEN o + i <= Len(a) /\ s[i] = a[o + i] ELSE s[i].t \notin {"line", "fields"}

Headless(s) == \A i \in 1..Len(s) : s[i].t \notin {"line", "fields"}

(* Nothing lies anywhere, and a part that has no head before the script. *)
LEMMA LiesBefore ==
    ASSUME NEW a, NEW o \in Int
    PROVE  /\ Lies(<< >>, a, o)
           /\ \A S : \A s \in Seq(S) : Headless(s) /\ o + Len(s) <= 0 => Lies(s, a, o)
           /\ \A S : \A s \in Seq(S) : Lies(s, a, o) /\ o + Len(s) <= 0 => Headless(s)
<1>1. Lies(<< >>, a, o)
  BY DEF Lies
<1>2. ASSUME NEW S, NEW s \in Seq(S), o + Len(s) <= 0 PROVE Headless(s) <=> Lies(s, a, o)
  <2>1. Len(s) \in Nat
    OBVIOUS
  <2>2. \A i \in 1..Len(s) : ~(o + i >= 1)
    BY <1>2, <2>1
  <2> QED BY <2>2 DEF Headless, Lies
<1> QED BY <1>1, <1>2

(* The first piece, and the rest. *)
LEMMA LiesTail ==
    ASSUME NEW S, NEW s \in Seq(S), s # << >>, NEW a, NEW o \in Int, Lies(s, a, o)
    PROVE  /\ Lies(Tail(s), a, o + 1)
           /\ o >= 0 => o + 1 <= Len(a) /\ Head(s) = a[o + 1]
           /\ o < 0 => Head(s).t \notin {"line", "fields"}
<1>0. /\ Tail(s) \in Seq(S) /\ Len(s) \in Nat /\ Len(s) > 0 /\ Head(s) = s[1] /\ Len(Tail(s)) = Len(s) - 1
      /\ \A i \in 1..(Len(s) - 1) : Tail(s)[i] = s[i + 1]
  BY NonEmpty
<1>1. PICK u \in Seq(S) : u = Tail(s)
  BY <1>0
<1>2. Len(u) = Len(s) - 1 /\ \A i \in 1..Len(u) : u[i] = s[i + 1] /\ i + 1 \in 1..Len(s) /\ o + (i + 1) = (o + 1) + i
  BY <1>0, <1>1
<1>3. Lies(u, a, o + 1)
  <2> SUFFICES ASSUME NEW i \in 1..Len(u)
               PROVE  IF (o + 1) + i >= 1 THEN (o + 1) + i <= Len(a) /\ u[i] = a[(o + 1) + i]
                      ELSE u[i].t \notin {"line", "fields"}
    BY DEF Lies
  <2>1. i + 1 \in 1..Len(s) /\ u[i] = s[i + 1] /\ o + (i + 1) = (o + 1) + i
    BY <1>2
  <2>2. IF o + (i + 1) >= 1 THEN o + (i + 1) <= Len(a) /\ s[i + 1] = a[o + (i + 1)]
        ELSE s[i + 1].t \notin {"line", "fields"}
    BY <2>1 DEF Lies
  <2> QED BY <2>1, <2>2
<1>4. 1 \in 1..Len(s)
  BY <1>0
<1> QED BY <1>0, <1>1, <1>3, <1>4 DEF Lies

(* One more piece. *)
LEMMA LiesAppend ==
    ASSUME NEW S, NEW s \in Seq(S), NEW p \in S, NEW a, NEW o \in Int, Lies(s, a, o),
           o + Len(s) >= 0 => o + Len(s) + 1 <= Len(a) /\ p = a[o + Len(s) + 1],
           o + Len(s) < 0 => p.t \notin {"line", "fields"}
    PROVE  Lies(Append(s, p), a, o)
<1>1. PICK u \in Seq(S) : u = Append(s, p)
  BY Appended
<1>2. /\ Len(s) \in Nat /\ Len(u) = Len(s) + 1 /\ u[Len(s) + 1] = p /\ \A i \in 1..Len(s) : u[i] = s[i]
  BY <1>1, Appended
<1>3. PICK m \in Nat : m = Len(s)
  BY <1>2
<1>4. ASSUME NEW i \in 1..Len(u)
      PROVE  IF o + i >= 1 THEN o + i <= Len(a) /\ u[i] = a[o + i] ELSE u[i].t \notin {"line", "fields"}
  <2>1. CASE i \in 1..m
    BY <1>2, <1>3, <2>1 DEF Lies
  <2>2. CASE i \notin 1..m
    <3>1. i = m + 1 /\ o + i = o + m + 1
      BY <1>2, <1>3, <2>2
    <3>2. u[i] = p
      BY <1>2, <1>3, <3>1
    <3>3. CASE o + m >= 0
      <4>1. o + i >= 1 /\ o + i <= Len(a) /\ p = a[o + i]
        BY <1>3, <3>1, <3>3
      <4> QED BY <3>2, <4>1
    <3>4. CASE o + m < 0
      <4>1. ~(o + i >= 1) /\ p.t \notin {"line", "fields"}
        BY <1>3, <3>1, <3>4
      <4> QED BY <3>2, <4>1
    <3> QED BY <3>3, <3>4
  <2> QED BY <2>1, <2>2
<1> QED BY <1>1, <1>4 DEF Lies

(* The script itself behind what was left. *)
LEMMA LiesScript ==
    ASSUME NEW S, NEW s \in Seq(S), NEW a \in Seq(S), NEW o \in Int, Headless(s), o + Len(s) = 0
    PROVE  Lies(s \o a, a, o)
<1>1. PICK u \in Seq(S) : u = s \o a
  BY Concatenated
<1>2. /\ Len(s) \in Nat /\ Len(a) \in Nat /\ Len(u) = Len(s) + Len(a) /\ \A i \in 1..Len(s) : u[i] = s[i]
      /\ \A i \in 1..Len(a) : u[Len(s) + i] = a[i]
  BY <1>1, Concatenated
<1>3. PICK m \in Nat : m = Len(s)
  BY <1>2
<1>4. ASSUME NEW i \in 1..Len(u)
      PROVE  IF o + i >= 1 THEN o + i <= Len(a) /\ u[i] = a[o + i] ELSE u[i].t \notin {"line", "fields"}
  <2>1. CASE i \in 1..m
    <3>1. ~(o + i >= 1)
      BY <1>3, <2>1
    <3> QED BY <1>2, <1>3, <2>1, <3>1 DEF Headless
  <2>2. CASE i \notin 1..m
    <3>0. o + m = 0 /\ i > m /\ i <= m + Len(a) /\ Len(a) \in Nat
      BY <1>2, <1>3, <2>2
    <3>1. m + (o + i) = i /\ o + i \in 1..Len(a) /\ o + i >= 1 /\ o + i <= Len(a)
      BY <3>0
    <3>2. u[i] = a[o + i]
      BY <1>2, <1>3, <3>1
    <3> QED BY <3>1, <3>2
  <2> QED BY <2>1, <2>2
<1> QED BY <1>1, <1>4 DEF Lies

(* A connection: what has arrived and what is to come lie one behind the    *)
(* other in the script, and nothing of the answer is missing at its end.    *)
Follow(s, t, a, d) == Lies(s, a, d) /\ Lies(t, a, d + Len(s)) /\ d + Len(s) + Len(t) <= Len(a)

FullTo(l, a, z, end) == end <= 0 \/ l = "cut" \/ end = Len(a) \/ (l = "closed" /\ end >= z)

Stream(s, t, l, a, z, d) == Follow(s, t, a, d) /\ FullTo(l, a, z, d + Len(s) + Len(t))

(* The server sends a piece. *)
LEMMA StreamSends ==
    ASSUME NEW S, NEW s \in Seq(S), NEW t \in Seq(S), NEW a \in Seq(S), NEW z \in Int, NEW d \in Int, NEW l,
           Stream(s, t, l, a, z, d), t # << >>
    PROVE  Stream(Append(s, Head(t)), Tail(t), l, a, z, d)
<1>0. PICK p \in S : p = Head(t)
  BY NonEmpty
<1>1. PICK u \in Seq(S), v \in Seq(S) : u = Append(s, p) /\ v = Tail(t)
  BY <1>0, NonEmpty, Appended
<1>2. Len(s) \in Nat /\ Len(t) \in Nat /\ Len(a) \in Nat /\ Len(u) = Len(s) + 1 /\ Len(v) = Len(t) - 1 /\ Len(t) > 0
  BY <1>0, <1>1, NonEmpty, Appended
<1>3. PICK x \in Nat, y \in Nat : x = Len(s) /\ y = Len(t) /\ y > 0
  BY <1>2
<1>4. Lies(s, a, d) /\ Lies(t, a, d + x) /\ d + x + y <= Len(a)
  BY <1>3 DEF Stream, Follow
<1>5. /\ Lies(v, a, (d + x) + 1)
      /\ d + x >= 0 => (d + x) + 1 <= Len(a) /\ p = a[(d + x) + 1]
      /\ d + x < 0 => p.t \notin {"line", "fields"}
  BY <1>0, <1>1, <1>4, LiesTail
<1>6. Lies(u, a, d)
  <2>1. /\ d + Len(s) >= 0 => d + Len(s) + 1 <= Len(a) /\ p = a[d + Len(s) + 1]
        /\ d + Len(s) < 0 => p.t \notin {"line", "fields"}
    BY <1>3, <1>5
  <2>2. Lies(Append(s, p), a, d)
    BY <1>4, <2>1, LiesAppend
  <2> QED BY <1>1, <2>2
<1>7. (d + x) + 1 = d + Len(u) /\ d + Len(u) + Len(v) = d + x + y
  BY <1>2, <1>3
<1> QED BY <1>0, <1>1, <1>3, <1>4, <1>5, <1>6, <1>7 DEF Stream, Follow

(* The last piece. *)
LEMMA OneLeft ==
    ASSUME NEW S, NEW t \in Seq(S), Len(t) = 1
    PROVE  t # << >> /\ Tail(t) = << >>
<1>1. t # << >>
  OBVIOUS
<1>2. Tail(t) \in Seq(S) /\ Len(Tail(t)) = 0
  BY <1>1, NonEmpty
<1> QED BY <1>1, <1>2, EmptyLen

(* It closes the connection after its answer. *)
LEMMA StreamEnds ==
    ASSUME NEW S, NEW s \in Seq(S), NEW t \in Seq(S), NEW a \in Seq(S), NEW z \in Int, NEW d \in Int,
           Stream(s, t, "open", a, z, d), Len(t) = 1, Head(t).t = "eof",
           \A i \in 1..Len(a) : a[i].t = "eof" => z = Len(a) - 1
    PROVE  Stream(s, Tail(t), "closed", a, z, d)
<1>0. t # << >> /\ Tail(t) = << >>
  BY OneLeft
<1>1. Tail(t) = << >>
  BY <1>0
<1>2. PICK x \in Nat, m \in Nat : x = Len(s) /\ m = Len(a)
  OBVIOUS
<1>3. Lies(s, a, d) /\ Lies(t, a, d + x) /\ d + x + 1 <= m
  BY <1>2 DEF Stream, Follow
<1>4. Lies(<< >>, a, d + x) /\ Len(<< >>) = 0
  BY LiesBefore
<1>5. Follow(s, << >>, a, d)
  BY <1>2, <1>3, <1>4 DEF Follow
<1>6. FullTo("closed", a, z, d + x)
  <2>1. d + x + 1 <= 0 \/ d + x + 1 = m
    BY <1>2 DEF Stream, FullTo
  <2>2. CASE d + x >= 0
    <3>1. (d + x) + 1 \in 1..m /\ a[(d + x) + 1].t = "eof"
      BY <1>0, <1>2, <1>3, <2>2, LiesTail
    <3>2. z = m - 1
      BY <1>2, <3>1
    <3> QED BY <2>1, <2>2, <3>2 DEF FullTo
  <2>3. CASE d + x < 0
    BY <2>3 DEF FullTo
  <2> QED BY <2>2, <2>3
<1>7. d + Len(s) + Len(<< >>) = d + x
  BY <1>2, <1>4
<1> QED BY <1>1, <1>5, <1>6, <1>7 DEF Stream

(* It closes the connection, in the middle of an answer or not. *)
LEMMA StreamCloses ==
    ASSUME NEW S, NEW s \in Seq(S), NEW t \in Seq(S), NEW a \in Seq(S), NEW z \in Int, NEW d \in Int,
           Stream(s, t, "open", a, z, d)
    PROVE  Stream(s, << >>, IF t = << >> THEN "closed" ELSE "cut", a, z, d)
<1>1. PICK x \in Nat, y \in Nat, m \in Nat : x = Len(s) /\ y = Len(t) /\ m = Len(a)
  OBVIOUS
<1>2. Lies(<< >>, a, d + x) /\ Len(<< >>) = 0
  BY LiesBefore
<1>3. d + Len(s) + Len(<< >>) = d + x /\ d + x + y <= m /\ d + x <= m
  BY <1>1, <1>2 DEF Stream, Follow
<1>4. Follow(s, << >>, a, d)
  BY <1>1, <1>2, <1>3 DEF Stream, Follow
<1>5. CASE t # << >>
  BY <1>4, <1>5 DEF Stream, FullTo
<1>6. CASE t = << >>
  <2>1. d + x <= 0 \/ d + x = m
    BY <1>1, <1>6 DEF Stream, FullTo
  <2> QED BY <1>1, <1>3, <1>4, <1>6, <2>1 DEF Stream, FullTo
<1> QED BY <1>5, <1>6

(* A buffer takes what has arrived. *)
LEMMA StreamTaken ==
    ASSUME NEW S, NEW s \in Seq(S), NEW t \in Seq(S), NEW a \in Seq(S), NEW z \in Int, NEW d \in Int, NEW l,
           Stream(s, t, l, a, z, d)
    PROVE  Lies(s, a, d) /\ Stream(<< >>, t, l, a, z, d + Len(s))
<1>1. PICK x \in Nat, y \in Nat : x = Len(s) /\ y = Len(t)
  OBVIOUS
<1>2. Lies(<< >>, a, d + x) /\ Len(<< >>) = 0
  BY LiesBefore
<1>3. (d + x) + Len(<< >>) = d + x /\ (d + x) + Len(<< >>) + Len(t) = d + Len(s) + Len(t)
  BY <1>1, <1>2
<1> QED BY <1>1, <1>2, <1>3 DEF Stream, Follow

(* The server answers. *)
LEMMA StreamWritten ==
    ASSUME NEW S, NEW s \in Seq(S), NEW t \in Seq(S), NEW a \in Seq(S), NEW z \in Int, NEW d \in Int, NEW l,
           Headless(s), Headless(t), d + Len(s) + Len(t) = 0
    PROVE  Stream(s, t \o a, l, a, z, d)
<1>1. PICK x \in Nat, y \in Nat : x = Len(s) /\ y = Len(t) /\ d + x + y = 0
  OBVIOUS
<1>2. d + x \in Int /\ (d + x) + y = 0 /\ d + x <= 0
  BY <1>1
<1>3. Lies(s, a, d)
  BY <1>1, <1>2, LiesBefore
<1>4. Lies(t \o a, a, d + x)
  BY <1>1, <1>2, LiesScript
<1>5. Len(t \o a) = y + Len(a) /\ Len(a) \in Nat
  BY <1>1
<1>6. d + x + Len(t \o a) = Len(a)
  BY <1>1, <1>5
<1> QED BY <1>1, <1>3, <1>4, <1>5, <1>6 DEF Stream, Follow, FullTo

-----------------------------------------------------------------------------
(* The scripts.  Of a script, the size is the number of its pieces but for  *)
(* the end of the connection.                                               *)
SizeOf(a, r) == IF r.after = "close" THEN Len(a) - 1 ELSE Len(a)

Script(k) == Answer(k, reply[k])
Size(k) == SizeOf(Script(k), reply[k])

PieceRecords == [k : Calls, t : PieceTypes, f : Framings]

(* The pieces of a message. *)
MessageIs(m, k, c, announced) ==
    /\ m \in Seq(PieceRecords) /\ Len(m) = 2 + Len(c) /\ m[1].t = "line" /\ m[2].t = "fields"
    /\ \A i \in 1..Len(c) : m[i + 2].t = c[i]
    /\ \A i \in 1..Len(m) : m[i].k = k /\ m[i].f = announced

(* The pieces of a message, one by one. *)
LEMMA MessagePieces ==
    ASSUME NEW k \in Calls, NEW framing, NEW announced \in Framings
    PROVE  MessageIs(Message(k, framing, announced), k, Contents(framing), announced)
<1>1. PICK c \in Seq(ContentTypes) : c = Contents(framing)
  BY ContentsShape
<1>2. PICK s \in Seq(PieceTypes) : s = << "line", "fields" >> \o c
  <2>1. c \in Seq(PieceTypes)
    BY SeqGrows DEF PieceTypes
  <2>2. << "line", "fields" >> \in Seq(PieceTypes)
    BY DEF PieceTypes
  <2>3. << "line", "fields" >> \o c \in Seq(PieceTypes)
    BY <2>1, <2>2
  <2> QED BY <2>3
<1>3. /\ Len(c) \in Nat /\ Len(s) = 2 + Len(c) /\ s[1] = "line" /\ s[2] = "fields"
      /\ \A i \in 1..Len(c) : s[i + 2] = c[i] /\ i + 2 \in 1..Len(s)
  BY <1>2
<1>4. PICK m : m = Message(k, framing, announced)
  OBVIOUS
<1>5. m = [i \in 1..Len(s) |-> [k |-> k, t |-> s[i], f |-> announced]]
  BY <1>1, <1>2, <1>4 DEF Message
<1>6. \A i \in 1..Len(s) : [k |-> k, t |-> s[i], f |-> announced] \in PieceRecords
  BY DEF PieceRecords
<1>7. /\ m \in Seq(PieceRecords) /\ Len(m) = Len(s)
      /\ \A i \in 1..Len(m) : m[i].t = s[i] /\ m[i].k = k /\ m[i].f = announced
  BY <1>3, <1>5, <1>6
<1>8. 1 \in 1..Len(m) /\ 2 \in 1..Len(m)
  BY <1>3, <1>7
<1>9. MessageIs(m, k, c, announced)
  BY <1>3, <1>7, <1>8 DEF MessageIs
<1> QED BY <1>1, <1>4, <1>9

(* What a script begins with, carries, and ends in. *)
ScriptIs(a, z, k, r) ==
    /\ a \in Seq(PieceRecords) /\ Len(a) \in Nat /\ z \in Nat /\ z >= 2
    /\ z = Len(a) \/ (z = Len(a) - 1 /\ a[Len(a)].t = "eof")
    /\ \A i \in 1..Len(a) : a[i].k = k /\ (a[i].t = "eof" => i = Len(a) /\ z = Len(a) - 1)
    /\ a[1].t = "line" /\ a[2].t = "fields"
    /\ a[2].f = CASE r.framing = "interim" -> "empty" [] r.framing = "head" -> "small" [] OTHER -> r.framing
    /\ r.framing # "interim" => \A i \in 1..Len(a) : i >= 3 => a[i].t \notin {"line", "fields"}
    /\ r.framing = "large" => z = 4 /\ a[3].t = "data" /\ a[4].t = "data"
    /\ r.framing \in {"small", "close"} => z = 3 /\ a[3].t = "data"
    /\ r.framing = "switching" => z = 4 /\ a[3].t = "proto" /\ a[4].t = "proto"
    /\ r.framing = "chunked" => z = 5 /\ a[3].t = "chunk" /\ a[4].t = "last" /\ a[5].t = "crlf"
    /\ r.framing = "trailers" => z = 6 /\ a[3].t = "chunk" /\ a[4].t = "last" /\ a[5].t = "trailers" /\ a[6].t = "crlf"
    /\ r.framing \in {"empty", "head"} => z = 2

(* The end of the connection behind a message. *)
EndOf(k, r) == IF r.after = "close" THEN << [k |-> k, t |-> "eof", f |-> r.framing] >> ELSE << >>

Ended(a, m, k, r) ==
    /\ a \in Seq(PieceRecords) /\ Len(m) = SizeOf(a, r) /\ Len(m) \in Nat /\ Len(a) \in Nat /\ Len(m) >= 2
    /\ Len(m) = Len(a) \/ (Len(m) = Len(a) - 1 /\ a[Len(a)].t = "eof")
    /\ \A i \in 1..Len(m) : a[i] = m[i]
    /\ \A i \in 1..Len(a) : a[i].k = k /\ (a[i].t = "eof" => i = Len(a) /\ Len(m) = Len(a) - 1)
    /\ \A i \in 1..Len(a) : i \in 1..Len(m) \/ a[i].t = "eof"

(* A message with the end of the connection behind it. *)
LEMMA EndBehind ==
    ASSUME NEW k \in Calls, NEW r \in ReplyRecords, NEW m \in Seq(PieceRecords), Len(m) >= 2,
           \A i \in 1..Len(m) : m[i].k = k /\ m[i].t # "eof"
    PROVE  Ended(m \o EndOf(k, r), m, k, r)
<1>1. r.framing \in Framings
  BY DEF ReplyRecords, Framings
<1>2. PICK x \in Seq(PieceRecords) : x = EndOf(k, r)
  <2>1. [k |-> k, t |-> "eof", f |-> r.framing] \in PieceRecords
    BY <1>1 DEF PieceRecords, PieceTypes
  <2>2. EndOf(k, r) \in Seq(PieceRecords)
    BY <2>1 DEF EndOf
  <2> QED BY <2>2
<1>3. PICK y \in 0..1 : y = Len(x) /\ y = (IF r.after = "close" THEN 1 ELSE 0) /\ (y = 1 => x[1].t = "eof" /\ x[1].k = k)
  <2>1. CASE r.after = "close"
    BY <1>2, <2>1 DEF EndOf
  <2>2. CASE r.after # "close"
    BY <1>2, <2>2 DEF EndOf
  <2> QED BY <2>1, <2>2
<1>4. PICK a \in Seq(PieceRecords) : a = m \o x
  BY Concatenated
<1>5. /\ Len(m) \in Nat /\ Len(x) \in Nat /\ Len(a) = Len(m) + Len(x)
      /\ (\A i \in 1..Len(m) : a[i] = m[i]) /\ \A i \in 1..Len(x) : a[Len(m) + i] = x[i]
  BY <1>4, Concatenated
<1>6. PICK l \in Nat : l = Len(m) /\ l >= 2 /\ Len(a) = l + y
  BY <1>3, <1>5
<1>7. ASSUME NEW i \in 1..Len(a), i \notin 1..l
      PROVE  i = Len(a) /\ l = Len(a) - 1 /\ a[i].k = k /\ a[i].t = "eof"
  <2>1. y = 1 /\ i = l + 1 /\ 1 \in 1..Len(x)
    BY <1>3, <1>6, <1>7
  <2>2. a[l + 1] = x[1]
    BY <1>5, <1>6, <2>1
  <2> QED BY <1>3, <1>6, <2>1, <2>2
<1>8. l = SizeOf(a, r)
  BY <1>3, <1>6 DEF SizeOf
<1>9. l = Len(a) \/ (l = Len(a) - 1 /\ a[Len(a)].t = "eof")
  <2>1. CASE y = 0
    BY <1>6, <2>1
  <2>2. CASE y = 1
    <3>1. Len(a) \in 1..Len(a) /\ Len(a) \notin 1..l
      BY <1>6, <2>2
    <3> QED BY <1>7, <3>1
  <2> QED BY <2>1, <2>2
<1>10. \A i \in 1..Len(a) : a[i].k = k /\ (a[i].t = "eof" => i = Len(a) /\ l = Len(a) - 1) /\ (i \in 1..l \/ a[i].t = "eof")
  <2> TAKE i \in 1..Len(a)
  <2>1. CASE i \in 1..l
    BY <1>5, <1>6, <2>1
  <2> QED BY <1>7, <2>1
<1>11. Ended(a, m, k, r)
  <2>1. /\ Len(m) = SizeOf(a, r) /\ Len(m) \in Nat /\ Len(a) \in Nat /\ Len(m) >= 2
        /\ Len(m) = Len(a) \/ (Len(m) = Len(a) - 1 /\ a[Len(a)].t = "eof")
    BY <1>6, <1>8, <1>9
  <2>2. \A i \in 1..Len(a) : a[i].k = k /\ (a[i].t = "eof" => i = Len(a) /\ Len(m) = Len(a) - 1)
    BY <1>6, <1>10
  <2>3. \A i \in 1..Len(a) : i \in 1..Len(m) \/ a[i].t = "eof"
    BY <1>6, <1>10
  <2> QED BY <1>5, <2>1, <2>2, <2>3, Zenon DEF Ended
<1> QED BY <1>2, <1>4, <1>11

(* The pieces of an answer, one by one. *)
LEMMA ScriptPieces ==
    ASSUME NEW k \in Calls, NEW r \in ReplyRecords
    PROVE  ScriptIs(Answer(k, r), SizeOf(Answer(k, r), r), k, r)
<1>1. r.framing \in Framings /\ "empty" \in Framings /\ "small" \in Framings
  BY DEF ReplyRecords, Framings
<1>6. CASE r.framing = "interim"
  <2>1. PICK u \in Seq(PieceRecords) : u = Message(k, "empty", "empty") /\ MessageIs(u, k, << >>, "empty")
    <3>1. Contents("empty") = << >>
      BY DEF Contents
    <3>2. MessageIs(Message(k, "empty", "empty"), k, Contents("empty"), "empty")
      BY <1>1, MessagePieces
    <3>3. Message(k, "empty", "empty") \in Seq(PieceRecords)
      BY <3>2 DEF MessageIs
    <3> QED BY <3>1, <3>2, <3>3
  <2>2. PICK v \in Seq(PieceRecords) : v = Message(k, "small", "small") /\ MessageIs(v, k, << "data" >>, "small")
    <3>1. Contents("small") = << "data" >>
      BY DEF Contents
    <3>2. MessageIs(Message(k, "small", "small"), k, Contents("small"), "small")
      BY <1>1, MessagePieces
    <3>3. Message(k, "small", "small") \in Seq(PieceRecords)
      BY <3>2 DEF MessageIs
    <3> QED BY <3>1, <3>2, <3>3
  <2>3. PICK m \in Seq(PieceRecords) : m = u \o v
    BY Concatenated
  <2>4. Answer(k, r) = m \o EndOf(k, r)
    BY <1>6, <2>1, <2>2, <2>3 DEF Answer, EndOf
  <2>5. Len(u) = 2 /\ Len(v) = 3 /\ v[1].t = "line" /\ v[2].t = "fields" /\ v[3].t = "data"
    <3>1. Len(<< >>) = 0 /\ Len(<< "data" >>) = 1 /\ << "data" >>[1] = "data"
      OBVIOUS
    <3>2. 1 + 2 = 3 /\ 1 \in 1..1
      OBVIOUS
    <3> QED BY <2>1, <2>2, <3>1, <3>2 DEF MessageIs
  <2>6. /\ Len(m) = 5 /\ m[1] = u[1] /\ m[2] = u[2] /\ m[3] = v[1] /\ m[4] = v[2] /\ m[5] = v[3]
    <3>1. Len(m) = Len(u) + Len(v) /\ (\A i \in 1..Len(u) : m[i] = u[i]) /\ (\A i \in 1..Len(v) : m[Len(u) + i] = v[i])
      BY <2>3, Concatenated
    <3>2. m[2 + 1] = v[1] /\ m[2 + 2] = v[2] /\ m[2 + 3] = v[3]
      BY <2>5, <3>1
    <3> QED BY <2>5, <3>1, <3>2
  <2>7. \A i \in 1..Len(m) : m[i].k = k /\ m[i].t # "eof"
    BY <2>1, <2>2, <2>5, <2>6 DEF MessageIs
  <2>8. PICK a : a = Answer(k, r) /\ Ended(a, m, k, r)
    <3>1. Len(m) >= 2
      BY <2>6
    <3>2. Ended(m \o EndOf(k, r), m, k, r)
      BY <2>7, <3>1, EndBehind
    <3> QED BY <2>4, <3>2
  <2>9. Len(m) = 5 /\ a[1] = u[1] /\ a[2] = u[2]
    BY <2>6, <2>8 DEF Ended
  <2>10. u[1].t = "line" /\ u[2].t = "fields" /\ u[2].f = "empty"
    BY <2>1, <2>5 DEF MessageIs
  <2>11. a[2].f = CASE r.framing = "interim" -> "empty" [] r.framing = "head" -> "small" [] OTHER -> r.framing
    BY <1>6, <2>9, <2>10
  <2>12. ScriptIs(a, Len(m), k, r)
    BY <1>6, <2>8, <2>9, <2>10, <2>11 DEF ScriptIs, Ended
  <2> QED BY <2>8, <2>12 DEF Ended
<1>7. CASE r.framing # "interim"
  <2> DEFINE framing == IF r.framing = "head" THEN "empty" ELSE r.framing
             announced == IF r.framing = "head" THEN "small" ELSE r.framing
  <2>1. announced \in Framings
    BY <1>1
  <2>2. PICK c \in Seq(ContentTypes) : c = Contents(framing)
    BY ContentsShape
  <2>3. PICK m \in Seq(PieceRecords) : m = Message(k, framing, announced) /\ MessageIs(m, k, c, announced)
    <3>1. MessageIs(Message(k, framing, announced), k, c, announced)
      BY <2>1, <2>2, MessagePieces
    <3> QED BY <3>1 DEF MessageIs
  <2>4. Answer(k, r) = m \o EndOf(k, r)
    BY <1>7, <2>3 DEF Answer, EndOf
  <2>5. Len(c) \in Nat /\ \A i \in 1..Len(c) : c[i] \in ContentTypes
    OBVIOUS
  <2> DEFINE MessageForm ==
        /\ r.framing = "large" => Len(c) = 2 /\ c[1] = "data" /\ c[2] = "data"
        /\ r.framing \in {"small", "close"} => Len(c) = 1 /\ c[1] = "data"
        /\ r.framing = "switching" => Len(c) = 2 /\ c[1] = "proto" /\ c[2] = "proto"
        /\ r.framing = "chunked" => Len(c) = 3 /\ c[1] = "chunk" /\ c[2] = "last" /\ c[3] = "crlf"
        /\ r.framing = "trailers" => Len(c) = 4 /\ c[1] = "chunk" /\ c[2] = "last" /\ c[3] = "trailers" /\ c[4] = "crlf"
        /\ r.framing \in {"empty", "head"} => Len(c) = 0
  <2>6. MessageForm
    BY <2>2 DEF Contents
  <2>7. /\ announced = (CASE r.framing = "interim" -> "empty" [] r.framing = "head" -> "small" [] OTHER -> r.framing)
    BY <1>7
  <2> HIDE DEF framing, announced
  <2>8. PICK l \in Nat : l = Len(m) /\ l = 2 + Len(c)
    BY <2>3, <2>5 DEF MessageIs
  <2>9. ASSUME NEW i \in 1..Len(m), i >= 3 PROVE m[i].t \in ContentTypes
    <3>1. i - 2 \in 1..Len(c) /\ (i - 2) + 2 = i
      BY <2>5, <2>8, <2>9
    <3> QED BY <2>3, <2>5, <3>1 DEF MessageIs
  <2>10. \A i \in 1..Len(m) : m[i].k = k /\ m[i].t # "eof"
    <3> TAKE i \in 1..Len(m)
    <3>1. i = 1 \/ i = 2 \/ i >= 3
      OBVIOUS
    <3> QED BY <2>3, <2>9, <3>1 DEF MessageIs, ContentTypes
  <2>11. PICK a : a = Answer(k, r) /\ Ended(a, m, k, r)
    <3>1. Len(m) >= 2
      BY <2>5, <2>8
    <3>2. Ended(m \o EndOf(k, r), m, k, r)
      BY <2>10, <3>1, EndBehind
    <3> QED BY <2>4, <3>2
  <2>12. a[1].t = "line" /\ a[2].t = "fields" /\ a[2].f = announced
    <3>1. 1 \in 1..Len(m) /\ 2 \in 1..Len(m)
      BY <2>5, <2>8
    <3> QED BY <2>3, <2>11, <3>1 DEF MessageIs, Ended
  <2>13. \A i \in 1..Len(a) : i >= 3 => a[i].t \notin {"line", "fields"}
    <3> TAKE i \in 1..Len(a)
    <3>1. CASE i \in 1..Len(m)
      BY <2>9, <2>11, <3>1 DEF ContentTypes, Ended
    <3> QED BY <2>11, <3>1 DEF Ended
  <2>14. \A i \in 1..Len(c) : a[i + 2].t = c[i]
    <3> TAKE i \in 1..Len(c)
    <3>1. i + 2 \in 1..Len(m)
      BY <2>5, <2>8
    <3> QED BY <2>3, <2>11, <3>1 DEF MessageIs, Ended
  <2>15. /\ Len(c) >= 1 => a[3].t = c[1]
         /\ Len(c) >= 2 => a[4].t = c[2]
         /\ Len(c) >= 3 => a[5].t = c[3]
         /\ Len(c) >= 4 => a[6].t = c[4]
    <3>1. 1 + 2 = 3 /\ 2 + 2 = 4 /\ 3 + 2 = 5 /\ 4 + 2 = 6
      OBVIOUS
    <3>2. /\ Len(c) >= 1 => a[1 + 2].t = c[1]
          /\ Len(c) >= 2 => a[2 + 2].t = c[2]
          /\ Len(c) >= 3 => a[3 + 2].t = c[3]
          /\ Len(c) >= 4 => a[4 + 2].t = c[4]
      BY <2>5, <2>14
    <3> QED BY <3>1, <3>2
  <2>16. /\ r.framing = "large" => l = 4 /\ a[3].t = "data" /\ a[4].t = "data"
         /\ r.framing \in {"small", "close"} => l = 3 /\ a[3].t = "data"
         /\ r.framing = "switching" => l = 4 /\ a[3].t = "proto" /\ a[4].t = "proto"
         /\ r.framing = "chunked" => l = 5 /\ a[3].t = "chunk" /\ a[4].t = "last" /\ a[5].t = "crlf"
         /\ r.framing = "trailers" => l = 6 /\ a[3].t = "chunk" /\ a[4].t = "last" /\ a[5].t = "trailers" /\ a[6].t = "crlf"
         /\ r.framing \in {"empty", "head"} => l = 2
    <3>1. PICK x \in Nat : x = Len(c) /\ l = 2 + x
      BY <2>5, <2>8
    <3>2. CASE r.framing = "large"
      BY <2>6, <2>15, <3>1, <3>2
    <3>3. CASE r.framing \in {"small", "close"}
      BY <2>6, <2>15, <3>1, <3>3
    <3>4. CASE r.framing = "switching"
      BY <2>6, <2>15, <3>1, <3>4
    <3>5. CASE r.framing = "chunked"
      BY <2>6, <2>15, <3>1, <3>5
    <3>6. CASE r.framing = "trailers"
      BY <2>6, <2>15, <3>1, <3>6
    <3>7. CASE r.framing \in {"empty", "head"}
      BY <2>6, <3>1, <3>7
    <3> QED BY <3>2, <3>3, <3>4, <3>5, <3>6, <3>7
  <2> HIDE DEF MessageForm
  <2>17. ScriptIs(a, l, k, r)
    BY <1>7, <2>7, <2>8, <2>11, <2>12, <2>13, <2>16 DEF ScriptIs, Ended
  <2> QED BY <2>8, <2>11, <2>17 DEF Ended
<1> QED BY <1>6, <1>7

-----------------------------------------------------------------------------
(* Where the calls and the bodies are. *)
Along(c, a, z, d) == Stream(socket[c], todo[c], link[c], a, z, d)
Ahead(k, d) == Along(used[k], Script(k), Size(k), d)

(* The connection of call k goes on where its buffer ends. *)
Straight(k, e) == Lies(buf[k], Script(k), e) /\ Ahead(k, e + Len(buf[k]))

(* The end of the connection is not a piece to read. *)
Arrived ==
    /\ \A c \in Conns : \A i \in 1..Len(socket[c]) : socket[c][i].t # "eof"
    /\ \A k \in Calls : \A i \in 1..Len(buf[k]) : buf[k][i].t # "eof"

(* Two that read from a connection share it. *)
Sharing ==
    \A j \in Calls, k \in Calls :
        j # k /\ used[j] = used[k] /\ Streaming(j) /\ (Streaming(k) \/ (pc # "idle" /\ k = n)) =>
            j \in shared /\ k \in shared

Unread ==
    /\ data \in [Calls -> Seq(PieceRecords)]
    /\ \A k \in Calls : status[k] # "ok" => data[k] = << >> /\ ending[k] = "none"
    /\ \A k \in Calls : Streaming(k) => ending[k] = "none"
    /\ \A k \in Calls : status[k] = "ok" => used[k] \in Conns
    /\ pc \in {"idle", "write"} => got = "nothing"

(* What call n has read of the answer, if no other has read from the        *)
(* connection.                                                              *)
Exact(e) ==
    /\ pc = "parse" /\ got = "line" => e = 1
    /\ pc = "small" => e = 2 /\ reply[n].framing \in {"small", "head"}
    /\ pc = "parse" /\ got \in {"nothing", "blank"} => e <= 0

(* The buffer of call n is at e, and its connection at d. *)
Place(e, d) ==
    /\ Lies(buf[n], Script(n), e) /\ e + Len(buf[n]) <= d /\ Ahead(n, d)
    /\ pc = "parse" /\ got = "line" => e >= 1
    /\ pc = "small" => e >= 2
    /\ n \notin shared => e + Len(buf[n]) = d /\ Exact(e)

Placed == \E e \in Int, d \in Int : Place(e, d)

(* No head of an older answer is left on a connection. *)
Bare(c) == Headless(socket[c]) /\ Headless(todo[c])

OnCall ==
    /\ pc = "write" /\ ~Displaced(n) => Bare(used[n])
    /\ pc \in {"parse", "small"} /\ ~Displaced(n) => Placed

PoolBare == pool # 0 /\ ~Mixed(pool) => Bare(pool)

(* What the application has, x, is what lies behind o in the answer. *)
From(x, a, o, e) == Len(x) = e - o /\ \A i \in 1..(e - o) : x[i] = a[o + i]

(* A body of that kind that expects l, has given x and has read to e. *)
ReadTo(kind, f, l, x, b, a, e) ==
    \/ kind = "Reader" /\ f = "large" /\ e = 4 - l /\ From(x, a, 2, e)
    \/ /\ kind = "Iter" /\ f \in {"chunked", "trailers"}
       /\ \/ l = 1 /\ e \in 2..3 /\ From(x, a, 2, e)
          \/ l = 0 /\ e = 4 /\ From(x, a, 2, 3)
    \/ kind = "Rest" /\ f = "close" /\ e \in 2..3 /\ l = 1 /\ From(x, a, 2, e)
    \/ /\ kind \in {"Extension", "Upgraded"} /\ f = "switching" /\ l = 1
       /\ kind = "Extension" => b = << >>
       /\ \E o \in 2..e : From(x, a, o, e)

BodyAt(k) ==
    /\ answer[k] = k
    /\ \E e \in 2..4 :
        Straight(k, e) /\ ReadTo(body[k], reply[k].framing, left[k], data[k], buf[k], Script(k), e)

OwnBodies == \A k \in Calls \ shared : Streaming(k) /\ ~Displaced(k) => BodyAt(k)

BodyInv == Arrived /\ Sharing /\ Unread /\ OnCall /\ PoolBare /\ OwnBodies /\ BodyIntact

(* The pieces are of the set of all pieces, and scripts are as they are. *)
LEMMA Typed ==
    ASSUME ReuseInv
    PROVE  /\ \A c \in Conns : socket[c] \in Seq(PieceRecords) /\ todo[c] \in Seq(PieceRecords)
           /\ \A k \in Calls : /\ buf[k] \in Seq(PieceRecords) /\ reply[k] \in ReplyRecords
                               /\ ScriptIs(Script(k), Size(k), k, reply[k])
<1>1. SentPieces \subseteq PieceRecords
  BY DEF SentPieces, PieceRecords
<1>2. Replies \cup {NoReply} \subseteq ReplyRecords
  BY ClientAssumption DEF NoReply, ReplyRecords
<1>3. \A k \in Calls : reply[k] \in ReplyRecords
  BY <1>2 DEF ReuseInv, TypeOK
<1>4. \A k \in Calls : ScriptIs(Script(k), Size(k), k, reply[k])
  BY <1>3, ScriptPieces DEF Script, Size
<1>5. ASSUME NEW s \in Seq(SentPieces) PROVE s \in Seq(PieceRecords)
  BY <1>1, SeqGrows
<1> QED BY <1>3, <1>4, <1>5 DEF ReuseInv, Sending

(* A script is a sequence of pieces, and ends once. *)
LEMMA ScriptSeq ==
    ASSUME NEW a, NEW z, NEW k, NEW r, ScriptIs(a, z, k, r)
    PROVE  /\ a \in Seq(PieceRecords) /\ z \in Int /\ Len(a) \in Nat
           /\ \A i \in 1..Len(a) : a[i].t = "eof" => z = Len(a) - 1
  BY DEF ScriptIs

Taken(c) == \E j \in Calls : Fills(j) /\ used[j] = c

(* The server goes on sending: a connection stays where it is. *)
LEMMA AlongKept ==
    ASSUME ReuseInv, Closing, [Next]_vars, ~WriteRequest, NEW c \in Conns, ~Taken(c),
           NEW a \in Seq(PieceRecords), NEW z \in Int, NEW d \in Int, Along(c, a, z, d),
           \A i \in 1..Len(a) : a[i].t = "eof" => z = Len(a) - 1
    PROVE  Along(c, a, z, d)'
<1>0. /\ DOMAIN socket = Conns /\ DOMAIN todo = Conns /\ DOMAIN link = Conns
      /\ socket[c] \in Seq(PieceRecords) /\ todo[c] \in Seq(PieceRecords)
  BY Typed DEF ReuseInv, Sending, TypeOK
<1>1. CASE socket'[c] = socket[c] /\ todo'[c] = todo[c] /\ link'[c] = link[c]
  BY <1>1 DEF Along
<1>2. CASE Empties
  BY <1>1, <1>2 DEF Empties
<1>3. ASSUME NEW j \in Calls, Fills(j) PROVE Along(c, a, z, d)'
  <2>1. used[j] # c
    BY <1>3 DEF Taken
  <2> QED BY <1>0, <1>1, <1>3, <2>1 DEF Fills
<1>4. ASSUME NEW x \in Conns, x # c, ServerSend(x) \/ ServerClose(x) PROVE Along(c, a, z, d)'
  BY <1>0, <1>1, <1>4 DEF ServerSend, ServerClose
<1>5. CASE ServerSend(c)
  <2>0. todo[c] # << >> /\ link[c] = "open"
    BY <1>5 DEF ServerSend, Closing, TypeOK
  <2>1. CASE Head(todo[c]).t = "eof"
    <3>1. Len(todo[c]) = 1
      <4>1. 1 \in 1..Len(todo[c]) /\ Head(todo[c]) = todo[c][1]
        BY <1>0, <2>0, NonEmpty
      <4> QED BY <2>1, <4>1 DEF Closing
    <3>2. Stream(socket[c], Tail(todo[c]), "closed", a, z, d)
      BY <1>0, <2>0, <2>1, <3>1, StreamEnds DEF Along
    <3>3. socket'[c] = socket[c] /\ todo'[c] = Tail(todo[c]) /\ link'[c] = "closed"
      BY <1>0, <1>5, <2>1 DEF ServerSend
    <3> QED BY <3>2, <3>3 DEF Along
  <2>2. CASE Head(todo[c]).t # "eof"
    <3>1. Stream(Append(socket[c], Head(todo[c])), Tail(todo[c]), link[c], a, z, d)
      BY <1>0, <2>0, StreamSends DEF Along
    <3>2. socket'[c] = Append(socket[c], Head(todo[c])) /\ todo'[c] = Tail(todo[c]) /\ link'[c] = link[c]
      BY <1>0, <1>5, <2>2 DEF ServerSend
    <3> QED BY <3>1, <3>2 DEF Along
  <2> QED BY <2>1, <2>2
<1>6. CASE ServerClose(c)
  <2>1. Stream(socket[c], << >>, IF todo[c] = << >> THEN "closed" ELSE "cut", a, z, d)
    BY <1>0, <1>6, StreamCloses DEF Along, ServerClose
  <2>2. socket'[c] = socket[c] /\ todo'[c] = << >> /\ link'[c] = (IF todo[c] = << >> THEN "closed" ELSE "cut")
    BY <1>0, <1>6 DEF ServerClose
  <2> QED BY <2>1, <2>2 DEF Along
<1> QED BY <1>2, <1>3, <1>4, <1>5, <1>6, StreamEffects

(* A buffer takes what has arrived: the connection is behind it. *)
LEMMA AlongTaken ==
    ASSUME ReuseInv, NEW j \in Calls, NEW c \in Conns, Fills(j), used[j] = c,
           NEW a \in Seq(PieceRecords), NEW z \in Int, NEW d \in Int, Along(c, a, z, d)
    PROVE  /\ Lies(socket[c], a, d) /\ buf[j] = << >> /\ buf'[j] = socket[c]
           /\ socket'[c] = << >> /\ todo'[c] = todo[c]
           /\ \E x \in Nat : x = Len(socket[c]) /\ Along(c, a, z, d + x)'
<1>1. /\ DOMAIN buf = Calls /\ DOMAIN socket = Conns
      /\ socket[c] \in Seq(PieceRecords) /\ todo[c] \in Seq(PieceRecords)
  BY Typed DEF ReuseInv, Sending
<1>2. buf[j] = << >> /\ buf'[j] = socket[c] /\ socket'[c] = << >> /\ todo'[c] = todo[c] /\ link'[c] = link[c]
  BY <1>1 DEF Fills
<1>3. PICK x \in Nat : x = Len(socket[c])
  BY <1>1
<1>4. Lies(socket[c], a, d) /\ Stream(<< >>, todo[c], link[c], a, z, d + x)
  <2>1. Stream(socket[c], todo[c], link[c], a, z, d)
    BY DEF Along
  <2> QED BY <1>1, <1>3, <2>1, StreamTaken
<1>5. Along(c, a, z, d + x)'
  BY <1>2, <1>4 DEF Along
<1> QED BY <1>2, <1>3, <1>4, <1>5

-----------------------------------------------------------------------------
(* What the steps do to the bodies. *)
Others ==
    \/ Idle \/ UNCHANGED vars \/ WriteInvalid \/ WriteFails \/ ParseEof
    \/ \E c \in Conns : ServerSend(c) \/ ServerClose(c)

(* The steps that matter to the bodies; the others leave them alone. *)
LEMMA EveryStep ==
    ReuseInv /\ [Next]_vars =>
        \/ Others \/ Request \/ RequestRejected \/ WriteRequest \/ ParsePiece \/ BufferBody
        \/ \E k \in Calls : Fill(k) \/ BodyPiece(k) \/ BodyDone(k) \/ BodyAbandoned(k) \/ IntoUpgraded(k)
<1> SUFFICES ASSUME ReuseInv, [Next]_vars
             PROVE  \/ Others \/ Request \/ RequestRejected \/ WriteRequest \/ ParsePiece \/ BufferBody
                    \/ \E k \in Calls : Fill(k) \/ BodyPiece(k) \/ BodyDone(k) \/ BodyAbandoned(k) \/ IntoUpgraded(k)
  OBVIOUS
<1>1. n > 0 => n \in Calls
  BY Basics DEF ReuseInv
<1> QED BY <1>1 DEF Next, CallStep, BodyStep, Others

(* Bodies come from calls. *)
LEMMA BodyEffects ==
    ASSUME ReuseInv, [Next]_vars, ~Request
    PROVE  /\ UNCHANGED <<used, shared>>
           /\ \A k \in Calls : Streaming(k)' => Streaming(k) \/ (k = n /\ pc # "idle")
           /\ pc' # "idle" => n' = n /\ pc # "idle"
<1> USE DEF callVars, bodyVars, serverVars, Streaming
<1>0. DOMAIN body = Calls
  BY DEF ReuseInv, TypeOK
<1>1. CASE Others
  BY <1>1 DEF Others, Idle, vars, WriteInvalid, WriteFails, ParseEof, Fail, ServerSend, ServerClose
<1>2. CASE RequestRejected \/ WriteRequest
  BY <1>2 DEF RequestRejected, WriteRequest
<1>3. ASSUME NEW j, NEW framing, Return(j, framing), pc # "idle", UNCHANGED <<used, shared>>
      PROVE  pc' = "idle" /\ \A k \in Calls : Streaming(k)' => Streaming(k) \/ (k = n /\ pc # "idle")
  <2>1. body' = [body EXCEPT ![n] = BodyKind(reply[j].conn, framing)] /\ pc' = "idle"
    BY <1>3 DEF Return
  <2> QED BY <1>0, <1>3, <2>1
<1>4. CASE ParsePiece
  <2>1. UNCHANGED <<used, shared>> /\ pc # "idle" /\ n' = n
    BY <1>4 DEF ParsePiece
  <2>2. UNCHANGED body \/ Return(NextPiece(n).k, NextPiece(n).f)
    BY <1>4 DEF ParsePiece
  <2> QED BY <1>3, <2>1, <2>2
<1>5. CASE BufferBody
  <2>1. UNCHANGED <<used, shared>> /\ pc # "idle" /\ n' = n /\ Return(answer[n], "small")
    BY <1>5 DEF BufferBody
  <2> QED BY <1>3, <2>1
<1>6. ASSUME NEW k \in Calls, Fill(k) \/ BodyPiece(k)
      PROVE  UNCHANGED <<used, shared, body, n, pc>>
  BY <1>6 DEF Fill, BodyPiece
<1>7. ASSUME NEW k \in Calls, BodyDone(k) \/ BodyAbandoned(k) \/ IntoUpgraded(k)
      PROVE  UNCHANGED <<used, shared, n, pc>> /\ \A j \in Calls : Streaming(j)' => Streaming(j)
  BY <1>0, <1>7 DEF BodyDone, BodyAbandoned, IntoUpgraded, LetGo
<1> QED BY <1>1, <1>2, <1>4, <1>5, <1>6, <1>7, EveryStep

(* A request shares its connection with the bodies that are still read. *)
LEMMA RequestShares ==
    ASSUME ReuseInv, Request
    PROVE  /\ \E c \in Conns :
                /\ c = (IF pool # 0 THEN pool ELSE opened + 1)
                /\ used' = [used EXCEPT ![n + 1] = c] /\ n + 1 \in Calls /\ DOMAIN used = Calls
                /\ shared \subseteq shared'
                /\ \A j \in Calls : Streaming(j) /\ used[j] = c => j \in shared' /\ n + 1 \in shared'
                /\ \A j \in Calls : j \in shared' =>
                    j \in shared \/ \E i \in Calls : Streaming(i) /\ used[i] = c /\ (j = n + 1 \/ j = i)
           /\ n' = n + 1 /\ pc' = "write" /\ pc = "idle" /\ pool' = 0
           /\ UNCHANGED <<status, answer, got, buf, body, left, data, ending, serverVars>>
<1>1. PICK c \in Conns :
          /\ c = (IF pool # 0 THEN pool ELSE opened + 1) /\ pool' = 0
          /\ used' = [used EXCEPT ![n + 1] = c] /\ n + 1 \in Calls /\ DOMAIN used = Calls
  BY RequestEffect DEF ReuseInv
<1>2. Use(n + 1, c)
  BY <1>1 DEF Request
<1>3. shared' = IF \E j \in Calls : Streaming(j) /\ used[j] = c
                THEN shared \cup {n + 1} \cup {j \in Calls : Streaming(j) /\ used[j] = c}
                ELSE shared
  BY <1>2 DEF Use
<1>4. shared \subseteq shared' /\ \A j \in Calls : Streaming(j) /\ used[j] = c => j \in shared' /\ n + 1 \in shared'
  BY <1>3
<1>5. \A j \in Calls : j \in shared' =>
          j \in shared \/ \E i \in Calls : Streaming(i) /\ used[i] = c /\ (j = n + 1 \/ j = i)
  BY <1>3
<1> QED BY <1>1, <1>4, <1>5 DEF Request

(* Who else reads from the connection: Sharing is preserved. *)
LEMMA SharingStep ==
    ReuseInv /\ Sharing /\ [Next]_vars => Sharing'
<1> SUFFICES ASSUME ReuseInv, Sharing, [Next]_vars, NEW j \in Calls, NEW k \in Calls,
                    j # k, used'[j] = used'[k], Streaming(j)', Streaming(k)' \/ (pc' # "idle" /\ k = n')
             PROVE  j \in shared' /\ k \in shared'
  BY DEF Sharing
<1>1. CASE ~Request
  <2>1. /\ UNCHANGED <<used, shared>>
        /\ Streaming(j) \/ (j = n /\ pc # "idle")
        /\ Streaming(k) \/ (k = n /\ pc # "idle")
    BY <1>1, BodyEffects
  <2> QED BY <2>1 DEF Sharing
<1>2. CASE Request
  <2>1. PICK c \in Conns :
            /\ used' = [used EXCEPT ![n + 1] = c] /\ n + 1 \in Calls /\ DOMAIN used = Calls
            /\ shared \subseteq shared'
            /\ \A i \in Calls : Streaming(i) /\ used[i] = c => i \in shared' /\ n + 1 \in shared'
    BY <1>2, RequestShares
  <2>2. UNCHANGED body /\ n' = n + 1 /\ n \in Nat /\ used[n + 1] = 0
    BY <1>2, <2>1, RequestShares, Basics DEF ReuseInv, Calling
  <2>3. ~Streaming(n + 1) /\ Streaming(j) /\ j # n + 1
    BY <2>1, <2>2 DEF ReuseInv, Reading, Streaming
  <2>4. CASE k = n + 1
    BY <2>1, <2>3, <2>4
  <2>5. CASE k # n + 1
    <3>1. Streaming(k) /\ used[j] = used[k]
      BY <2>1, <2>2, <2>3, <2>5 DEF Streaming
    <3> QED BY <2>1, <2>3, <3>1 DEF Sharing
  <2> QED BY <2>4, <2>5
<1> QED BY <1>1, <1>2

NoEof(s) == \A i \in 1..Len(s) : s[i].t # "eof"

(* A shorter sequence has no end when the longer one has none. *)
LEMMA ShorterNoEof ==
    ASSUME NEW S, NEW x \in Seq(S), NEW y, Shorter(x, y), NoEof(x)
    PROVE  NoEof(y)
<1>1. CASE y = << >>
  BY <1>1 DEF NoEof
<1>2. CASE x # << >> /\ y = Tail(x)
  <2>1. /\ Len(x) \in Nat /\ Tail(x) \in Seq(S) /\ Len(Tail(x)) = Len(x) - 1
        /\ \A i \in 1..(Len(x) - 1) : Tail(x)[i] = x[i + 1]
    BY <1>2, NonEmpty
  <2>2. PICK u \in Seq(S) : u = Tail(x)
    BY <2>1
  <2>3. \A i \in 1..Len(u) : i + 1 \in 1..Len(x) /\ u[i] = x[i + 1]
    BY <2>1, <2>2
  <2>4. NoEof(u)
    BY <2>3 DEF NoEof
  <2> QED BY <1>2, <2>2, <2>4
<1> QED BY <1>1, <1>2 DEF Shorter

(* What is in a BufReader: Arrived is preserved. *)
LEMMA ArrivedStep ==
    ReuseInv /\ Arrived /\ [Next]_vars => Arrived'
<1> SUFFICES ASSUME ReuseInv, Arrived, [Next]_vars
             PROVE  (\A c \in Conns : NoEof(socket'[c])) /\ \A k \in Calls : NoEof(buf'[k])
  BY DEF Arrived, NoEof
<1>0. /\ DOMAIN socket = Conns /\ DOMAIN buf = Calls
      /\ \A c \in Conns : socket[c] \in Seq(PieceRecords) /\ todo[c] \in Seq(PieceRecords) /\ NoEof(socket[c])
      /\ \A k \in Calls : buf[k] \in Seq(PieceRecords) /\ NoEof(buf[k])
  BY Typed DEF ReuseInv, Sending, Arrived, NoEof
<1>1. CASE WriteRequest
  BY <1>0, <1>1 DEF WriteRequest, bodyVars
<1>2. CASE Empties
  BY <1>0, <1>2, ShorterNoEof DEF Empties
<1>3. ASSUME NEW j \in Calls, Fills(j)
      PROVE  (\A c \in Conns : NoEof(socket'[c])) /\ \A k \in Calls : NoEof(buf'[k])
  <2>1. NoEof(<< >>)
    BY DEF NoEof
  <2> QED BY <1>0, <1>3, <2>1 DEF Fills
<1>4. ASSUME NEW x \in Conns, ServerSend(x) \/ ServerClose(x)
      PROVE  (\A c \in Conns : NoEof(socket'[c])) /\ \A k \in Calls : NoEof(buf'[k])
  <2>1. CASE UNCHANGED socket
    BY <1>0, <1>4, <2>1 DEF ServerSend, ServerClose, bodyVars
  <2>2. CASE /\ ServerSend(x) /\ Head(todo[x]).t # "eof"
             /\ socket' = [socket EXCEPT ![x] = Append(@, Head(todo[x]))]
    <3>1. PICK p \in PieceRecords : p = Head(todo[x])
      BY <1>0, <2>2, NonEmpty DEF ServerSend
    <3>2. /\ Len(socket[x]) \in Nat /\ Len(Append(socket[x], p)) = Len(socket[x]) + 1
          /\ Append(socket[x], p)[Len(socket[x]) + 1] = p
          /\ \A i \in 1..Len(socket[x]) : Append(socket[x], p)[i] = socket[x][i]
      BY <1>0, Appended
    <3>3. \A i \in 1..(Len(socket[x]) + 1) : i \in 1..Len(socket[x]) \/ i = Len(socket[x]) + 1
      BY <3>2
    <3>4. NoEof(Append(socket[x], p))
      BY <1>0, <2>2, <3>1, <3>2, <3>3 DEF NoEof
    <3> QED BY <1>0, <2>2, <3>1, <3>4 DEF ServerSend, bodyVars
  <2> QED BY <1>4, <2>1, <2>2 DEF ServerSend, ServerClose
<1> QED BY <1>1, <1>2, <1>3, <1>4, StreamEffects

(* What a body is given, and how it ends. *)
LEMMA UnreadStep ==
    ReuseInv /\ Unread /\ [Next]_vars => Unread'
<1> SUFFICES ASSUME ReuseInv, Unread, [Next]_vars PROVE Unread'
  OBVIOUS
<1> USE DEF callVars, bodyVars, serverVars
<1>0. /\ DOMAIN body = Calls /\ DOMAIN status = Calls /\ DOMAIN ending = Calls /\ DOMAIN data = Calls
      /\ data \in [Calls -> Seq(PieceRecords)]
      /\ pc # "idle" => n \in Calls /\ status[n] = "none"
      /\ \A k \in Calls : buf[k] \in Seq(PieceRecords)
      /\ \A k \in Calls : Streaming(k) => status[k] = "ok" /\ status'[k] = "ok"
      /\ \A k \in Calls : status[k] = "ok" => status'[k] = "ok"
  BY Typed, Settled, Basics DEF ReuseInv, TypeOK, Calling, Reading, Unread
<1>a. pc' \in {"idle", "write"} => got' = "nothing"
  <2>1. CASE Others
    BY <2>1 DEF Others, Idle, vars, WriteInvalid, WriteFails, ParseEof, Fail, ServerSend, ServerClose, Unread
  <2>2. CASE Request \/ RequestRejected \/ WriteRequest \/ ParsePiece
    BY <2>2 DEF Request, RequestRejected, WriteRequest, ParsePiece, ParseLoose, Fail, Return, Unread
  <2>3. CASE BufferBody
    BY <2>3 DEF BufferBody, Return, Unread
  <2>4. ASSUME NEW k \in Calls, Fill(k) \/ BodyPiece(k) \/ BodyDone(k) \/ BodyAbandoned(k) \/ IntoUpgraded(k)
        PROVE  pc' \in {"idle", "write"} => got' = "nothing"
    BY <2>4 DEF Fill, BodyPiece, BodyDone, BodyAbandoned, IntoUpgraded, LetGo, Unread
  <2> QED BY <2>1, <2>2, <2>3, <2>4, EveryStep
<1>b. ASSUME NEW k \in Calls, status'[k] = "ok" PROVE used'[k] \in Conns
  <2>0. n \in Nat /\ Calls = 1..MaxRequests /\ MaxRequests \in Nat /\ (k > n => status[k] = "none")
        /\ (pc # "idle" => n \in Calls /\ used[n] \in Conns)
    BY Basics DEF ReuseInv, Calling
  <2>1. CASE status[k] = "ok"
    <3>1. k \in 1..n
      BY <2>0, <2>1
    <3> QED BY <2>1, <3>1, Past DEF Unread
  <2>2. CASE status[k] # "ok"
    <3>1. k = n /\ pc # "idle" /\ used' = used
      BY <1>0, <1>b, <2>0, <2>2, CallEffects DEF ReuseInv, Untouched, Request, RequestRejected, WriteRequest, Dropped,
            CutOff, ReadsHead, HasHead, Returned, Ends
    <3> QED BY <2>0, <3>1
  <2> QED BY <2>1, <2>2
<1>1. ASSUME UNCHANGED <<data, ending>>, \A k \in Calls : Streaming(k)' => ending[k] = "none" PROVE Unread'
  BY <1>0, <1>a, <1>b, <1>1 DEF Unread
<1>2. ASSUME UNCHANGED <<data, ending, body>> PROVE Unread'
  BY <1>1, <1>2 DEF Unread, Streaming
<1>3. CASE Others \/ Request \/ RequestRejected \/ WriteRequest
  BY <1>2, <1>3 DEF Others, Idle, vars, WriteInvalid, WriteFails, ParseEof, Fail, ServerSend, ServerClose,
     Request, RequestRejected, WriteRequest
<1>4. CASE ParsePiece
  <2>1. UNCHANGED <<data, ending>> /\ pc # "idle"
    BY <1>4 DEF ParsePiece
  <2>2. ~Request
    BY <2>1 DEF Request
  <2> QED BY <1>0, <1>1, <2>1, <2>2, BodyEffects DEF Unread
<1>5. CASE BufferBody
  <2>1. /\ n \in Calls /\ status' = [status EXCEPT ![n] = "ok"]
        /\ data' = [data EXCEPT ![n] = << Head(buf[n]) >>] /\ ending' = [ending EXCEPT ![n] = "whole"]
        /\ body' = [body EXCEPT ![n] = BodyKind(reply[answer[n]].conn, "small")] /\ buf[n] # << >>
    BY <1>0, <1>5 DEF BufferBody, Return, NextPiece
  <2>2. BodyKind(reply[answer[n]].conn, "small") = "none"
    BY DEF BodyKind, Outcome
  <2>3. << Head(buf[n]) >> \in Seq(PieceRecords)
    <3>1. Head(buf[n]) \in PieceRecords
      BY <1>0, <2>1, NonEmpty
    <3> QED BY <3>1
  <2>4. data' \in [Calls -> Seq(PieceRecords)]
    BY <1>0, <2>1, <2>3
  <2> QED BY <1>0, <1>a, <1>b, <2>1, <2>2, <2>4 DEF Unread, Streaming
<1>6. ASSUME NEW k \in Calls, BodyPiece(k) PROVE Unread'
  <2>1. PICK p \in PieceRecords : p = Head(buf[k])
    BY <1>0, <1>6, NonEmpty DEF BodyPiece
  <2>2. data' = data \/ data' = [data EXCEPT ![k] = Append(@, p)]
    BY <1>6, <2>1 DEF BodyPiece, NextPiece
  <2>3. data' \in [Calls -> Seq(PieceRecords)]
    <3>1. Append(data[k], p) \in Seq(PieceRecords)
      BY <1>0, Appended
    <3> QED BY <1>0, <2>2, <3>1
  <2>4. UNCHANGED <<ending, body, status>> /\ status[k] = "ok"
    BY <1>0, <1>6 DEF BodyPiece
  <2> QED BY <1>0, <1>a, <1>b, <2>2, <2>3, <2>4 DEF Unread, Streaming
<1>7. ASSUME NEW k \in Calls, BodyDone(k) \/ BodyAbandoned(k) PROVE Unread'
  <2>1. PICK how \in {"whole", "abandoned"} :
            /\ ending' = [ending EXCEPT ![k] = how] /\ body' = [body EXCEPT ![k] = "none"] /\ UNCHANGED <<data, status>>
            /\ Streaming(k)
    BY <1>7 DEF BodyDone, BodyAbandoned, LetGo
  <2> QED BY <1>0, <1>a, <1>b, <2>1 DEF Unread, Streaming
<1>8. ASSUME NEW k \in Calls, IntoUpgraded(k) PROVE Unread'
  BY <1>0, <1>1, <1>8 DEF IntoUpgraded, Streaming, Unread
<1>9. ASSUME NEW k \in Calls, Fill(k) PROVE Unread'
  BY <1>2, <1>9 DEF Fill
<1> QED BY <1>3, <1>4, <1>5, <1>6, <1>7, <1>8, <1>9, EveryStep

-----------------------------------------------------------------------------
(* Where the calls go. *)
LEMMA NothingHeadless == Headless(<< >>)
  BY DEF Headless

(* Taking the first piece of a sequence without head leaves none. *)
LEMMA TailHeadless ==
    ASSUME NEW S, NEW t \in Seq(S), t # << >>, Headless(t)
    PROVE  Head(t) \in S /\ Head(t).t \notin {"line", "fields"} /\ Tail(t) \in Seq(S) /\ Headless(Tail(t))
<1>1. /\ Len(t) \in Nat /\ Len(t) > 0 /\ Head(t) = t[1] /\ t[1] \in S /\ Tail(t) \in Seq(S) /\ Len(Tail(t)) = Len(t) - 1
      /\ \A i \in 1..(Len(t) - 1) : Tail(t)[i] = t[i + 1]
  BY NonEmpty
<1>2. PICK u \in Seq(S) : u = Tail(t)
  BY <1>1
<1>3. 1 \in 1..Len(t) /\ \A i \in 1..Len(u) : i + 1 \in 1..Len(t) /\ u[i] = t[i + 1]
  BY <1>1, <1>2
<1>4. Headless(u)
  BY <1>3 DEF Headless
<1> QED BY <1>1, <1>2, <1>3, <1>4 DEF Headless

(* Adding a piece of a body adds no head. *)
LEMMA AppendHeadless ==
    ASSUME NEW S, NEW s \in Seq(S), NEW p \in S, Headless(s), p.t \notin {"line", "fields"}
    PROVE  Headless(Append(s, p))
<1>1. /\ Len(s) \in Nat /\ Len(Append(s, p)) = Len(s) + 1
      /\ Append(s, p)[Len(s) + 1] = p /\ \A i \in 1..Len(s) : Append(s, p)[i] = s[i]
  BY Appended
<1>2. \A i \in 1..(Len(s) + 1) : i \in 1..Len(s) \/ i = Len(s) + 1
  BY <1>1
<1> QED BY <1>1, <1>2 DEF Headless

(* Only an answer brings a head. *)
LEMMA BareStays ==
    ASSUME ReuseInv, [Next]_vars, ~WriteRequest, NEW c \in Conns, Bare(c)
    PROVE  Bare(c)'
<1>0. /\ DOMAIN socket = Conns /\ DOMAIN todo = Conns
      /\ socket[c] \in Seq(PieceRecords) /\ todo[c] \in Seq(PieceRecords)
  BY Typed DEF ReuseInv, Sending
<1>1. CASE socket'[c] = socket[c] /\ todo'[c] = todo[c]
  BY <1>1 DEF Bare
<1>2. CASE Empties
  BY <1>1, <1>2 DEF Empties
<1>3. ASSUME NEW j \in Calls, Fills(j) PROVE Bare(c)'
  <2>1. todo'[c] = todo[c] /\ (socket'[c] = socket[c] \/ socket'[c] = << >>)
    BY <1>0, <1>3 DEF Fills
  <2> QED BY <2>1, NothingHeadless DEF Bare
<1>4. ASSUME NEW x \in Conns, x # c, ServerSend(x) \/ ServerClose(x) PROVE Bare(c)'
  BY <1>0, <1>1, <1>4 DEF ServerSend, ServerClose
<1>5. CASE ServerSend(c)
  <2>1. /\ Head(todo[c]) \in PieceRecords /\ Head(todo[c]).t \notin {"line", "fields"} /\ Headless(Tail(todo[c]))
    BY <1>0, <1>5, TailHeadless DEF ServerSend, Bare
  <2>2. PICK p \in PieceRecords : p = Head(todo[c])
    BY <2>1
  <2>3. Headless(Append(socket[c], p))
    BY <1>0, <2>1, <2>2, AppendHeadless DEF Bare
  <2>4. todo'[c] = Tail(todo[c]) /\ (socket'[c] = socket[c] \/ socket'[c] = Append(socket[c], p))
    BY <1>0, <1>5, <2>2 DEF ServerSend
  <2> QED BY <2>1, <2>3, <2>4 DEF Bare
<1>6. CASE ServerClose(c)
  <2>1. socket'[c] = socket[c] /\ todo'[c] = << >>
    BY <1>0, <1>6 DEF ServerClose
  <2> QED BY <2>1, NothingHeadless DEF Bare
<1> QED BY <1>2, <1>3, <1>4, <1>5, <1>6, StreamEffects

(* Behind the head of an answer there is none. *)
LEMMA BareAhead ==
    ASSUME NEW c, NEW a, NEW z, NEW k, NEW r, ScriptIs(a, z, k, r), r.framing # "interim",
           NEW d \in Int, d >= 2, Along(c, a, z, d), socket[c] \in Seq(PieceRecords), todo[c] \in Seq(PieceRecords)
    PROVE  Bare(c)
<1>1. PICK s \in Seq(PieceRecords), t \in Seq(PieceRecords) : s = socket[c] /\ t = todo[c]
  OBVIOUS
<1>2. Len(s) \in Nat /\ Len(t) \in Nat /\ Len(a) \in Nat
  BY DEF ScriptIs
<1>3. Lies(s, a, d) /\ Lies(t, a, d + Len(s))
  BY <1>1 DEF Along, Stream, Follow
<1>4. ASSUME NEW u \in Seq(PieceRecords), NEW o \in Int, o >= 2, Lies(u, a, o) PROVE Headless(u)
  <2>1. ASSUME NEW i \in 1..Len(u) PROVE u[i].t \notin {"line", "fields"}
    <3>1. o + i \in 1..Len(a) /\ o + i >= 3 /\ u[i] = a[o + i]
      BY <1>2, <1>4 DEF Lies
    <3> QED BY <3>1 DEF ScriptIs
  <2> QED BY <2>1 DEF Headless
<1>5. d + Len(s) \in Int /\ d + Len(s) >= 2
  BY <1>2
<1> QED BY <1>1, <1>3, <1>4, <1>5 DEF Bare

(* Before a request is written nothing is left of an older response. *)
LEMMA WriteBare ==
    ASSUME ReuseInv, Closing, OnCall, PoolBare, [Next]_vars, pc' = "write", ~Displaced(n)'
    PROVE  Bare(used[n])'
<1>0. /\ n \in Nat /\ MaxRequests \in Nat /\ Calls = 1..MaxRequests /\ Conns = 1..MaxRequests
      /\ opened \in Nat /\ pool \in 0..MaxRequests /\ n <= MaxRequests
      /\ pc # "idle" => n \in Calls /\ used[n] \in Conns
  BY Basics DEF ReuseInv, TypeOK
<1>1. CASE Request
  <2>1. PICK c \in Conns :
            /\ c = (IF pool # 0 THEN pool ELSE opened + 1)
            /\ used' = [used EXCEPT ![n + 1] = c] /\ n + 1 \in Calls /\ DOMAIN used = Calls
            /\ n' = n + 1 /\ UNCHANGED <<status, serverVars>>
    BY <1>1, RequestEffect DEF ReuseInv
  <2>2. used'[n'] = c /\ UNCHANGED <<status, reply, todo, socket>>
    BY <2>1 DEF serverVars
  <2>3. Bare(c)
    <3>1. CASE pool # 0
      <4>1. ASSUME Mixed(pool) PROVE FALSE
        <5>1. PICK j \in 1..n : used[j] = pool /\ (reply[j].framing = "interim" \/ status[j] = "stray")
          BY <4>1 DEF Mixed
        <5>2. j \in 1..(n' - 1) /\ j \in Calls /\ j # n + 1 /\ n' = n + 1
          BY <1>0, <2>1
        <5>3. used'[j] = used[j] /\ c = pool
          BY <2>1, <3>1, <5>2
        <5>4. used'[j] = used'[n'] /\ (reply'[j].framing = "interim" \/ status'[j] = "stray")
          BY <2>2, <5>1, <5>3
        <5> QED BY <5>2, <5>4 DEF Displaced
      <4> QED BY <2>1, <3>1, <4>1 DEF PoolBare
    <3>2. CASE pool = 0
      <4>1. todo[c] = << >> /\ socket[c] = << >>
        BY <1>0, <2>1, <3>2 DEF Closing
      <4> QED BY <4>1, NothingHeadless DEF Bare
    <3> QED BY <3>1, <3>2
  <2> QED BY <2>2, <2>3 DEF Bare
<1>2. CASE ~Request
  <2>1. pc = "write" /\ n' = n /\ used' = used /\ ~WriteRequest
    BY <1>2, CallEffects DEF ReuseInv, Untouched, RequestRejected, WriteRequest, Dropped, CutOff,
          ReadsHead, HasHead, Returned, Ends
  <2>2. n \in 1..n
    BY <1>0, <2>1
  <2>3. ~Displaced(n)
    BY <2>1, <2>2, Past
  <2>4. PICK c \in Conns : c = used[n]
    BY <1>0, <2>1
  <2>5. Bare(c)'
    BY <2>1, <2>3, <2>4, BareStays DEF OnCall
  <2> QED BY <2>1, <2>4, <2>5 DEF Bare
<1> QED BY <1>1, <1>2

(* The server answers, or not. *)
LEMMA WrittenPlace ==
    ASSUME ReuseInv, Closing, Unread, OnCall, [Next]_vars, WriteRequest, ~Displaced(n)
    PROVE  Placed'
<1>0. /\ n \in Calls /\ used[n] \in Conns /\ DOMAIN todo = Conns /\ DOMAIN reply = Calls
      /\ pc = "write" /\ pc' = "parse" /\ got = "nothing" /\ buf[n] = << >>
      /\ UNCHANGED <<n, used, got, buf, shared, socket, link>>
  BY Basics DEF WriteRequest, ReuseInv, Sending, TypeOK, Closing, Unread, bodyVars
<1>1. PICK c \in Conns : c = used[n] /\ Bare(c)
  BY <1>0 DEF OnCall
<1>2. PICK s \in Seq(PieceRecords), t \in Seq(PieceRecords) : s = socket[c] /\ t = todo[c] /\ Headless(s) /\ Headless(t)
  BY <1>1, Typed DEF Bare
<1>3. PICK x \in Nat, y \in Nat, d \in Int : x = Len(s) /\ y = Len(t) /\ d = 0 - (x + y)
  <2>1. Len(s) \in Nat /\ Len(t) \in Nat /\ \A x \in Nat, y \in Nat : 0 - (x + y) \in Int
    OBVIOUS
  <2> QED BY <2>1
<1>4. d + x + y = 0 /\ d <= 0
  BY <1>3
<1>5. ASSUME NEW a, NEW z, a = Script(n)', z = Size(n)', Stream(s, todo'[c], link[c], a, z, d)
      PROVE  Placed'
  <2>1. Lies(<< >>, a, d) /\ Len(<< >>) = 0 /\ d + 0 = d
    BY LiesBefore
  <2>2. Along(c, a, z, d)'
    BY <1>0, <1>1, <1>2, <1>5 DEF Along
  <2>3. Ahead(n, d)'
    BY <1>0, <1>1, <1>5, <2>2 DEF Ahead
  <2>4. Place(d, d)'
    BY <1>0, <1>4, <1>5, <2>1, <2>3 DEF Place, Exact
  <2> QED BY <2>4 DEF Placed
<1>6. CASE UNCHANGED <<reply, todo>>
  <2>1. ScriptIs(Script(n), Size(n), n, reply[n])
    BY <1>0, Typed
  <2>2. PICK a \in Seq(PieceRecords), z \in Int : a = Script(n) /\ z = Size(n)
    BY <2>1, ScriptSeq
  <2>3. a = Script(n)' /\ z = Size(n)'
    BY <1>0, <1>6, <2>2 DEF Script, Size
  <2>4. Lies(s, a, d) /\ Lies(t, a, d + x)
    <3>1. d + x <= 0 /\ d + x \in Int
      BY <1>3, <1>4
    <3>2. (d + x) + Len(t) <= 0 /\ d + Len(s) <= 0
      BY <1>3, <1>4, <3>1
    <3> QED BY <1>2, <3>1, <3>2, LiesBefore
  <2>5. d + x + y <= Len(a)
    BY <1>4
  <2>6. Stream(s, t, link[c], a, z, d)
    BY <1>3, <1>4, <2>4, <2>5 DEF Stream, Follow, FullTo
  <2> QED BY <1>2, <1>5, <1>6, <2>3, <2>6
<1>7. ASSUME NEW r \in Replies, reply' = [reply EXCEPT ![n] = r], todo' = [todo EXCEPT ![used[n]] = @ \o Answer(n, r)]
      PROVE  Placed'
  <2>1. r \in ReplyRecords
    BY ClientAssumption
  <2>2. ScriptIs(Answer(n, r), SizeOf(Answer(n, r), r), n, r)
    BY <1>0, <2>1, ScriptPieces
  <2>3. PICK a \in Seq(PieceRecords), z \in Int : a = Answer(n, r) /\ z = SizeOf(Answer(n, r), r)
    BY <2>2, ScriptSeq
  <2>4. a = Script(n)' /\ z = Size(n)'
    BY <1>0, <1>7, <2>3 DEF Script, Size
  <2>5. Stream(s, t \o a, link[c], a, z, d)
    BY <1>2, <1>3, <1>4, StreamWritten
  <2>6. todo'[c] = t \o a
    BY <1>0, <1>1, <1>2, <1>7, <2>3
  <2> QED BY <1>5, <2>4, <2>5, <2>6
<1> QED BY <1>6, <1>7, WriteEffect DEF ReuseInv

(* What becomes of the buffer of call n, while it is under way. *)
LEMMA BufferStays ==
    ASSUME ReuseInv, [Next]_vars, pc \in {"parse", "small"}, pc' # "idle", ~ParsePiece
    PROVE  UNCHANGED <<n, pc, used, shared, reply, got>> /\ (Fills(n) \/ buf'[n] = buf[n])
<1> USE DEF callVars, bodyVars, serverVars
<1>0. /\ n \in Calls /\ used[n] \in Conns /\ DOMAIN buf = Calls /\ ~Streaming(n)
  BY Basics DEF ReuseInv, Sending, Calling, Reading
<1>1. CASE Others
  BY <1>1 DEF Others, Idle, vars, WriteInvalid, WriteFails, ParseEof, Fail, ServerSend, ServerClose
<1>2. CASE Request \/ RequestRejected \/ WriteRequest \/ BufferBody
  BY <1>2 DEF Request, RequestRejected, WriteRequest, BufferBody, Return
<1>3. ASSUME NEW k \in Calls, Fill(k)
      PROVE  UNCHANGED <<n, pc, used, shared, reply, got>> /\ (Fills(n) \/ buf'[n] = buf[n])
  <2>1. k = n => Fills(n)
    BY <1>0, <1>3 DEF Fill, Fills
  <2> QED BY <1>0, <1>3, <2>1 DEF Fill
<1>4. ASSUME NEW k \in Calls, BodyPiece(k) \/ BodyDone(k) \/ BodyAbandoned(k) \/ IntoUpgraded(k)
      PROVE  UNCHANGED <<n, pc, used, shared, reply, got>> /\ buf'[n] = buf[n]
  <2>1. k # n
    BY <1>0, <1>4 DEF BodyPiece, BodyDone, BodyAbandoned, IntoUpgraded, Streaming
  <2> QED BY <1>0, <1>4, <2>1 DEF BodyPiece, BodyDone, BodyAbandoned, IntoUpgraded, LetGo, Consume
<1> QED BY <1>1, <1>2, <1>3, <1>4, EveryStep

(* Only who shares a connection reads from it beside call n. *)
LEMMA OthersShare ==
    ASSUME ReuseInv, Sharing, pc # "idle", Taken(used[n]), ~Fills(n)
    PROVE  n \in shared
<1>1. n \in Calls
  BY Basics DEF ReuseInv
<1>2. PICK j \in Calls : Fills(j) /\ used[j] = used[n]
  BY DEF Taken
<1>3. Streaming(j) /\ j # n
  BY <1>2 DEF Fills, Reads, Streaming
<1> QED BY <1>1, <1>2, <1>3 DEF Sharing

(* The call reads the next line. *)
LEMMA ParseGoes ==
    ASSUME ReuseInv, [Next]_vars, ParsePiece, pc' # "idle"
    PROVE  LET p == Head(buf[n])
           IN  /\ pc = "parse" /\ buf[n] # << >> /\ buf'[n] = Tail(buf[n])
               /\ UNCHANGED <<n, used, shared, reply, socket, todo, link>>
               /\ \/ pc' = "parse" /\ p.t # "fields" /\ got' = HeadAfter(got, p.t)
                  \/ pc' = "small" /\ got = "line" /\ p.t = "fields" /\ p.f = "small"
<1> USE DEF callVars, bodyVars, serverVars, NextPiece
<1>0. n \in Calls /\ DOMAIN buf = Calls /\ pc = "parse" /\ buf[n] # << >>
      /\ UNCHANGED <<n, used, shared, reply, socket, todo, link>>
  BY Basics DEF ReuseInv, Sending, ParsePiece
<1>1. CASE ~HeadEnds(got, Head(buf[n]).t) /\ Consume(n) /\ got' = HeadAfter(got, Head(buf[n]).t) /\ UNCHANGED pc
  BY <1>0, <1>1 DEF HeadEnds, Consume
<1>2. CASE ParseLoose(Head(buf[n]).t) \/ Fail
  BY <1>2 DEF ParseLoose, Fail
<1>3. CASE got = "line" /\ Head(buf[n]).t = "fields" /\ Head(buf[n]).f = "small" /\ Consume(n) /\ pc' = "small"
  BY <1>0, <1>3 DEF Consume
<1>4. CASE Return(Head(buf[n]).k, Head(buf[n]).f)
  BY <1>4 DEF Return
<1> QED BY <1>1, <1>2, <1>3, <1>4 DEF ParsePiece

(* The call under way stays in its place, and reads on. *)
LEMMA PlaceGoes ==
    ASSUME ReuseInv, Closing, Sharing, [Next]_vars, Placed, pc \in {"parse", "small"}, pc' # "idle"
    PROVE  Placed'
<1>0. n \in Calls /\ used[n] \in Conns /\ DOMAIN buf = Calls /\ buf[n] \in Seq(PieceRecords)
      /\ ScriptIs(Script(n), Size(n), n, reply[n])
  BY Basics, Typed DEF ReuseInv, Sending
<1>1. PICK a \in Seq(PieceRecords), z \in Int : a = Script(n) /\ z = Size(n)
  BY <1>0, ScriptSeq
<1>2. PICK c \in Conns : c = used[n]
  BY <1>0
<1>3. PICK e \in Int, d \in Int : Place(e, d)
  BY DEF Placed
<1>4. PICK b \in Seq(PieceRecords), m \in Nat : b = buf[n] /\ m = Len(b)
  BY <1>0
<1>5. /\ Lies(b, a, e) /\ e + m <= d /\ Along(c, a, z, d)
      /\ pc = "parse" /\ got = "line" => e >= 1
      /\ pc = "small" => e >= 2
      /\ n \notin shared => e + m = d /\ Exact(e)
  BY <1>1, <1>2, <1>3, <1>4 DEF Place, Ahead
<1>s. ScriptIs(a, z, n, reply[n]) /\ Len(a) \in Nat
      /\ \A i \in 1..Len(a) : a[i].t = "eof" => z = Len(a) - 1
  BY <1>0, <1>1, ScriptSeq
<1>6. CASE ~ParsePiece
  <2>0. UNCHANGED <<n, pc, used, shared, reply, got>> /\ (Fills(n) \/ buf'[n] = buf[n])
    BY <1>6, BufferStays
  <2>1. a = Script(n)' /\ z = Size(n)' /\ c = used'[n']
    BY <1>1, <1>2, <2>0 DEF Script, Size
  <2>2. \A x \in Int : Exact(x)' <=> Exact(x)
    BY <2>0 DEF Exact
  <2>3. CASE Fills(n)
    <3>1. PICK x \in Nat : x = Len(socket[c]) /\ Along(c, a, z, d + x)'
      BY <1>0, <1>2, <1>5, <2>3, AlongTaken
    <3>2. Lies(socket[c], a, d) /\ buf[n] = << >> /\ buf'[n] = socket[c]
      BY <1>0, <1>2, <1>5, <2>3, AlongTaken
    <3>3. m = 0 /\ e <= d /\ d + x \in Int
      <4>1. m = 0
        BY <1>4, <3>2
      <4> QED BY <1>5, <4>1
    <3>4. Ahead(n, d + x)'
      BY <2>1, <3>1 DEF Ahead
    <3>5. Lies(buf[n], Script(n), d)' /\ Len(buf'[n]) = x
      BY <2>0, <2>1, <3>1, <3>2
    <3>6. n \notin shared => e = d
      BY <1>5, <3>3
    <3>7. /\ (pc = "parse" /\ got = "line" => d >= 1) /\ (pc = "small" => d >= 2)
      BY <1>5, <3>3
    <3>8. Place(d, d + x)'
      BY <1>5, <2>0, <2>2, <3>3, <3>4, <3>5, <3>6, <3>7 DEF Place
    <3> QED BY <3>3, <3>8 DEF Placed
  <2>4. CASE ~Fills(n)
    <3>0. Lies(buf[n], Script(n), e)' /\ Len(buf'[n]) = m /\ n' = n
      BY <1>4, <1>5, <2>0, <2>1, <2>4
    <3>1. CASE Taken(c)
      <4>1. n \in shared
        BY <1>2, <2>4, <3>1, OthersShare
      <4>2. PICK x \in Nat : Along(c, a, z, d + x)'
        <5>1. PICK j \in Calls : Fills(j) /\ used[j] = c
          BY <3>1 DEF Taken
        <5> QED BY <1>5, <5>1, AlongTaken
      <4>3. Ahead(n, d + x)' /\ d + x \in Int /\ e + m <= d + x
        BY <1>5, <2>1, <4>2 DEF Ahead
      <4>4. Place(e, d + x)'
        BY <1>5, <2>0, <3>0, <4>1, <4>3 DEF Place
      <4> QED BY <4>3, <4>4 DEF Placed
    <3>2. CASE ~Taken(c)
      <4>1. ~WriteRequest
        BY DEF WriteRequest
      <4>2. Along(c, a, z, d)'
        BY <1>5, <1>s, <3>2, <4>1, AlongKept
      <4>3. Ahead(n, d)'
        BY <2>1, <4>2 DEF Ahead
      <4>4. Place(e, d)'
        BY <1>5, <2>0, <2>2, <3>0, <4>3 DEF Place
      <4> QED BY <4>4 DEF Placed
    <3> QED BY <3>1, <3>2
  <2> QED BY <2>3, <2>4
<1>7. CASE ParsePiece
  <2>0. /\ pc = "parse" /\ b # << >> /\ buf'[n] = Tail(b)
        /\ UNCHANGED <<n, used, shared, reply, socket, todo, link>>
        /\ \/ pc' = "parse" /\ Head(b).t # "fields" /\ got' = HeadAfter(got, Head(b).t)
           \/ pc' = "small" /\ got = "line" /\ Head(b).t = "fields" /\ Head(b).f = "small"
    BY <1>4, <1>7, ParseGoes
  <2>1. a = Script(n)' /\ z = Size(n)' /\ c = used'[n'] /\ n' = n
    BY <1>1, <1>2, <2>0 DEF Script, Size
  <2>2. Ahead(n, d)'
    BY <1>5, <2>0, <2>1 DEF Ahead, Along
  <2>3. /\ Lies(Tail(b), a, e + 1) /\ m > 0 /\ Len(Tail(b)) = m - 1
        /\ e >= 0 => e + 1 \in 1..Len(a) /\ Head(b) = a[e + 1]
        /\ e < 0 => Head(b).t \notin {"line", "fields"}
    <3>1. Len(b) > 0 /\ Len(Tail(b)) = Len(b) - 1
      BY <2>0, NonEmpty
    <3>2. Lies(Tail(b), a, e + 1)
      BY <1>5, <2>0, LiesTail
    <3>3. 1 \in 1..Len(b) /\ Head(b) = b[1]
      BY <1>4, <2>0, NonEmpty
    <3>4. IF e + 1 >= 1 THEN e + 1 <= Len(a) /\ b[1] = a[e + 1] ELSE b[1].t \notin {"line", "fields"}
      BY <1>5, <3>3 DEF Lies
    <3> QED BY <1>4, <1>s, <3>1, <3>2, <3>3, <3>4
  <2>4. e + 1 \in Int /\ (e + 1) + (m - 1) = e + m
    OBVIOUS
  <2>5. Lies(buf[n], Script(n), e + 1)' /\ Len(buf'[n]) = m - 1
    BY <2>0, <2>1, <2>3
  <2>6. ASSUME pc' = "parse" /\ got' = "line" => e + 1 >= 1, pc' = "small" => e + 1 >= 2,
               n \notin shared => Exact(e + 1)'
        PROVE  Placed'
    <3>1. Place(e + 1, d)'
      BY <1>5, <2>0, <2>1, <2>2, <2>4, <2>5, <2>6 DEF Place
    <3> QED BY <2>4, <3>1 DEF Placed
  <2>7. CASE pc' = "parse" /\ Head(b).t # "fields" /\ got' = HeadAfter(got, Head(b).t)
    <3>1. got' = "line" => Head(b).t = "line" /\ got \in {"nothing", "blank"}
      BY <2>7 DEF HeadAfter
    <3>2. got' = "blank" => Head(b).t = "crlf" /\ got = "nothing"
      BY <2>7 DEF HeadAfter
    <3>3. got' # "nothing"
      BY <2>7 DEF HeadAfter
    <3>4. got' = "line" => e >= 0
      BY <2>3, <3>1
    <3>5. ASSUME n \notin shared PROVE Exact(e + 1)'
      <4>1. got \in {"nothing", "blank"} => e <= 0
        BY <1>5, <2>0, <3>5 DEF Exact
      <4>2. got' = "line" => e + 1 = 1
        BY <3>1, <3>4, <4>1
      <4>3. got' = "blank" => e + 1 <= 0
        <5>1. ASSUME got' = "blank", e = 0 PROVE FALSE
          <6>1. a[1].t = "line" /\ Head(b) = a[e + 1] /\ e + 1 = 1
            BY <1>s, <2>3, <5>1 DEF ScriptIs
          <6> QED BY <3>2, <5>1, <6>1
        <5> QED BY <3>2, <4>1, <5>1
      <4> QED BY <2>7, <3>3, <4>2, <4>3 DEF Exact
    <3> QED BY <2>6, <2>7, <3>4, <3>5
  <2>8. CASE pc' = "small" /\ got = "line" /\ Head(b).t = "fields" /\ Head(b).f = "small"
    <3>1. e >= 1
      BY <1>5, <2>0, <2>8
    <3>2. ASSUME n \notin shared PROVE Exact(e + 1)'
      <4>1. e = 1
        BY <1>5, <2>0, <2>8, <3>2 DEF Exact
      <4>2. a[2].f = "small" /\ e + 1 = 2
        BY <2>3, <2>8, <4>1
      <4>3. reply[n].framing \in {"small", "head"}
        BY <1>s, <4>2 DEF ScriptIs
      <4> QED BY <2>0, <2>1, <2>8, <4>2, <4>3 DEF Exact
    <3> QED BY <2>6, <2>8, <3>1, <3>2
  <2> QED BY <2>0, <2>7, <2>8
<1> QED BY <1>6, <1>7

(* Where the pieces of the call under way lie: OnCall is preserved. *)
LEMMA OnCallStep ==
    ReuseInv /\ Closing /\ Sharing /\ Unread /\ PoolBare /\ OnCall /\ [Next]_vars => OnCall'
<1> SUFFICES ASSUME ReuseInv, Closing, Sharing, Unread, PoolBare, OnCall, [Next]_vars PROVE OnCall'
  OBVIOUS
<1>1. ASSUME pc' = "write", ~Displaced(n)' PROVE Bare(used[n])'
  BY <1>1, WriteBare
<1>2. ASSUME pc' \in {"parse", "small"}, ~Displaced(n)' PROVE Placed'
  <2>1. n' = n /\ (WriteRequest \/ pc \in {"parse", "small"})
    BY <1>2, CallEffects DEF ReuseInv, Untouched, Request, RequestRejected, WriteRequest, Dropped, CutOff,
          ReadsHead, HasHead, Returned, Ends
  <2>2. n \in 1..n
    <3>1. pc # "idle"
      BY <2>1 DEF WriteRequest
    <3> QED BY <3>1, Basics DEF ReuseInv
  <2>3. ~Displaced(n)
    BY <1>2, <2>1, <2>2, Past
  <2> QED BY <1>2, <2>1, <2>3, WrittenPlace, PlaceGoes DEF OnCall
<1> QED BY <1>1, <1>2 DEF OnCall

(* The place of the call in the words of its script, and what lies in      *)
(* front of it.                                                             *)
InPlace(b, m, c, a, z, e, d) ==
    /\ ScriptIs(a, z, n, reply[n]) /\ Lies(b, a, e) /\ e + m <= d /\ Along(c, a, z, d)
    /\ pc = "parse" /\ got = "line" => e >= 1
    /\ pc = "small" => e >= 2
    /\ n \notin shared => e + m = d /\ Exact(e)

(* OnCall, for the call under way, with names for what it speaks of. *)
LEMMA PlaceFacts ==
    ASSUME ReuseInv, OnCall, pc \in {"parse", "small"}, ~Displaced(n)
    PROVE  /\ n \in Calls /\ used[n] \in Conns
           /\ \E a \in Seq(PieceRecords), z \in Int, e \in Int, d \in Int, b \in Seq(PieceRecords), m \in Nat :
                /\ a = Script(n) /\ z = Size(n) /\ b = buf[n] /\ m = Len(b)
                /\ InPlace(b, m, used[n], a, z, e, d)
<1>0. n \in Calls /\ used[n] \in Conns /\ buf[n] \in Seq(PieceRecords)
      /\ ScriptIs(Script(n), Size(n), n, reply[n])
  BY Basics, Typed DEF ReuseInv
<1>1. PICK a \in Seq(PieceRecords), z \in Int : a = Script(n) /\ z = Size(n)
  BY <1>0, ScriptSeq
<1>3. PICK e \in Int, d \in Int : Place(e, d)
  BY DEF Placed, OnCall
<1>4. PICK b \in Seq(PieceRecords), m \in Nat : b = buf[n] /\ m = Len(b)
  BY <1>0
<1>5. InPlace(b, m, used[n], a, z, e, d)
  BY <1>0, <1>1, <1>3, <1>4 DEF Place, Ahead, InPlace
<1> QED BY <1>0, <1>1, <1>4, <1>5

(* The first piece of a buffer. *)
LEMMA LiesFirst ==
    ASSUME NEW b \in Seq(PieceRecords), b # << >>, NEW a \in Seq(PieceRecords), NEW e \in Int, Lies(b, a, e)
    PROVE  /\ Len(b) \in Nat /\ Len(b) >= 1
           /\ e >= 0 => e + 1 \in 1..Len(a) /\ Head(b) = a[e + 1]
           /\ e < 0 => Head(b).t \notin {"line", "fields"}
<1>1. Len(b) \in Nat /\ Len(b) > 0 /\ 1 \in 1..Len(b) /\ Head(b) = b[1] /\ Len(a) \in Nat
  BY NonEmpty
<1>2. IF e + 1 >= 1 THEN e + 1 <= Len(a) /\ b[1] = a[e + 1] ELSE b[1].t \notin {"line", "fields"}
  BY <1>1 DEF Lies
<1> QED BY <1>1, <1>2

(* PoolBare is preserved. *)
LEMMA PoolBareStep ==
    ReuseInv /\ Closing /\ OnCall /\ PoolBare /\ [Next]_vars => PoolBare'
<1> SUFFICES ASSUME ReuseInv, Closing, OnCall, PoolBare, [Next]_vars, pool' # 0, ~Mixed(pool)'
             PROVE  Bare(pool)'
  BY DEF PoolBare
<1>0. /\ n \in Nat /\ MaxRequests \in Nat /\ Calls = 1..MaxRequests /\ Conns = 1..MaxRequests
      /\ pc # "idle" => n \in Calls /\ used[n] \in Conns /\ pool = 0
      /\ pool \in 0..MaxRequests /\ pc \in {"idle", "write", "parse", "small"}
  BY Basics DEF ReuseInv, TypeOK, Calling
<1>1. CASE pc = "idle"
  <2>1. /\ ~WriteRequest /\ pool' = pool /\ UNCHANGED <<used, reply>> /\ n' \in {n, n + 1}
        /\ \A j \in 1..n : status[j] = "stray" => status'[j] = "stray"
    <3>1. ~Request
      BY RequestEffect DEF ReuseInv
    <3>2. \A j \in 1..n : status[j] = "stray" => status'[j] = "stray"
      BY <1>0, Past, Basics DEF ReuseInv
    <3> QED
      BY <1>1, <3>1, <3>2, CallEffects DEF ReuseInv, Untouched, RequestRejected, WriteRequest, Dropped, CutOff,
          ReadsHead, HasHead, Returned, Ends, serverVars
  <2>2. Mixed(pool) => Mixed(pool)'
    BY <1>0, <2>1 DEF Mixed
  <2>3. PICK c \in Conns : c = pool /\ c = pool'
    BY <1>0, <2>1
  <2>4. Bare(c)
    BY <2>1, <2>2, <2>3 DEF PoolBare
  <2>5. Bare(c)'
    BY <2>1, <2>4, BareStays
  <2> QED BY <2>3, <2>5 DEF Bare
<1>2. CASE pc # "idle"
  <2>1. pc' # pc /\ pool' = used[n] /\ pc' = "idle" /\ UNCHANGED <<used, n, reply>> /\ status'[n] \notin {"invalid", "failed"}
        /\ ~WriteRequest
    BY <1>0, <1>2, CallEffects DEF ReuseInv, Untouched, Request, RequestRejected, WriteRequest, Dropped, CutOff,
          ReadsHead, HasHead, Returned, Ends, TypeOK
  <2>2. ~Displaced(n) /\ reply[n].framing # "interim" /\ status'[n] # "stray"
    <3>1. n \in 1..n /\ \A j \in 1..n : status[j] = "stray" => status'[j] = "stray"
      BY <1>0, <1>2, Past
    <3>2. \A j \in 1..n : used[j] = used[n] => reply[j].framing # "interim" /\ status'[j] # "stray"
      BY <2>1 DEF Mixed
    <3> QED BY <3>1, <3>2 DEF Displaced
  <2>3. PICK c \in Conns : c = used[n] /\ c = pool' /\ socket[c] \in Seq(PieceRecords) /\ todo[c] \in Seq(PieceRecords)
    BY <1>0, <1>2, <2>1, Typed
  <2>4. ASSUME Bare(c), UNCHANGED <<socket, todo>> PROVE Bare(pool)'
    BY <2>3, <2>4 DEF Bare
  <2>5. CASE EndOfStream(n) /\ UNCHANGED <<socket, todo>>
    <3>1. socket[c] = << >> /\ todo[c] = << >>
      BY <2>3, <2>5 DEF EndOfStream, Closing
    <3>2. Bare(c)
      BY <3>1, NothingHeadless DEF Bare
    <3> QED BY <2>4, <2>5, <3>2
  <2>6. CASE (TakesHead \/ pc = "small") /\ UNCHANGED <<socket, todo>>
    <3>0. pc \in {"parse", "small"}
      BY <2>6 DEF TakesHead
    <3>1. PICK a \in Seq(PieceRecords), z \in Int, e \in Int, d \in Int, b \in Seq(PieceRecords), m \in Nat :
              b = buf[n] /\ m = Len(b) /\ InPlace(b, m, c, a, z, e, d)
      BY <2>2, <2>3, <3>0, PlaceFacts
    <3>2. /\ ScriptIs(a, z, n, reply[n]) /\ Lies(b, a, e) /\ e + m <= d /\ Along(c, a, z, d)
          /\ pc = "small" => e >= 2
      BY <3>1 DEF InPlace
    <3>3. d >= 2
      <4>1. CASE pc = "small"
        BY <3>2, <4>1
      <4>2. CASE TakesHead
        <5>1. b # << >> /\ Head(b).t = "fields"
          BY <3>1, <4>2 DEF TakesHead
        <5>2. e >= 0 /\ e + 1 \in 1..Len(a) /\ a[e + 1].t = "fields" /\ m >= 1
          BY <3>1, <3>2, <5>1, LiesFirst
        <5>3. e + 1 # 1
          BY <3>2, <5>2 DEF ScriptIs
        <5> QED BY <3>2, <5>2, <5>3
      <4> QED BY <2>6, <4>1, <4>2
    <3>4. Bare(c)
      BY <2>2, <2>3, <3>2, <3>3, BareAhead
    <3> QED BY <2>4, <2>6, <3>4
  <2> QED BY <1>2, <2>1, <2>2, <2>5, <2>6, Outcomes DEF TakesHead
<1> QED BY <1>1, <1>2

-----------------------------------------------------------------------------
(* What the bodies read. *)
LEMMA FromGrows ==
    ASSUME NEW x \in Seq(PieceRecords), NEW a, NEW o \in Int, NEW e \in Int, o <= e, From(x, a, o, e),
           NEW p \in PieceRecords, p = a[e + 1]
    PROVE  From(Append(x, p), a, o, e + 1)
<1>1. PICK y \in Seq(PieceRecords), m \in Nat : /\ y = Append(x, p) /\ m = e - o /\ Len(x) = m /\ Len(y) = m + 1
                                          /\ y[m + 1] = p /\ \A i \in 1..m : y[i] = x[i]
  <2>1. e - o \in Nat /\ Len(x) = e - o
    BY DEF From
  <2>2. PICK m \in Nat : m = e - o /\ Len(x) = m
    BY <2>1
  <2>3. /\ Append(x, p) \in Seq(PieceRecords) /\ Len(Append(x, p)) = m + 1
        /\ Append(x, p)[m + 1] = p /\ \A i \in 1..m : Append(x, p)[i] = x[i]
    BY <2>2, Appended
  <2> QED BY <2>2, <2>3
<1>2. (e + 1) - o = m + 1 /\ o + (m + 1) = e + 1
  BY <1>1
<1>3. ASSUME NEW i \in 1..(m + 1) PROVE y[i] = a[o + i]
  <2>1. CASE i = m + 1
    BY <1>1, <1>2, <2>1
  <2>2. CASE i \in 1..m
    BY <1>1, <2>2 DEF From
  <2> QED BY <2>1, <2>2
<1> QED BY <1>1, <1>2, <1>3 DEF From

(* After the size of an answer only the end of the connection follows. *)
LEMMA ScriptEnds ==
    ASSUME NEW a, NEW z, NEW k, NEW r, ScriptIs(a, z, k, r)
    PROVE  z \in Nat /\ Len(a) \in Nat /\ \A i \in 1..Len(a) : i <= z \/ a[i].t = "eof"
  BY DEF ScriptIs

(* A body takes a piece. *)
Takes(kind, l, x, b, p, l2, x2, b2) ==
    /\ kind # "Extension" /\ l > 0 /\ p.t # "eof" /\ b2 = Tail(b)
    /\ l2 = (IF kind = "Reader" THEN l - 1
             ELSE IF kind \in {"Rest", "Upgraded"} \/ p.t = "chunk" THEN l ELSE 0)
    /\ x2 = (IF kind = "Iter" /\ p.t # "chunk" THEN x ELSE Append(x, p))

(* Reading one more piece of the script keeps ReadTo. *)
LEMMA ReadOn ==
    ASSUME NEW a, NEW z, NEW k, NEW r, ScriptIs(a, z, k, r), NEW kind, NEW l \in 0..2,
           NEW x \in Seq(PieceRecords), NEW b, NEW e \in 2..4, ReadTo(kind, r.framing, l, x, b, a, e),
           NEW p \in PieceRecords, e + 1 \in 1..Len(a), p = a[e + 1], NEW l2, NEW x2, NEW b2,
           Takes(kind, l, x, b, p, l2, x2, b2)
    PROVE  e + 1 \in 2..4 /\ ReadTo(kind, r.framing, l2, x2, b2, a, e + 1)
<1> USE DEF Takes
<1>0. z \in Nat /\ Len(a) \in Nat /\ e + 1 <= z
  <2>1. z \in Nat /\ Len(a) \in Nat /\ (z = Len(a) \/ (z = Len(a) - 1 /\ a[Len(a)].t = "eof"))
    BY DEF ScriptIs
  <2> QED BY <2>1
<1>1. ASSUME NEW o \in 2..e, From(x, a, o, e) PROVE From(Append(x, p), a, o, e + 1)
  BY <1>1, FromGrows
<1>2. CASE kind = "Reader"
  <2>1. r.framing = "large" /\ e = 4 - l /\ From(x, a, 2, e) /\ 2 \in 2..e
    BY <1>2 DEF ReadTo
  <2>2. e + 1 = 4 - (l - 1) /\ e + 1 \in 2..4
    BY <2>1
  <2> QED BY <1>1, <1>2, <2>1, <2>2 DEF ReadTo
<1>3. CASE kind = "Iter"
  <2>1. r.framing \in {"chunked", "trailers"} /\ l = 1 /\ e \in 2..3 /\ From(x, a, 2, e) /\ 2 \in 2..e
    BY <1>3 DEF ReadTo
  <2>2. a[3].t = "chunk" /\ a[4].t = "last"
    BY <2>1 DEF ScriptIs
  <2>3. CASE e = 2
    <3>1. p.t = "chunk" /\ e + 1 = 3 /\ From(Append(x, p), a, 2, e + 1)
      BY <1>1, <2>1, <2>2, <2>3
    <3> QED BY <1>3, <2>1, <3>1 DEF ReadTo
  <2>4. CASE e = 3
    <3>1. p.t = "last" /\ e + 1 = 4 /\ From(x, a, 2, 3)
      BY <2>1, <2>2, <2>4
    <3> QED BY <1>3, <2>1, <3>1 DEF ReadTo
  <2> QED BY <2>1, <2>3, <2>4
<1>4. CASE kind = "Rest"
  <2>1. r.framing = "close" /\ l = 1 /\ e \in 2..3 /\ From(x, a, 2, e) /\ 2 \in 2..e
    BY <1>4 DEF ReadTo
  <2>2. z = 3
    BY <2>1 DEF ScriptIs
  <2>3. e + 1 = 3
    BY <1>0, <2>1, <2>2
  <2>4. From(Append(x, p), a, 2, e + 1)
    BY <1>1, <2>1
  <2> QED BY <1>4, <2>1, <2>3, <2>4 DEF ReadTo
<1>5. CASE kind = "Upgraded"
  <2>1. r.framing = "switching" /\ l = 1 /\ \E o \in 2..e : From(x, a, o, e)
    BY <1>5 DEF ReadTo
  <2>2. z = 4
    BY <2>1 DEF ScriptIs
  <2>3. e + 1 \in 2..4 /\ \A o \in 2..e : o \in 2..(e + 1)
    BY <1>0, <2>2
  <2>4. \E o \in 2..(e + 1) : From(Append(x, p), a, o, e + 1)
    BY <1>1, <2>1, <2>3
  <2> QED BY <1>5, <2>1, <2>3, <2>4 DEF ReadTo
<1> QED BY <1>2, <1>3, <1>4, <1>5 DEF ReadTo

(* What the application has, x, is of the script as BodyIntact says. *)
Intact(x, a, f, whole) ==
    \E o \in IF f = "switching" THEN 2..Len(a) ELSE {2} :
        /\ \A i \in 1..Len(x) : o + i \in 1..Len(a) /\ x[i] = a[o + i] /\ Carries(a[o + i])
        /\ whole => \A i \in 1..Len(a) : Carries(a[i]) => i <= o + Len(x)

(* A body that is being read is, and all of it when it is at its end.       *)
LEMMA ReadIntact ==
    ASSUME NEW a, NEW z, NEW k, NEW r, ScriptIs(a, z, k, r), NEW kind, NEW l \in 0..2,
           NEW x, NEW b, NEW e \in 2..4, e <= Len(a), ReadTo(kind, r.framing, l, x, b, a, e),
           NEW whole \in BOOLEAN, whole => kind # "Extension" /\ (l = 0 \/ e >= z)
    PROVE  Intact(x, a, r.framing, whole)
<1>0. /\ z \in Nat /\ Len(a) \in Nat
      /\ \A i \in 1..Len(a) : i <= z \/ a[i].t = "eof"
  BY DEF ScriptIs
<1>1. ASSUME NEW y \in Int, NEW o \in 2..y, o \in IF r.framing = "switching" THEN 2..Len(a) ELSE {2},
             y <= Len(a), From(x, a, o, y), \A i \in 3..y : Carries(a[i]),
             whole => \A i \in 1..Len(a) : Carries(a[i]) => i <= y
      PROVE  Intact(x, a, r.framing, whole)
  <2>1. o + Len(x) = y
    BY <1>1 DEF From
  <2>2. ASSUME NEW i \in 1..Len(x) PROVE o + i \in 1..Len(a) /\ x[i] = a[o + i] /\ Carries(a[o + i])
    <3>1. Len(x) = y - o
      BY <1>1 DEF From
    <3>2. i \in 1..(y - o) /\ o + i \in 3..y /\ o + i \in 1..Len(a)
      BY <1>0, <1>1, <3>1
    <3> QED BY <1>1, <3>2 DEF From
  <2> QED BY <1>1, <2>1, <2>2 DEF Intact
<1>2. CASE kind = "Reader"
  <2>1. r.framing = "large" /\ e = 4 - l /\ From(x, a, 2, e)
    BY <1>2 DEF ReadTo
  <2>2. z = 4 /\ a[3].t = "data" /\ a[4].t = "data"
    BY <2>1 DEF ScriptIs
  <2>3. \A i \in 3..e : i = 3 \/ i = 4
    OBVIOUS
  <2>4. \A i \in 3..e : Carries(a[i])
    BY <2>2, <2>3 DEF Carries
  <2>5. whole => e = 4
    BY <2>1, <2>2
  <2>6. whole => \A i \in 1..Len(a) : Carries(a[i]) => i <= e
    BY <1>0, <2>2, <2>5 DEF Carries
  <2> QED BY <1>1, <2>1, <2>4, <2>6
<1>3. CASE kind = "Iter"
  <2>1. r.framing \in {"chunked", "trailers"} /\ \E y \in 2..3 : From(x, a, 2, y) /\ (l = 1 => y = e) /\ (l = 0 => y = 3)
          /\ y <= e /\ (l = 1 => e <= 3)
    BY <1>3 DEF ReadTo
  <2>2. PICK y \in 2..3 : From(x, a, 2, y) /\ (l = 0 => y = 3) /\ y <= e
    BY <2>1
  <2>3. a[3].t = "chunk" /\ a[4].t = "last" /\ z >= 5 /\ (\A i \in 5..z : a[i].t \in {"crlf", "trailers"})
    <3>1. CASE r.framing = "chunked"
      <4>1. z = 5 /\ a[3].t = "chunk" /\ a[4].t = "last" /\ a[5].t = "crlf"
        BY <3>1 DEF ScriptIs
      <4>2. \A i \in 5..z : i = 5
        BY <4>1
      <4> QED BY <4>1, <4>2
    <3>2. CASE r.framing = "trailers"
      <4>1. z = 6 /\ a[3].t = "chunk" /\ a[4].t = "last" /\ a[5].t = "trailers" /\ a[6].t = "crlf"
        BY <3>2 DEF ScriptIs
      <4>2. \A i \in 5..z : i = 5 \/ i = 6
        BY <4>1
      <4> QED BY <4>1, <4>2
    <3> QED BY <2>1, <3>1, <3>2
  <2>4. \A i \in 3..y : Carries(a[i])
    <3>1. \A i \in 3..y : i = 3
      OBVIOUS
    <3> QED BY <2>3, <3>1 DEF Carries
  <2>5. whole => y = 3
    BY <1>0, <2>2, <2>3
  <2>6. ASSUME whole, NEW i \in 1..Len(a), Carries(a[i]) PROVE i <= y
    <3>1. i <= z
      BY <1>0, <2>6 DEF Carries
    <3>2. i # 4 /\ i \notin 5..z
      BY <2>3, <2>6 DEF Carries
    <3> QED BY <1>0, <2>5, <2>6, <3>1, <3>2
  <2>7. y \in Int /\ 2 \in 2..y /\ y <= Len(a)
    BY <1>0, <2>2
  <2> QED BY <1>1, <2>1, <2>2, <2>4, <2>6, <2>7
<1>4. CASE kind = "Rest"
  <2>1. r.framing = "close" /\ e \in 2..3 /\ l = 1 /\ From(x, a, 2, e)
    BY <1>4 DEF ReadTo
  <2>2. z = 3 /\ a[3].t = "data"
    BY <2>1 DEF ScriptIs
  <2>4. \A i \in 3..e : Carries(a[i])
    <3>1. \A i \in 3..e : i = 3
      BY <2>1
    <3> QED BY <2>2, <3>1 DEF Carries
  <2>6. whole => \A i \in 1..Len(a) : Carries(a[i]) => i <= e
    BY <1>0, <2>1, <2>2 DEF Carries
  <2> QED BY <1>1, <2>1, <2>4, <2>6
<1>5. CASE kind \in {"Extension", "Upgraded"}
  <2>1. PICK o \in 2..e : r.framing = "switching" /\ l = 1 /\ From(x, a, o, e)
    BY <1>5 DEF ReadTo
  <2>2. z = 4 /\ a[3].t = "proto" /\ a[4].t = "proto"
    BY <2>1 DEF ScriptIs
  <2>4. \A i \in 3..e : Carries(a[i])
    <3>1. \A i \in 3..e : i = 3 \/ i = 4
      OBVIOUS
    <3> QED BY <2>2, <3>1 DEF Carries
  <2>6. whole => \A i \in 1..Len(a) : Carries(a[i]) => i <= e
    BY <1>0, <2>1, <2>2 DEF Carries
  <2>7. o \in 2..Len(a)
    BY <1>0, <2>1
  <2> QED BY <1>1, <2>1, <2>4, <2>6, <2>7
<1> QED BY <1>2, <1>3, <1>4, <1>5 DEF ReadTo

(* A body that is neither read nor let go of stays as it is. *)
LEMMA BodyStays ==
    ASSUME ReuseInv, Unread, [Next]_vars, NEW k \in Calls, Streaming(k), Streaming(k)',
           ~BodyPiece(k), ~IntoUpgraded(k)
    PROVE  /\ body'[k] = body[k] /\ left'[k] = left[k] /\ data'[k] = data[k]
           /\ (Fills(k) /\ body[k] # "Extension") \/ buf'[k] = buf[k]
<1> USE DEF callVars, bodyVars, serverVars
<1>0. /\ status[k] = "ok" /\ used[k] \in Conns /\ DOMAIN buf = Calls /\ DOMAIN body = Calls /\ DOMAIN left = Calls
      /\ (pc # "idle" => n \in Calls /\ n # k)
      /\ DOMAIN data = Calls
  <2>1. status[k] = "ok" /\ used[k] # 0 /\ used[k] \in 0..MaxRequests /\ Conns = 1..MaxRequests /\ MaxRequests \in Nat
    BY Basics DEF ReuseInv, Reading, TypeOK
  <2>2. used[k] \in Conns
    BY <2>1
  <2>3. pc # "idle" => n \in Calls /\ n # k
    BY <2>1, Basics DEF ReuseInv, Calling
  <2> QED BY <2>1, <2>2, <2>3 DEF ReuseInv, TypeOK, Sending, Unread
<1>1. CASE Others
  BY <1>1 DEF Others, Idle, vars, WriteInvalid, WriteFails, ParseEof, Fail, ServerSend, ServerClose
<1>2. CASE Request \/ RequestRejected \/ WriteRequest
  BY <1>2 DEF Request, RequestRejected, WriteRequest
<1>3. CASE ParsePiece
  <2>1. pc # "idle" /\ UNCHANGED data
    BY <1>3 DEF ParsePiece
  <2> QED BY <1>0, <1>3, <2>1 DEF ParsePiece, ParseLoose, Consume, Return
<1>4. CASE BufferBody
  <2>1. pc # "idle" /\ \E x : data' = [data EXCEPT ![n] = x]
    BY <1>4 DEF BufferBody
  <2> QED BY <1>0, <1>4, <2>1 DEF BufferBody, Return
<1>5. ASSUME NEW j \in Calls, Fill(j)
      PROVE  /\ UNCHANGED <<body, left, data>>
             /\ (Fills(k) /\ body[k] # "Extension") \/ buf'[k] = buf[k]
  <2>1. CASE j = k
    <3>1. body[k] # "Extension"
      BY <1>0, <1>5, <2>1 DEF Fill, Reads
    <3> QED BY <1>0, <1>5, <2>1, <3>1 DEF Fill, Fills
  <2>2. CASE j # k
    BY <1>0, <1>5, <2>2 DEF Fill
  <2> QED BY <1>5, <2>1, <2>2 DEF Fill
<1>6. ASSUME NEW j \in Calls, BodyPiece(j)
      PROVE  body'[k] = body[k] /\ left'[k] = left[k] /\ data'[k] = data[k] /\ buf'[k] = buf[k]
  <2>1. j # k
    BY <1>6
  <2>2. /\ UNCHANGED body /\ buf' = [buf EXCEPT ![j] = Tail(@)]
        /\ \E l : left' = [left EXCEPT ![j] = l]
        /\ data' = data \/ \E x : data' = [data EXCEPT ![j] = x]
    BY <1>6 DEF BodyPiece, Consume
  <2> QED BY <1>0, <2>1, <2>2
<1>7. ASSUME NEW j \in Calls, BodyDone(j) \/ BodyAbandoned(j) \/ IntoUpgraded(j)
      PROVE  body'[k] = body[k] /\ left'[k] = left[k] /\ data'[k] = data[k] /\ buf'[k] = buf[k]
  <2>1. j # k
    BY <1>0, <1>7 DEF BodyDone, BodyAbandoned, LetGo, Streaming
  <2> QED BY <1>0, <1>7, <2>1 DEF BodyDone, BodyAbandoned, IntoUpgraded, LetGo
<1> QED BY <1>1, <1>2, <1>3, <1>4, <1>5, <1>6, <1>7, EveryStep

(* What a call whose body is read was, it stays. *)
LEMMA CallStays ==
    ASSUME ReuseInv, [Next]_vars, NEW k \in Calls, status[k] # "none"
    PROVE  /\ used'[k] = used[k] /\ reply'[k] = reply[k] /\ answer'[k] = answer[k] /\ status'[k] = status[k]
           /\ k \in 1..n /\ (Displaced(k)' <=> Displaced(k))
<1>0. n \in Nat /\ (k > n => status[k] = "none") /\ (pc # "idle" => status[n] = "none") /\ Calls = 1..MaxRequests
      /\ MaxRequests \in Nat
  BY Basics DEF ReuseInv, Calling
<1>1. k \in 1..n /\ (pc # "idle" => k # n)
  BY <1>0
<1>2. reply'[k] = reply[k]
  <2>1. CASE WriteRequest
    <3>1. pc = "write"
      BY <2>1 DEF WriteRequest
    <3> QED BY <1>1, <2>1, <3>1, WriteEffect DEF ReuseInv
  <2>2. CASE ~WriteRequest
    BY <2>2, CallEffects DEF ReuseInv, Untouched, Request, RequestRejected, Dropped, CutOff,
          ReadsHead, HasHead, Returned, Ends, serverVars
  <2> QED BY <2>1, <2>2
<1> QED BY <1>1, <1>2, Past, Settled DEF ReuseInv

(* Nobody else takes what is sent on a connection that is not shared. *)
LEMMA AloneKept ==
    ASSUME ReuseInv, Closing, Sharing, [Next]_vars, NEW k \in Calls, k \notin shared, Streaming(k), ~Fills(k),
           NEW c \in Conns, c = used[k],
           NEW a \in Seq(PieceRecords), NEW z \in Int, NEW d \in Int, Along(c, a, z, d),
           \A i \in 1..Len(a) : a[i].t = "eof" => z = Len(a) - 1
    PROVE  Along(c, a, z, d)'
<1>1. pc # "idle" => n \in Calls /\ n # k
  BY Basics DEF ReuseInv, Reading, Calling
<1>2. CASE WriteRequest
  <2>1. pc # "idle" /\ UNCHANGED <<socket, link>>
    BY <1>2 DEF WriteRequest
  <2>2. used[n] # c /\ DOMAIN todo = Conns
    BY <1>1, <2>1 DEF Sharing, ReuseInv, Sending
  <2>3. todo'[c] = todo[c]
    BY <1>2, <2>2, WriteEffect DEF ReuseInv
  <2> QED BY <2>1, <2>3 DEF Along
<1>3. CASE ~WriteRequest
  <2>1. ~Taken(c)
    <3> SUFFICES ASSUME NEW j \in Calls, Fills(j), used[j] = c PROVE FALSE
      BY DEF Taken
    <3>1. j # k /\ (Streaming(j) \/ (pc # "idle" /\ j = n))
      BY DEF Fills, Reads, Streaming
    <3> QED BY <3>1 DEF Sharing
  <2> QED BY <1>3, <2>1, AlongKept
<1> QED BY <1>2, <1>3

(* A body that is alone on its connection reads on in its answer. *)
LEMMA BodyGoes ==
    ASSUME ReuseInv, Closing, Sharing, Arrived, Unread, [Next]_vars,
           NEW k \in Calls, k \notin shared, Streaming(k), BodyAt(k), Streaming(k)'
    PROVE  BodyAt(k)'
<1>0. /\ status[k] = "ok" /\ used[k] \in Conns /\ buf[k] \in Seq(PieceRecords) /\ data[k] \in Seq(PieceRecords)
      /\ left[k] \in 0..2 /\ DOMAIN left = Calls /\ DOMAIN buf = Calls /\ DOMAIN data = Calls /\ DOMAIN body = Calls
      /\ ScriptIs(Script(k), Size(k), k, reply[k])
  <2>1. status[k] = "ok" /\ used[k] # 0 /\ used[k] \in 0..MaxRequests /\ Conns = 1..MaxRequests /\ MaxRequests \in Nat
    BY Basics DEF ReuseInv, Reading, TypeOK
  <2> QED BY <2>1, Typed DEF ReuseInv, TypeOK, Sending, Unread
<1>1. PICK c \in Conns, a \in Seq(PieceRecords), z \in Int : c = used[k] /\ a = Script(k) /\ z = Size(k)
  BY <1>0, ScriptSeq
<1>2. used'[k] = c /\ Script(k)' = a /\ Size(k)' = z /\ answer'[k] = answer[k] /\ reply'[k] = reply[k]
  BY <1>0, <1>1, CallStays DEF Script, Size
<1>3. PICK e \in 2..4 : /\ Straight(k, e) /\ answer[k] = k
                        /\ ReadTo(body[k], reply[k].framing, left[k], data[k], buf[k], a, e)
  BY <1>1 DEF BodyAt
<1>4. PICK b \in Seq(PieceRecords), m \in Nat : b = buf[k] /\ m = Len(b)
  BY <1>0
<1>5. Lies(b, a, e) /\ Along(c, a, z, e + m) /\ e + m \in Int
  BY <1>1, <1>3, <1>4 DEF Straight, Ahead
<1>6. ScriptIs(a, z, k, reply[k]) /\ Len(a) \in Nat /\ \A i \in 1..Len(a) : a[i].t = "eof" => z = Len(a) - 1
  BY <1>0, <1>1, ScriptSeq
<1>7. ASSUME NEW y \in 2..4, NEW d \in Int, Lies(buf'[k], a, y), d = y + Len(buf'[k]), Along(c, a, z, d)',
             ReadTo(body'[k], reply[k].framing, left'[k], data'[k], buf'[k], a, y)
      PROVE  BodyAt(k)'
  <2>1. Ahead(k, d)'
    BY <1>2, <1>7 DEF Ahead
  <2>2. Straight(k, y)'
    BY <1>2, <1>7, <2>1 DEF Straight
  <2> QED BY <1>2, <1>3, <1>7, <2>2 DEF BodyAt
<1>8. CASE ~BodyPiece(k) /\ ~IntoUpgraded(k)
  <2>0. /\ body'[k] = body[k] /\ left'[k] = left[k] /\ data'[k] = data[k]
        /\ (Fills(k) /\ body[k] # "Extension") \/ buf'[k] = buf[k]
    BY <1>8, BodyStays
  <2>1. CASE Fills(k) /\ body[k] # "Extension"
    <3>1. PICK x \in Nat : x = Len(socket[c]) /\ Along(c, a, z, (e + m) + x)'
      BY <1>1, <1>5, <2>1, AlongTaken
    <3>2. Lies(socket[c], a, e + m) /\ buf[k] = << >> /\ buf'[k] = socket[c]
      BY <1>1, <1>5, <2>1, AlongTaken
    <3>3. m = 0
      BY <1>4, <3>2
    <3>4. Lies(buf'[k], a, e) /\ e + x = e + Len(buf'[k]) /\ Along(c, a, z, e + x)' /\ e + x \in Int
      <4>1. e + m = e
        BY <3>3
      <4> QED BY <3>1, <3>2, <4>1
    <3>5. ReadTo(body'[k], reply[k].framing, left'[k], data'[k], buf'[k], a, e)
      BY <1>3, <2>0, <2>1 DEF ReadTo
    <3> QED BY <1>7, <3>4, <3>5
  <2>2. CASE buf'[k] = buf[k] /\ ~Fills(k)
    <3>1. Along(c, a, z, e + m)'
      BY <1>1, <1>5, <1>6, <2>2, AloneKept
    <3>2. e + m = e + Len(buf'[k]) /\ Lies(buf'[k], a, e)
      BY <1>4, <1>5, <2>2
    <3> QED BY <1>3, <1>5, <1>7, <2>0, <2>2, <3>1, <3>2
  <2>3. Fills(k) => body[k] # "Extension"
    <3>1. pc # "idle" => n # k
      BY <1>0 DEF ReuseInv, Calling
    <3> QED BY <3>1 DEF Fills, Reads
  <2> QED BY <2>0, <2>1, <2>2, <2>3
<1>9. CASE BodyPiece(k)
  <2>0. /\ b # << >> /\ body[k] \notin {"none", "Extension"} /\ left[k] > 0
        /\ UNCHANGED <<body, socket, todo, link>> /\ buf' = [buf EXCEPT ![k] = Tail(@)]
        /\ data' = (IF body[k] = "Iter" /\ Head(b).t # "chunk" THEN data ELSE [data EXCEPT ![k] = Append(@, Head(b))])
        /\ left' = [left EXCEPT ![k] =
                      IF body[k] = "Reader" THEN @ - 1
                      ELSE IF body[k] \in {"Rest", "Upgraded"} \/ Head(b).t = "chunk" THEN @ ELSE 0]
    <3>1. pc # "idle" => n # k
      BY <1>0 DEF ReuseInv, Calling
    <3> QED BY <1>4, <1>9, <3>1 DEF BodyPiece, Consume, NextPiece, Reads, serverVars
  <2>1. m >= 1 /\ e + 1 \in 1..Len(a) /\ Head(b) = a[e + 1]
    BY <1>4, <1>5, <2>0, LiesFirst
  <2>2. PICK p \in PieceRecords : p = Head(b) /\ p.t # "eof"
    <3>1. 1 \in 1..Len(b) /\ Head(b) = b[1] /\ b[1] \in PieceRecords
      BY <2>0, NonEmpty
    <3> QED BY <1>4, <3>1 DEF Arrived
  <2>3. PICK l, x : /\ l = (IF body[k] = "Reader" THEN left[k] - 1
                            ELSE IF body[k] \in {"Rest", "Upgraded"} \/ p.t = "chunk" THEN left[k] ELSE 0)
                    /\ x = (IF body[k] = "Iter" /\ p.t # "chunk" THEN data[k] ELSE Append(data[k], p))
    OBVIOUS
  <2>4. left'[k] = l /\ data'[k] = x /\ body'[k] = body[k] /\ buf'[k] = Tail(b)
    <3>1. body'[k] = body[k] /\ buf'[k] = Tail(b)
      BY <1>0, <1>4, <2>0
    <3>2. left'[k] = l
      BY <1>0, <2>0, <2>2, <2>3
    <3>3. CASE body[k] = "Iter" /\ p.t # "chunk"
      BY <2>0, <2>2, <2>3, <3>1, <3>2, <3>3
    <3>4. CASE ~(body[k] = "Iter" /\ p.t # "chunk")
      <4>1. data' = [data EXCEPT ![k] = Append(@, p)] /\ x = Append(data[k], p)
        BY <2>0, <2>2, <2>3, <3>4
      <4>2. data'[k] = x
        BY <1>0, <4>1
      <4> QED BY <3>1, <3>2, <4>2
    <3> QED BY <3>3, <3>4
  <2>5. e + 1 \in 2..4 /\ ReadTo(body[k], reply[k].framing, l, x, Tail(b), a, e + 1)
    <3>a. PICK y \in 0..2, w \in Seq(PieceRecords) : y = left[k] /\ w = data[k]
      BY <1>0
    <3>b. PICK kind, r, u : kind = body[k] /\ r = reply[k] /\ u = Tail(b)
      OBVIOUS
    <3>1. kind = body[k] /\ r = reply[k] /\ y = left[k] /\ w = data[k] /\ u = Tail(b)
      BY <3>a, <3>b
    <3>2. ScriptIs(a, z, k, r) /\ ReadTo(kind, r.framing, y, w, b, a, e) /\ p = a[e + 1] /\ e + 1 \in 1..Len(a)
      BY <1>3, <1>4, <1>6, <2>0, <2>1, <2>2, <3>1
    <3>3. Takes(kind, y, w, b, p, l, x, u)
      BY <2>0, <2>2, <2>3, <3>1 DEF Takes
    <3>4. e + 1 \in 2..4 /\ ReadTo(kind, r.framing, l, x, u, a, e + 1)
      BY <3>2, <3>3, ReadOn
    <3> QED BY <3>1, <3>4
  <2>6. Lies(Tail(b), a, e + 1)
    BY <1>5, <2>0, LiesTail
  <2>7. Len(Tail(b)) = m - 1
    BY <1>4, <2>0, NonEmpty
  <2>8. e + m = (e + 1) + Len(Tail(b))
    <3>1. \A y : y = m - 1 => e + m = (e + 1) + y
      OBVIOUS
    <3> QED BY <2>7, <3>1
  <2>9. Along(c, a, z, e + m)'
    BY <1>5, <2>0 DEF Along
  <2> QED BY <1>5, <1>7, <2>4, <2>5, <2>6, <2>8, <2>9
<1>10. CASE IntoUpgraded(k)
  <2>1. body[k] = "Extension" /\ body'[k] = "Upgraded" /\ UNCHANGED <<buf, left, data, socket, todo, link>>
    BY <1>0, <1>10 DEF IntoUpgraded, serverVars
  <2>2. ReadTo(body'[k], reply[k].framing, left'[k], data'[k], buf'[k], a, e)
    BY <1>3, <2>1 DEF ReadTo
  <2>3. Along(c, a, z, e + m)' /\ e + m = e + Len(buf'[k]) /\ Lies(buf'[k], a, e)
    BY <1>4, <1>5, <2>1 DEF Along
  <2> QED BY <1>5, <1>7, <2>2, <2>3
<1> QED BY <1>8, <1>9, <1>10

(* A response with a body: the call has read its head. *)
Begins(k) ==
    /\ pc = "parse" /\ got = "line" /\ buf[k] # << >> /\ Head(buf[k]).t = "fields"
    /\ Return(Head(buf[k]).k, Head(buf[k]).f)
    /\ UNCHANGED <<n, used, data, ending, shared, reply, socket, todo, link>>

(* A body begins to be read only by the return of its call. *)
LEMMA StreamingBegins ==
    ASSUME ReuseInv, [Next]_vars, NEW k \in Calls, ~Streaming(k), Streaming(k)'
    PROVE  k = n /\ Begins(k)
<1> USE DEF callVars, bodyVars, serverVars, Streaming
<1>0. DOMAIN body = Calls
  BY DEF ReuseInv, TypeOK
<1>1. CASE Others
  BY <1>1 DEF Others, Idle, vars, WriteInvalid, WriteFails, ParseEof, Fail, ServerSend, ServerClose
<1>2. CASE Request \/ RequestRejected \/ WriteRequest
  BY <1>2 DEF Request, RequestRejected, WriteRequest
<1>3. CASE ParsePiece
  <2>1. ~UNCHANGED body
    BY <1>0
  <2>2. /\ pc = "parse" /\ got = "line" /\ buf[n] # << >> /\ Head(buf[n]).t = "fields"
        /\ Return(Head(buf[n]).k, Head(buf[n]).f)
        /\ UNCHANGED <<n, used, data, ending, shared, reply, socket, todo, link>>
    BY <1>3, <2>1 DEF ParsePiece, NextPiece
  <2>3. k = n
    BY <1>0, <2>2 DEF Return
  <2> QED BY <2>2, <2>3 DEF Begins
<1>4. CASE BufferBody
  <2>1. body' = [body EXCEPT ![n] = BodyKind(reply[answer[n]].conn, "small")]
    BY <1>4 DEF BufferBody, Return
  <2>2. BodyKind(reply[answer[n]].conn, "small") = "none"
    BY DEF BodyKind, Outcome
  <2> QED BY <1>0, <2>1, <2>2
<1>6. ASSUME NEW j \in Calls, Fill(j) \/ BodyPiece(j) PROVE FALSE
  BY <1>6 DEF Fill, BodyPiece
<1>7. ASSUME NEW j \in Calls, BodyDone(j) \/ BodyAbandoned(j) \/ IntoUpgraded(j) PROVE FALSE
  BY <1>0, <1>7 DEF BodyDone, BodyAbandoned, IntoUpgraded, LetGo
<1> QED BY <1>1, <1>2, <1>3, <1>4, <1>6, <1>7, EveryStep

(* What the head of a response announces, and what becomes of it. *)
LEMMA KindRead ==
    ASSUME NEW a, NEW z, NEW k, NEW r, ScriptIs(a, z, k, r), NEW conn, NEW kind, kind = BodyKind(conn, a[2].f),
           kind # "none"
    PROVE  \/ kind = "Reader" /\ r.framing = "large"
           \/ kind = "Iter" /\ r.framing \in {"chunked", "trailers"}
           \/ kind = "Rest" /\ r.framing = "close"
           \/ kind = "Extension" /\ r.framing = "switching"
<1>1. PICK f : f = a[2].f
  OBVIOUS
<1>2. \/ kind = "Reader" /\ f = "large"
      \/ kind = "Iter" /\ f \in {"chunked", "trailers"}
      \/ kind = "Rest" /\ f = "close"
      \/ kind = "Extension" /\ f = "switching"
  BY <1>1 DEF BodyKind, Outcome
<1>3. f \notin {"empty", "small"} => f = r.framing
  BY <1>1 DEF ScriptIs
<1> QED BY <1>2, <1>3

(* When a body begins, it lies where its call left off. *)
LEMMA BodyBegins ==
    ASSUME ReuseInv, Arrived, Unread, OnCall, [Next]_vars, NEW k \in Calls, k = n, Begins(k), Streaming(k)',
           ~Displaced(n), n \notin shared
    PROVE  BodyAt(k)'
<1>0. /\ pc = "parse" /\ status[k] = "none" /\ data[k] = << >> /\ DOMAIN buf = Calls /\ DOMAIN body = Calls
      /\ DOMAIN left = Calls /\ DOMAIN answer = Calls /\ used[k] \in Conns
  BY Basics DEF Begins, ReuseInv, TypeOK, Sending, Unread, Calling
<1>1. PICK a \in Seq(PieceRecords), z \in Int, e \in Int, d \in Int, b \in Seq(PieceRecords), m \in Nat :
          a = Script(n) /\ z = Size(n) /\ b = buf[n] /\ m = Len(b) /\ InPlace(b, m, used[n], a, z, e, d)
  BY <1>0, PlaceFacts
<1>2. PICK c \in Conns : c = used[k]
  BY <1>0
<1>3. /\ ScriptIs(a, z, k, reply[k]) /\ Lies(b, a, e) /\ e + m = d /\ Along(c, a, z, d) /\ e = 1
  BY <1>0, <1>1, <1>2 DEF InPlace, Exact, Begins
<1>4. used'[k] = c /\ Script(k)' = a /\ Size(k)' = z /\ reply'[k] = reply[k] /\ data'[k] = << >> /\ Along(c, a, z, d)'
  BY <1>0, <1>1, <1>2, <1>3 DEF Script, Size, Begins, Along
<1>5. b # << >> /\ m >= 1 /\ Head(b) = a[2] /\ a[2].k = k /\ Len(a) \in Nat
  <2>1. b # << >>
    BY <1>1 DEF Begins
  <2>2. m >= 1 /\ e + 1 \in 1..Len(a) /\ Head(b) = a[e + 1]
    BY <1>1, <1>3, <2>1, LiesFirst
  <2>3. e + 1 = 2
    BY <1>3
  <2>4. Len(a) \in Nat /\ a[2].k = k
    BY <1>3, <2>2, <2>3 DEF ScriptIs
  <2> QED BY <2>1, <2>2, <2>3, <2>4
<1>6. PICK kind : kind = BodyKind(reply[k].conn, a[2].f)
  OBVIOUS
<1>7. /\ answer'[k] = k /\ body'[k] = kind /\ left'[k] = (IF kind = "Reader" THEN 2 ELSE 1)
      /\ buf'[k] = IF kind \in {"none", "Extension"} THEN << >> ELSE Tail(b)
  <2>1. Return(k, a[2].f)
    BY <1>1, <1>5 DEF Begins
  <2> QED BY <1>0, <1>1, <1>6, <2>1 DEF Return
<1>8. kind # "none"
  BY <1>7 DEF Streaming
<1>9. \/ kind = "Reader" /\ reply[k].framing = "large"
      \/ kind = "Iter" /\ reply[k].framing \in {"chunked", "trailers"}
      \/ kind = "Rest" /\ reply[k].framing = "close"
      \/ kind = "Extension" /\ reply[k].framing = "switching"
  BY <1>3, <1>6, <1>8, KindRead
<1>10. ASSUME NEW y \in 2..4, Lies(buf'[k], a, y), d = y + Len(buf'[k]),
              ReadTo(body'[k], reply[k].framing, left'[k], data'[k], buf'[k], a, y)
       PROVE  BodyAt(k)'
  <2>1. Ahead(k, d)'
    BY <1>4 DEF Ahead
  <2>2. Straight(k, y)'
    BY <1>4, <1>10, <2>1 DEF Straight
  <2> QED BY <1>4, <1>7, <1>10, <2>2 DEF BodyAt
<1>11. \A y \in Int : From(<< >>, a, y, y)
  BY DEF From
<1>12. CASE kind = "Extension"
  <2>1. reply[k].framing = "switching" /\ buf'[k] = << >> /\ left'[k] = 1
    BY <1>7, <1>9, <1>12
  <2>2. d \in 2..4
    <3>1. z = 4 /\ (z = Len(a) \/ (z = Len(a) - 1 /\ a[Len(a)].t = "eof"))
      BY <1>3, <2>1 DEF ScriptIs
    <3>2. m \in 1..Len(b) /\ b[m].t # "eof"
      BY <1>0, <1>1, <1>5 DEF Arrived
    <3>3. 1 + m <= Len(a) /\ b[m] = a[1 + m]
      BY <1>3, <3>2 DEF Lies
    <3>4. 1 + m <= 4
      BY <1>5, <3>1, <3>2, <3>3
    <3> QED BY <1>3, <1>5, <3>4
  <2>3. Lies(buf'[k], a, d) /\ d = d + Len(buf'[k])
    BY <2>1, LiesBefore
  <2>4. d \in 2..d /\ From(<< >>, a, d, d)
    BY <1>11, <2>2
  <2>5. ReadTo(body'[k], reply[k].framing, left'[k], data'[k], buf'[k], a, d)
    BY <1>4, <1>7, <1>12, <2>1, <2>4 DEF ReadTo
  <2> QED BY <1>10, <2>2, <2>3, <2>5
<1>13. CASE kind # "Extension"
  <2>1. buf'[k] = Tail(b) /\ Len(Tail(b)) = m - 1
    BY <1>1, <1>5, <1>7, <1>8, <1>13, NonEmpty
  <2>2. Lies(Tail(b), a, 2)
    <3>1. Lies(Tail(b), a, e + 1) /\ e + 1 = 2
      BY <1>3, <1>5, LiesTail
    <3> QED BY <3>1
  <2>3. \A y : y = m - 1 => d = 2 + y
    BY <1>3
  <2>4. ReadTo(body'[k], reply[k].framing, left'[k], data'[k], buf'[k], a, 2)
    <3>1. From(<< >>, a, 2, 2) /\ 2 = 4 - 2 /\ 2 \in 2..3
      BY <1>11
    <3> QED BY <1>4, <1>7, <1>9, <1>13, <3>1 DEF ReadTo
  <2> QED BY <1>10, <2>1, <2>2, <2>3, <2>4
<1> QED BY <1>12, <1>13

(* A call that shares its connection stays one that does. *)
LEMMA SharedGrows ==
    ASSUME ReuseInv, [Next]_vars
    PROVE  shared \subseteq shared'
<1>1. CASE Request
  BY <1>1, RequestShares
<1>2. CASE ~Request
  BY <1>2, BodyEffects
<1> QED BY <1>1, <1>2

(* Where the pieces of a body lie: OwnBodies is preserved. *)
LEMMA OwnBodiesStep ==
    ReuseInv /\ Closing /\ Arrived /\ Sharing /\ Unread /\ OnCall /\ OwnBodies /\ [Next]_vars => OwnBodies'
<1> SUFFICES ASSUME ReuseInv, Closing, Arrived, Sharing, Unread, OnCall, OwnBodies, [Next]_vars,
                    NEW k \in Calls, k \notin shared', Streaming(k)', ~Displaced(k)'
             PROVE  BodyAt(k)'
  BY DEF OwnBodies
<1>1. k \notin shared
  BY SharedGrows
<1>2. CASE Streaming(k)
  <2>1. status[k] # "none"
    BY <1>2 DEF ReuseInv, Reading
  <2>2. ~Displaced(k)
    BY <2>1, CallStays
  <2> QED BY <1>1, <1>2, <2>2, BodyGoes DEF OwnBodies
<1>3. CASE ~Streaming(k)
  <2>1. k = n /\ Begins(k)
    BY <1>3, StreamingBegins
  <2>2. n \in 1..n
    BY <2>1, Basics DEF ReuseInv
  <2>3. ~Displaced(n)
    BY <2>1, <2>2, Past
  <2> QED BY <1>1, <2>1, <2>3, BodyBegins
<1> QED BY <1>2, <1>3

-----------------------------------------------------------------------------
(* What is read is what was sent. *)
Whole(k) == ending[k] = "whole" /\ link[used[k]] # "cut"

IntactAt(k) == Intact(data[k], Script(k), reply[k].framing, Whole(k))

(* BodyIntact, with the reply that the call itself got. *)
LEMMA IntactAlike ==
    ASSUME OwnAnswers
    PROVE  BodyIntact <=> \A k \in Calls \ shared : status[k] = "ok" /\ ~Displaced(k) => IntactAt(k)
<1>1. ASSUME NEW k \in Calls, status[k] = "ok", ~Displaced(k) PROVE answer[k] = k
  BY <1>1 DEF OwnAnswers
<1> DEFINE Said(k, j) == Intact(data[k], Answer(j, reply[j]), reply[j].framing, Whole(k))
<1>2. ASSUME NEW k \in Calls, status[k] = "ok", ~Displaced(k) PROVE Said(k, answer[k]) <=> IntactAt(k)
  <2>1. PICK j : j = answer[k] /\ j = k
    BY <1>1, <1>2
  <2> QED BY <2>1 DEF IntactAt, Script
<1>3. BodyIntact <=> \A k \in Calls \ shared : status[k] = "ok" /\ ~Displaced(k) => Said(k, answer[k])
  BY DEF BodyIntact, Intact, Whole
<1> QED BY <1>2, <1>3

(* It takes more to be intact when there is no more to come. *)
LEMMA IntactLess ==
    ASSUME NEW x, NEW a, NEW f, NEW w \in BOOLEAN, NEW w2 \in BOOLEAN, Intact(x, a, f, w), w2 => w
    PROVE  Intact(x, a, f, w2)
  BY DEF Intact

(* A body of which nothing was read is intact. *)
LEMMA NothingIntact ==
    ASSUME NEW a, NEW z, NEW k, NEW r, ScriptIs(a, z, k, r)
    PROVE  Intact(<< >>, a, r.framing, FALSE)
<1>1. Len(a) \in Nat /\ 2 <= Len(a)
  <2>1. Len(a) \in Nat /\ z \in Nat /\ z >= 2 /\ (z = Len(a) \/ z = Len(a) - 1)
    BY DEF ScriptIs
  <2> QED BY <2>1
<1>2. 2 \in (IF r.framing = "switching" THEN 2..Len(a) ELSE {2}) /\ 1..Len(<< >>) = {}
  BY <1>1
<1> QED BY <1>2 DEF Intact

(* What stays, and that a connection which was cut stays cut. *)
LEMMA EndingStays ==
    ASSUME ReuseInv, Closing, Unread, [Next]_vars, NEW k \in Calls, status[k] = "ok", ~Streaming(k)
    PROVE  data'[k] = data[k] /\ ending'[k] = ending[k]
<1> USE DEF callVars, bodyVars, serverVars
<1>0. /\ pc # "idle" => n \in Calls /\ n # k
      /\ DOMAIN data = Calls
  BY Basics DEF ReuseInv, Calling, Unread
<1>1. CASE Others
  BY <1>1 DEF Others, Idle, vars, WriteInvalid, WriteFails, ParseEof, Fail, ServerSend, ServerClose
<1>2. CASE Request \/ RequestRejected \/ WriteRequest \/ ParsePiece
  BY <1>2 DEF Request, RequestRejected, WriteRequest, ParsePiece
<1>3. CASE BufferBody
  <2>1. DOMAIN ending = Calls
    BY DEF ReuseInv, TypeOK
  <2> QED BY <1>0, <1>3, <2>1 DEF BufferBody
<1>4. ASSUME NEW j \in Calls, Fill(j) \/ IntoUpgraded(j) PROVE UNCHANGED <<data, ending>>
  BY <1>4 DEF Fill, IntoUpgraded
<1>5. ASSUME NEW j \in Calls, BodyPiece(j) PROVE data'[k] = data[k] /\ ending'[k] = ending[k]
  <2>1. j # k /\ UNCHANGED ending /\ (data' = data \/ \E x : data' = [data EXCEPT ![j] = x])
    BY <1>5 DEF BodyPiece
  <2> QED BY <1>0, <2>1
<1>6. ASSUME NEW j \in Calls, BodyDone(j) \/ BodyAbandoned(j) PROVE data'[k] = data[k] /\ ending'[k] = ending[k]
  <2>1. j # k /\ UNCHANGED data /\ \E x : ending' = [ending EXCEPT ![j] = x]
    BY <1>6 DEF BodyDone, BodyAbandoned, LetGo
  <2>2. DOMAIN ending = Calls
    BY DEF ReuseInv, TypeOK
  <2> QED BY <2>1, <2>2
<1> QED BY <1>1, <1>2, <1>3, <1>4, <1>5, <1>6, EveryStep

(* A connection that was cut stays cut. *)
LEMMA CutStays ==
    ASSUME ReuseInv, Closing, [Next]_vars, NEW c \in Conns, link[c] = "cut"
    PROVE  link'[c] = "cut"
<1>0. DOMAIN link = Conns /\ todo[c] = << >>
  BY DEF ReuseInv, TypeOK, Closing
<1>1. ASSUME NEW x \in Conns, ServerSend(x) \/ ServerClose(x) PROVE link'[c] = "cut"
  <2>1. x # c
    BY <1>0, <1>1 DEF ServerSend, ServerClose
  <2> QED BY <1>0, <1>1, <2>1 DEF ServerSend, ServerClose
<1>2. WriteRequest => UNCHANGED link
  BY DEF WriteRequest
<1> QED BY <1>1, <1>2, StreamEffects DEF Empties, Fills

(* A body ends when its reader is done with it. *)
LEMMA DoneOrAbandoned ==
    ASSUME ReuseInv, [Next]_vars, NEW k \in Calls, Streaming(k), ~Streaming(k)'
    PROVE  BodyDone(k) \/ BodyAbandoned(k)
<1>0. status[k] = "ok" /\ DOMAIN body = Calls
  BY DEF ReuseInv, Reading, TypeOK
<1>1. CASE Others
  BY <1>1 DEF Others, Idle, vars, WriteInvalid, WriteFails, ParseEof, Fail, ServerSend, ServerClose, bodyVars, Streaming
<1>2. CASE Request \/ RequestRejected \/ WriteRequest
  BY <1>2 DEF Request, RequestRejected, WriteRequest, bodyVars, Streaming
<1>3. CASE ParsePiece \/ BufferBody
  <2>1. n # k
    BY <1>0, <1>3 DEF ReuseInv, Calling, ParsePiece, BufferBody
  <2>2. UNCHANGED body \/ \E x : body' = [body EXCEPT ![n] = x]
    BY <1>3 DEF ParsePiece, BufferBody, Return
  <2> QED BY <1>0, <2>1, <2>2 DEF Streaming
<1>4. ASSUME NEW j \in Calls, Fill(j) \/ BodyPiece(j) PROVE FALSE
  BY <1>4 DEF Fill, BodyPiece, Streaming
<1>5. ASSUME NEW j \in Calls, IntoUpgraded(j) PROVE FALSE
  BY <1>0, <1>5 DEF IntoUpgraded, Streaming
<1>6. ASSUME NEW j \in Calls, BodyDone(j) \/ BodyAbandoned(j) PROVE j = k
  BY <1>0, <1>6 DEF BodyDone, BodyAbandoned, LetGo, Streaming
<1> QED BY <1>1, <1>2, <1>3, <1>4, <1>5, <1>6, EveryStep

(* A body whose reader is done with it. *)
LEMMA BodyEnds ==
    ASSUME ReuseInv, Closing, Unread, [Next]_vars, NEW k \in Calls, Streaming(k), BodyAt(k), ~Streaming(k)'
    PROVE  IntactAt(k)'
<1>0. /\ status[k] = "ok" /\ used[k] \in Conns /\ buf[k] \in Seq(PieceRecords)
      /\ left[k] \in 0..2 /\ DOMAIN ending = Calls /\ DOMAIN body = Calls
      /\ ScriptIs(Script(k), Size(k), k, reply[k])
  <2>1. status[k] = "ok" /\ used[k] # 0 /\ used[k] \in 0..MaxRequests /\ Conns = 1..MaxRequests /\ MaxRequests \in Nat
    BY Basics DEF ReuseInv, Reading, TypeOK
  <2> QED BY <2>1, Typed DEF ReuseInv, TypeOK
<1>1. PICK c \in Conns, a \in Seq(PieceRecords), z \in Int : c = used[k] /\ a = Script(k) /\ z = Size(k)
  BY <1>0, ScriptSeq
<1>2. used'[k] = c /\ Script(k)' = a /\ reply'[k] = reply[k]
  BY <1>0, <1>1, CallStays DEF Script
<1>3. PICK e \in 2..4 : Straight(k, e) /\ ReadTo(body[k], reply[k].framing, left[k], data[k], buf[k], a, e)
  BY <1>1 DEF BodyAt
<1>4. PICK b \in Seq(PieceRecords), m \in Nat : b = buf[k] /\ m = Len(b)
  BY <1>0
<1>5. Along(c, a, z, e + m)
  BY <1>1, <1>3, <1>4 DEF Straight, Ahead
<1>6. PICK s \in Seq(PieceRecords), t \in Seq(PieceRecords) : s = socket[c] /\ t = todo[c]
  BY Typed
<1>7. ScriptIs(a, z, k, reply[k]) /\ Len(a) \in Nat /\ Len(s) \in Nat /\ Len(t) \in Nat
  BY <1>0, <1>1, ScriptSeq
<1>8. e <= Len(a)
  <2>1. (e + m) + Len(s) + Len(t) <= Len(a)
    BY <1>5, <1>6 DEF Along, Stream, Follow
  <2> QED BY <1>7, <2>1
<1>9. BodyDone(k) \/ BodyAbandoned(k)
  BY DoneOrAbandoned
<1>10. UNCHANGED <<data, link, used>>
  BY <1>9 DEF BodyDone, BodyAbandoned, LetGo, callVars, serverVars
<1>11. Whole(k)' => body[k] # "Extension" /\ (left[k] = 0 \/ e >= z)
  <2> SUFFICES ASSUME Whole(k)' PROVE body[k] # "Extension" /\ (left[k] = 0 \/ e >= z)
    OBVIOUS
  <2>1. ending'[k] = "whole" /\ link[c] # "cut"
    BY <1>1, <1>10 DEF Whole
  <2>2. BodyDone(k)
    BY <1>0, <1>9, <2>1 DEF BodyAbandoned, LetGo
  <2>3. CASE left[k] = 0
    BY <2>2, <2>3 DEF BodyDone
  <2>4. CASE EndOfStream(k)
    <3>1. b = << >> /\ s = << >> /\ link[c] # "open" /\ t = << >>
      BY <1>1, <1>4, <1>6, <2>4 DEF EndOfStream, Closing
    <3>2. m = 0 /\ Len(s) = 0 /\ Len(t) = 0
      BY <1>4, <3>1
    <3>3. FullTo(link[c], a, z, (e + m) + Len(s) + Len(t)) /\ (e + m) + Len(s) + Len(t) = e
      BY <1>5, <1>6, <3>2 DEF Along, Stream
    <3>4. e = Len(a) \/ e >= z
      BY <2>1, <3>3 DEF FullTo
    <3>5. z <= Len(a)
      BY <1>7 DEF ScriptIs
    <3> QED BY <1>7, <2>2, <3>4, <3>5 DEF BodyDone
  <2> QED BY <2>2, <2>3, <2>4 DEF BodyDone
<1>12. PICK w \in BOOLEAN : w = Whole(k)'
  BY DEF Whole
<1>13. Intact(data[k], a, reply[k].framing, w)
  <2>1. PICK kind, r, x : kind = body[k] /\ r = reply[k] /\ x = data[k]
    OBVIOUS
  <2>2. PICK l \in 0..2 : l = left[k]
    BY <1>0
  <2>3. ScriptIs(a, z, k, r) /\ ReadTo(kind, r.framing, l, x, b, a, e) /\ (w => kind # "Extension" /\ (l = 0 \/ e >= z))
    BY <1>3, <1>4, <1>7, <1>11, <1>12, <2>1, <2>2
  <2>4. Intact(x, a, r.framing, w)
    BY <1>8, <2>3, ReadIntact
  <2> QED BY <2>1, <2>4
<1> QED BY <1>2, <1>10, <1>12, <1>13 DEF IntactAt

(* A body that is read at once. *)
LEMMA BufferedIntact ==
    ASSUME ReuseInv, Arrived, Unread, OnCall, [Next]_vars, NEW k \in Calls, k = n, BufferBody,
           ~Displaced(n), n \notin shared
    PROVE  IntactAt(k)'
<1>0. pc = "small" /\ DOMAIN data = Calls /\ buf[k] # << >>
  BY DEF BufferBody, Unread
<1>1. PICK a \in Seq(PieceRecords), z \in Int, e \in Int, d \in Int, b \in Seq(PieceRecords), m \in Nat :
          a = Script(n) /\ z = Size(n) /\ b = buf[n] /\ m = Len(b) /\ InPlace(b, m, used[n], a, z, e, d)
  BY <1>0, PlaceFacts
<1>2. ScriptIs(a, z, k, reply[k]) /\ Lies(b, a, e) /\ e = 2 /\ reply[k].framing \in {"small", "head"}
  BY <1>0, <1>1 DEF InPlace, Exact
<1>3. b # << >> /\ 3 \in 1..Len(a) /\ Head(b) = a[3] /\ a[3].t # "eof"
  <2>1. e + 1 \in 1..Len(a) /\ Head(b) = a[e + 1] /\ e + 1 = 3 /\ b # << >>
    BY <1>0, <1>1, <1>2, LiesFirst
  <2>2. 1 \in 1..Len(b) /\ Head(b) = b[1]
    BY <2>1, NonEmpty
  <2>3. b[1].t # "eof"
    BY <1>1, <2>2 DEF Arrived
  <2> QED BY <2>1, <2>2, <2>3
<1>4. z = 3 /\ a[3].t = "data" /\ reply[k].framing = "small"
  <2>1. reply[k].framing # "head"
    <3>1. ASSUME reply[k].framing = "head" PROVE FALSE
      <4>1. z = 2 /\ Len(a) \in Nat /\ (z = Len(a) \/ (z = Len(a) - 1 /\ a[Len(a)].t = "eof"))
        BY <1>2, <3>1 DEF ScriptIs
      <4>2. Len(a) = 3
        BY <1>3, <4>1
      <4> QED BY <1>3, <4>1, <4>2
    <3> QED BY <3>1
  <2>2. reply[k].framing = "small"
    BY <1>2, <2>1
  <2> QED BY <1>2, <2>2 DEF ScriptIs
<1>5. Script(k)' = a /\ reply'[k] = reply[k] /\ data'[k] = << a[3] >>
  BY <1>0, <1>1, <1>3 DEF BufferBody, Script, serverVars, NextPiece
<1>6. Len(a) \in Nat /\ \A i \in 1..Len(a) : i <= 3 \/ a[i].t = "eof"
  BY <1>2, <1>4, ScriptEnds
<1>a. PICK q \in PieceRecords : q = a[3]
  BY <1>3
<1>b. << q >> \in Seq(PieceRecords) /\ Len(<< q >>) = 1 /\ << q >>[1] = q
  OBVIOUS
<1>7. PICK x \in Seq(PieceRecords) : x = << a[3] >> /\ Len(x) = 1 /\ x[1] = a[3]
  BY <1>a, <1>b
<1>8. ASSUME NEW w \in BOOLEAN PROVE Intact(x, a, reply[k].framing, w)
  <2>1. 2 \in (IF reply[k].framing = "switching" THEN 2..Len(a) ELSE {2})
    BY <1>4
  <2>2. \A i \in 1..Len(x) : 2 + i \in 1..Len(a) /\ x[i] = a[2 + i] /\ Carries(a[2 + i])
    <3>1. \A i \in 1..Len(x) : i = 1 /\ 2 + i = 3
      BY <1>7
    <3> QED BY <1>3, <1>4, <1>7, <3>1 DEF Carries
  <2>3. \A i \in 1..Len(a) : Carries(a[i]) => i <= 2 + Len(x)
    BY <1>6, <1>7 DEF Carries
  <2> QED BY <2>1, <2>2, <2>3 DEF Intact
<1>9. PICK w \in BOOLEAN : w = Whole(k)'
  BY DEF Whole
<1> QED BY <1>5, <1>7, <1>8, <1>9 DEF IntactAt

(* Types, and what BodyIntact says, after a step. *)
LEMMA TypedNext ==
    ReuseInv' =>
        /\ \A c \in Conns : socket'[c] \in Seq(PieceRecords) /\ todo'[c] \in Seq(PieceRecords)
        /\ \A k \in Calls : /\ buf'[k] \in Seq(PieceRecords)
                            /\ ScriptIs(Script(k)', Size(k)', k, reply'[k])
<1> DEFINE Types == /\ \A c \in Conns : socket[c] \in Seq(PieceRecords) /\ todo[c] \in Seq(PieceRecords)
                    /\ \A k \in Calls : /\ buf[k] \in Seq(PieceRecords)
                                        /\ ScriptIs(Script(k), Size(k), k, reply[k])
<1>1. ReuseInv => Types
  BY Typed
<1> HIDE DEF Types
<1>2. ReuseInv' => Types'
  BY <1>1, PTL
<1> QED BY <1>2 DEF Types

(* BodyIntact of the next state, call by call. *)
LEMMA IntactNext ==
    OwnAnswers' /\ (\A k \in Calls : k \notin shared' /\ status'[k] = "ok" /\ ~Displaced(k)' => IntactAt(k)')
        => BodyIntact'
<1> DEFINE All == \A k \in Calls \ shared : status[k] = "ok" /\ ~Displaced(k) => IntactAt(k)
<1>1. OwnAnswers /\ All => BodyIntact
  BY IntactAlike
<1> HIDE DEF All
<1>2. OwnAnswers' /\ All' => BodyIntact'
  BY <1>1, PTL
<1> QED BY <1>2 DEF All

(* BodyIntact is preserved. *)
LEMMA BodyIntactStep ==
    /\ ReuseInv /\ ReuseInv' /\ OwnInv /\ OwnInv' /\ BodyInv /\ Unread' /\ OwnBodies' /\ [Next]_vars
    => BodyIntact'
<1> SUFFICES ASSUME ReuseInv, ReuseInv', OwnInv, OwnInv', BodyInv, Unread', OwnBodies', [Next]_vars
             PROVE  BodyIntact'
  OBVIOUS
<1>0. Closing /\ Arrived /\ Sharing /\ Unread /\ OnCall /\ OwnBodies
      /\ \A k \in Calls \ shared : status[k] = "ok" /\ ~Displaced(k) => IntactAt(k)
  BY IntactAlike DEF OwnInv, BodyInv
<1>1. ASSUME NEW k \in Calls, k \notin shared', status'[k] = "ok", ~Displaced(k)' PROVE IntactAt(k)'
  <2>0. k \notin shared
    BY <1>1, SharedGrows
  <2>s. ScriptIs(Script(k)', Size(k)', k, reply'[k]) /\ used'[k] \in 0..MaxRequests
    BY TypedNext DEF ReuseInv, TypeOK
  <2>1. CASE Streaming(k)'
    <3>1. BodyAt(k)' /\ ending'[k] = "none"
      BY <1>1, <2>1 DEF OwnBodies, Unread
    <3>2. PICK a, z, r, kind, x, b : /\ a = Script(k)' /\ z = Size(k)' /\ r = reply'[k] /\ kind = body'[k] /\ x = data'[k]
                                     /\ b = buf'[k]
      OBVIOUS
    <3>3. PICK l \in 0..2 : l = left'[k]
      BY DEF ReuseInv, TypeOK
    <3>4. PICK e \in 2..4 : Straight(k, e)' /\ ReadTo(kind, r.framing, l, x, b, a, e)
      BY <3>1, <3>2, <3>3 DEF BodyAt
    <3>5. e <= Len(a) /\ ScriptIs(a, z, k, r)
      <4>1. used'[k] \in Conns
        <5>1. used'[k] # 0 /\ MaxRequests \in Nat
          BY <2>1, ClientAssumption DEF ReuseInv, Reading
        <5> QED BY <2>s, <5>1 DEF Conns
      <4>2. buf'[k] \in Seq(PieceRecords) /\ socket'[used'[k]] \in Seq(PieceRecords) /\ todo'[used'[k]] \in Seq(PieceRecords)
        BY <4>1, TypedNext
      <4>3. PICK m \in Nat, y \in Nat, v \in Nat : m = Len(buf'[k]) /\ y = Len(socket'[used'[k]]) /\ v = Len(todo'[used'[k]])
        BY <4>2
      <4>4. (e + m) + y + v <= Len(a)
        BY <3>2, <3>4, <4>3 DEF Straight, Ahead, Along, Stream, Follow
      <4>5. ScriptIs(a, z, k, r)
        BY <2>s, <3>2
      <4>6. Len(a) \in Nat
        BY <4>5, ScriptSeq
      <4> QED BY <4>4, <4>5, <4>6
    <3>6. Intact(x, a, r.framing, FALSE)
      BY <3>4, <3>5, ReadIntact
    <3>7. Whole(k)' = FALSE
      BY <3>1 DEF Whole
    <3> QED BY <3>2, <3>6, <3>7 DEF IntactAt
  <2>2. CASE ~Streaming(k)' /\ status[k] # "none"
    <3>1. status[k] = "ok" /\ ~Displaced(k) /\ used'[k] = used[k] /\ reply'[k] = reply[k] /\ Script(k)' = Script(k)
      BY <1>1, <2>2, CallStays DEF Script
    <3>2. CASE Streaming(k)
      <4>1. BodyAt(k)
        BY <1>0, <2>0, <3>1, <3>2 DEF OwnBodies
      <4> QED BY <1>0, <2>2, <3>2, <4>1, BodyEnds
    <3>3. CASE ~Streaming(k)
      <4>1. data'[k] = data[k] /\ ending'[k] = ending[k]
        BY <1>0, <3>1, <3>3, EndingStays
      <4>2. IntactAt(k)
        BY <1>0, <2>0, <3>1
      <4>3. Whole(k)' => Whole(k)
        <5>1. used[k] \in Conns
          BY <1>0, <3>1 DEF Unread
        <5> QED BY <1>0, <3>1, <4>1, <5>1, CutStays DEF Whole
      <4>4. PICK x, a, f : x = data[k] /\ a = Script(k) /\ f = reply[k].framing
        OBVIOUS
      <4>5. PICK w \in BOOLEAN, w2 \in BOOLEAN : w = Whole(k) /\ w2 = Whole(k)'
        BY DEF Whole
      <4>6. Intact(x, a, f, w2)
        BY <4>2, <4>3, <4>4, <4>5, IntactLess DEF IntactAt
      <4> QED BY <3>1, <4>1, <4>4, <4>5, <4>6 DEF IntactAt
    <3> QED BY <3>2, <3>3
  <2>3. CASE ~Streaming(k)' /\ status[k] = "none"
    <3>0. n \in Nat /\ Calls = 1..MaxRequests /\ DOMAIN status = Calls /\ MaxRequests \in Nat
      BY Basics DEF ReuseInv, TypeOK
    <3>1. k = n /\ pc # "idle" /\ pc' = "idle" /\ n \in 1..n
      <4>1. k = n /\ pc # "idle" /\ pc' = "idle"
        BY <1>1, <2>3, <3>0, CallEffects DEF ReuseInv, Untouched, Request, RequestRejected, WriteRequest, Dropped, CutOff,
              ReadsHead, HasHead, Returned, Ends
      <4> QED BY <3>0, <4>1
    <3>2. ~Displaced(n)
      BY <1>1, <3>1, Past
    <3>3. data[k] = << >> /\ ending[k] = "none"
      BY <1>0, <2>3 DEF Unread
    <3>4. ASSUME UNCHANGED <<data, ending>> PROVE IntactAt(k)'
      <4>1. Whole(k)' = FALSE /\ data'[k] = << >>
        BY <3>3, <3>4 DEF Whole
      <4>2. PICK a, z, r : a = Script(k)' /\ z = Size(k)' /\ r = reply'[k] /\ ScriptIs(a, z, k, r)
        BY <2>s
      <4>3. Intact(<< >>, a, r.framing, FALSE)
        BY <4>2, NothingIntact
      <4> QED BY <4>1, <4>2, <4>3 DEF IntactAt
    <3>5. CASE BufferBody
      BY <1>0, <2>0, <3>1, <3>2, <3>5, BufferedIntact
    <3>6. CASE Others
      BY <3>4, <3>6 DEF Others, Idle, vars, WriteInvalid, WriteFails, ParseEof, Fail, ServerSend, ServerClose, bodyVars
    <3>7. CASE Request \/ RequestRejected \/ WriteRequest \/ ParsePiece
      BY <3>4, <3>7 DEF Request, RequestRejected, WriteRequest, ParsePiece, bodyVars
    <3>8. ASSUME NEW j \in Calls, Fill(j) \/ BodyPiece(j) \/ BodyDone(j) \/ BodyAbandoned(j) \/ IntoUpgraded(j)
          PROVE  FALSE
      BY <3>1, <3>8 DEF Fill, BodyPiece, BodyDone, BodyAbandoned, IntoUpgraded, LetGo, callVars
    <3> QED BY <3>5, <3>6, <3>7, <3>8, EveryStep
  <2> QED BY <2>1, <2>2, <2>3
<1> QED BY <1>1, IntactNext DEF OwnInv

(* BodyInv holds at the beginning. *)
LEMMA InitBody == Init => BodyInv
<1> SUFFICES ASSUME Init PROVE BodyInv
  OBVIOUS
<1>0. /\ \A c \in Conns : Len(socket[c]) = 0
      /\ \A k \in Calls : Len(buf[k]) = 0 /\ ~Streaming(k) /\ status[k] = "none" /\ data[k] = << >> /\ ending[k] = "none"
      /\ pc = "idle" /\ pool = 0 /\ got = "nothing" /\ data = [k \in Calls |-> << >>]
  BY DEF Init, Streaming
<1>1. Arrived /\ Sharing /\ OwnBodies
  BY <1>0 DEF Arrived, Sharing, OwnBodies
<1>2. Unread
  <2>1. << >> \in Seq(PieceRecords)
    OBVIOUS
  <2>2. data \in [Calls -> Seq(PieceRecords)]
    BY <1>0, <2>1
  <2> QED BY <1>0, <2>2 DEF Unread
<1>3. OnCall /\ PoolBare
  BY <1>0 DEF OnCall, PoolBare
<1>4. BodyIntact
  BY <1>0 DEF BodyIntact
<1> QED BY <1>1, <1>2, <1>3, <1>4 DEF BodyInv

(* The bodies and the calls are where BodyInv says, in every state.         *)
THEOREM BodyInvHolds == Spec => []BodyInv
<1>1. ReuseInv /\ OwnInv /\ BodyInv /\ [Next]_vars =>
          Arrived' /\ Sharing' /\ Unread' /\ OnCall' /\ PoolBare' /\ OwnBodies'
  BY ArrivedStep, SharingStep, UnreadStep, OnCallStep, PoolBareStep, OwnBodiesStep DEF BodyInv, OwnInv
<1>2. ReuseInv /\ ReuseInv' /\ OwnInv /\ OwnInv' /\ BodyInv /\ [Next]_vars => BodyInv'
  BY <1>1, BodyIntactStep DEF BodyInv
<1> QED BY <1>2, InitBody, ReuseInvHolds, OwnInvHolds, PTL DEF Spec

(* What the application reads of a body is what the server sent, from the   *)
(* start, and all of it when the body comes to its end, in any sequence of  *)
(* calls and whatever the bodies of other responses do, as long as nothing  *)
(* else reads from the connection and no 100 Continue was taken for a       *)
(* response (src/src/response.rs, parse_response; src/src/body.rs).         *)
THEOREM BodiesIntact == Spec => []BodyIntact
  BY BodyInvHolds, PTL DEF BodyInv

-----------------------------------------------------------------------------
(* What is left on a connection.  Of an answer that was read to its end     *)
(* there is at most the empty line after a chunked body, and the end of the *)
(* connection: x is the number of empty lines.                              *)
Scant(w) ==
    \E x \in 0..1 : (x = 1 => Len(w) >= 1 /\ w[1].t = "crlf") /\ (Len(w) > x => w[x + 1].t = "eof")

(* With that in front of it, an answer is read without an error. *)
Fine(g, w) ==
    /\ g # "junk"
    /\ g = "line" => (Len(w) > 0 => w[1].t = "fields")
    /\ g # "line" =>
        \E x \in 0..1 :
            /\ x = 1 => g = "nothing" /\ Len(w) >= 1 /\ w[1].t = "crlf"
            /\ Len(w) > x => w[x + 1].t \in {"line", "eof"}
            /\ Len(w) > x + 1 /\ w[x + 1].t = "line" => w[x + 2].t = "fields"

(* When the server closes the connection, only the first part is left. *)
Prefix(u, w) == Len(u) <= Len(w) /\ \A i \in 1..Len(u) : u[i] = w[i]

LEMMA ScantPrefix ==
    ASSUME NEW u \in Seq(PieceRecords), NEW w \in Seq(PieceRecords), Prefix(u, w), Scant(w)
    PROVE  Scant(u)
<1>0. Len(u) \in Nat /\ Len(w) \in Nat /\ Len(u) <= Len(w) /\ \A i \in 1..Len(u) : u[i] = w[i]
  BY DEF Prefix
<1>1. PICK x \in 0..1 : (x = 1 => Len(w) >= 1 /\ w[1].t = "crlf") /\ (Len(w) > x => w[x + 1].t = "eof")
  BY DEF Scant
<1>2. CASE Len(u) = 0
  <2>1. 0 \in 0..1 /\ ~(Len(u) > 0) /\ 0 # 1
    BY <1>2
  <2> QED BY <2>1 DEF Scant
<1>3. CASE Len(u) # 0
  <2>1. u[1] = w[1] /\ Len(u) >= 1
    BY <1>0, <1>3
  <2>2. Len(u) > x => u[x + 1] = w[x + 1] /\ Len(w) > x
    BY <1>0
  <2> QED BY <1>1, <2>1, <2>2 DEF Scant
<1> QED BY <1>2, <1>3

(* Nothing is scant. *)
LEMMA NothingScant == Scant(<< >> \o << >>)
<1>1. << >> \o << >> = << >> /\ Len(<< >>) = 0
  BY ConcatEmptySeq
<1>2. 0 \in 0..1 /\ ~(0 > 0) /\ 0 # 1
  OBVIOUS
<1> QED BY <1>1, <1>2 DEF Scant

(* The last part of what was to come is left out. *)
LEMMA PrefixKept ==
    ASSUME NEW b \in Seq(PieceRecords), NEW s \in Seq(PieceRecords), NEW t \in Seq(PieceRecords)
    PROVE  Prefix(b \o s, b \o (s \o t))
<1>1. PICK w \in Seq(PieceRecords), u \in Seq(PieceRecords) : w = s \o t /\ u = b \o s
  BY Concatenated
<1>2. PICK v \in Seq(PieceRecords) : v = b \o w
  BY Concatenated
<1>3. /\ Len(b) \in Nat /\ Len(s) \in Nat /\ Len(t) \in Nat /\ Len(w) = Len(s) + Len(t)
      /\ \A i \in 1..Len(s) : w[i] = s[i]
      /\ Len(u) = Len(b) + Len(s) /\ \A i \in 1..Len(b) : u[i] = b[i]
      /\ \A i \in 1..Len(s) : u[Len(b) + i] = s[i]
  BY <1>1, Concatenated
<1>4. /\ Len(v) = Len(b) + Len(w) /\ \A i \in 1..Len(b) : v[i] = b[i]
      /\ \A i \in 1..Len(w) : v[Len(b) + i] = w[i]
  BY <1>2, Concatenated
<1>5. ASSUME NEW i \in 1..Len(u) PROVE u[i] = v[i]
  <2>1. CASE i <= Len(b)
    <3>1. i \in 1..Len(b)
      BY <1>3, <2>1
    <3> QED BY <1>3, <1>4, <3>1
  <2>2. CASE i > Len(b)
    <3>1. PICK j \in 1..Len(s) : j = i - Len(b)
      <4>1. i - Len(b) \in 1..Len(s)
        BY <1>3, <2>2
      <4> QED BY <4>1
    <3>2. i = Len(b) + j /\ j \in 1..Len(w)
      BY <1>3, <3>1
    <3> QED BY <1>3, <1>4, <3>2
  <2> QED BY <1>3, <2>1, <2>2
<1>6. Len(u) <= Len(v)
  BY <1>3, <1>4
<1> QED BY <1>1, <1>2, <1>5, <1>6 DEF Prefix

LEMMA FinePrefix ==
    ASSUME NEW u \in Seq(PieceRecords), NEW w \in Seq(PieceRecords), Prefix(u, w), NEW g, Fine(g, w)
    PROVE  Fine(g, u)
<1>0. Len(u) \in Nat /\ Len(w) \in Nat /\ Len(u) <= Len(w) /\ \A i \in 1..Len(u) : u[i] = w[i]
  BY DEF Prefix
<1>1. CASE g = "line"
  <2>1. Len(u) > 0 => u[1] = w[1] /\ Len(w) > 0
    BY <1>0
  <2> QED BY <1>1, <2>1 DEF Fine
<1>2. CASE g # "line" /\ Len(u) = 0
  <2>1. 0 \in 0..1 /\ 0 # 1 /\ ~(Len(u) > 0) /\ ~(Len(u) > 0 + 1)
    BY <1>2
  <2>2. g # "junk"
    BY DEF Fine
  <2> QED BY <1>2, <2>1, <2>2 DEF Fine
<1>3. CASE g # "line" /\ Len(u) # 0
  <2>1. PICK x \in 0..1 :
            /\ x = 1 => g = "nothing" /\ Len(w) >= 1 /\ w[1].t = "crlf"
            /\ Len(w) > x => w[x + 1].t \in {"line", "eof"}
            /\ Len(w) > x + 1 /\ w[x + 1].t = "line" => w[x + 2].t = "fields"
    BY <1>3 DEF Fine
  <2>2. u[1] = w[1] /\ Len(u) >= 1
    BY <1>0, <1>3
  <2>3. Len(u) > x => u[x + 1] = w[x + 1] /\ Len(w) > x
    BY <1>0
  <2>4. Len(u) > x + 1 => u[x + 2] = w[x + 2] /\ Len(w) > x + 1 /\ Len(u) > x
    BY <1>0
  <2>5. g # "junk"
    BY DEF Fine
  <2> QED BY <1>3, <2>1, <2>2, <2>3, <2>4, <2>5 DEF Fine
<1> QED BY <1>1, <1>2, <1>3

(* Nothing is left, or nothing but what is Scant. *)
LEMMA ScantFine ==
    ASSUME NEW w \in Seq(PieceRecords), Scant(w)
    PROVE  Fine("nothing", w)
<1>1. PICK x \in 0..1 : (x = 1 => Len(w) >= 1 /\ w[1].t = "crlf") /\ (Len(w) > x => w[x + 1].t = "eof")
  BY DEF Scant
<1>2. Len(w) \in Nat /\ (Len(w) > x + 1 => Len(w) > x)
  OBVIOUS
<1> QED BY <1>1, <1>2 DEF Fine

(* The server answers behind it. *)
LEMMA ScantAnswered ==
    ASSUME NEW w \in Seq(PieceRecords), Scant(w), NoEof(w), NEW a \in Seq(PieceRecords), Len(a) >= 2,
           a[1].t = "line", a[2].t = "fields"
    PROVE  Fine("nothing", w \o a)
<1>1. PICK x \in 0..1 : (x = 1 => Len(w) >= 1 /\ w[1].t = "crlf") /\ (Len(w) > x => w[x + 1].t = "eof")
  BY DEF Scant
<1>2. PICK u \in Seq(PieceRecords) : u = w \o a
  BY Concatenated
<1>3. /\ Len(w) \in Nat /\ Len(a) \in Nat /\ Len(u) = Len(w) + Len(a) /\ \A i \in 1..Len(w) : u[i] = w[i]
      /\ \A i \in 1..Len(a) : u[Len(w) + i] = a[i]
  BY <1>2, Concatenated
<1>4. Len(w) = x
  <2>1. ~(Len(w) > x)
    <3> SUFFICES ASSUME Len(w) > x PROVE FALSE
      OBVIOUS
    <3>1. x + 1 \in 1..Len(w) /\ w[x + 1].t = "eof"
      BY <1>1, <1>3
    <3> QED BY <3>1 DEF NoEof
  <2> QED BY <1>1, <1>3, <2>1
<1>5. 1 \in 1..Len(a) /\ 2 \in 1..Len(a)
  BY <1>3
<1>6. u[x + 1] = a[1] /\ u[x + 2] = a[2]
  BY <1>3, <1>4, <1>5
<1>7. x = 1 => Len(u) >= 1 /\ u[1].t = "crlf"
  BY <1>1, <1>3, <1>4
<1>8. Fine("nothing", u)
  BY <1>6, <1>7 DEF Fine
<1> QED BY <1>2, <1>8

(* The next line is read: it is no error, and what follows is fine. *)
LEMMA FineHead ==
    ASSUME NEW g \in {"nothing", "blank", "line", "junk"}, NEW w \in Seq(PieceRecords), Fine(g, w),
           w # << >>, NEW t, t = w[1].t, t # "eof"
    PROVE  /\ t \notin Loose
           /\ HeadEnds(g, t) => g = "line" /\ t = "fields"
           /\ ~HeadEnds(g, t) => Fine(HeadAfter(g, t), Tail(w))
<1>1. PICK u \in Seq(PieceRecords) : u = Tail(w)
  BY NonEmpty
<1>2. /\ Len(w) \in Nat /\ Len(w) > 0 /\ Len(u) = Len(w) - 1 /\ \A i \in 1..(Len(w) - 1) : u[i] = w[i + 1]
  BY <1>1, NonEmpty
<1>3. CASE g = "line"
  <2>1. t = "fields"
    BY <1>2, <1>3 DEF Fine
  <2> QED BY <1>3, <2>1 DEF HeadEnds, Loose
<1>4. CASE g # "line"
  <2>1. PICK x \in 0..1 :
            /\ x = 1 => g = "nothing" /\ Len(w) >= 1 /\ w[1].t = "crlf"
            /\ Len(w) > x => w[x + 1].t \in {"line", "eof"}
            /\ Len(w) > x + 1 /\ w[x + 1].t = "line" => w[x + 2].t = "fields"
    BY <1>4 DEF Fine
  <2>2. CASE x = 1
    <3>1. t = "crlf" /\ g = "nothing"
      BY <2>1, <2>2
    <3>2. /\ Len(u) > 0 => u[1].t \in {"line", "eof"}
          /\ Len(u) > 1 /\ u[1].t = "line" => u[2].t = "fields"
      <4>1. Len(w) > 1 => u[1] = w[2]
        BY <1>2
      <4>2. Len(w) > 2 => u[2] = w[3]
        BY <1>2
      <4>3. /\ Len(w) > 1 => w[2].t \in {"line", "eof"}
            /\ Len(w) > 2 /\ w[2].t = "line" => w[3].t = "fields"
        BY <2>1, <2>2
      <4> QED BY <1>2, <4>1, <4>2, <4>3
    <3>3. Fine("blank", u)
      <4>1. 0 \in 0..1 /\ 0 + 1 = 1 /\ 0 + 2 = 2
        OBVIOUS
      <4> QED BY <3>2, <4>1 DEF Fine
    <3> QED BY <1>1, <3>1, <3>3 DEF HeadEnds, HeadAfter, Loose
  <2>3. CASE x = 0
    <3>1. t = "line"
      BY <1>2, <2>1, <2>3
    <3>2. Len(u) > 0 => u[1].t = "fields"
      <4>1. Len(w) > 1 => u[1] = w[2]
        BY <1>2
      <4>2. x + 1 = 1 /\ x + 2 = 2
        BY <2>3
      <4>3. Len(w) > 1 => w[2].t = "fields"
        BY <2>1, <3>1, <4>2
      <4> QED BY <1>2, <4>1, <4>3
    <3>3. Fine("line", u)
      BY <3>2 DEF Fine
    <3>4. HeadAfter(g, t) = "line"
      <4>1. g = "nothing" \/ g = "blank"
        BY <1>4 DEF Fine
      <4> QED BY <3>1, <4>1 DEF HeadAfter
    <3> QED BY <1>1, <3>1, <3>3, <3>4 DEF HeadEnds, Loose
  <2> QED BY <2>2, <2>3
<1> QED BY <1>3, <1>4

(* What is behind the core of an answer is scant: of a chunked one, the     *)
(* empty line.                                                              *)
Core(f, z) == IF f = "chunked" THEN 4 ELSE z

(* Behind the part of a script that must be read, what is left is Scant. *)
LEMMA BehindCore ==
    ASSUME NEW s \in Seq(PieceRecords), NEW t \in Seq(PieceRecords), NEW l, NEW a, NEW z, NEW k, NEW r, NEW d \in Int,
           ScriptIs(a, z, k, r), Stream(s, t, l, a, z, d), d >= Core(r.framing, z)
    PROVE  Scant(s \o t)
<1>1. PICK w \in Seq(PieceRecords) : w = s \o t
  BY Concatenated
<1>2. /\ Len(s) \in Nat /\ Len(t) \in Nat /\ Len(w) = Len(s) + Len(t) /\ \A i \in 1..Len(s) : w[i] = s[i]
      /\ \A i \in 1..Len(t) : w[Len(s) + i] = t[i]
  BY <1>1, Concatenated
<1>3. Lies(s, a, d) /\ Lies(t, a, d + Len(s)) /\ d + Len(s) + Len(t) <= Len(a)
  BY DEF Stream, Follow
<1>4. /\ z \in Nat /\ Len(a) \in Nat /\ z >= 2 /\ (z = Len(a) \/ (z = Len(a) - 1 /\ a[Len(a)].t = "eof"))
      /\ r.framing = "chunked" => z = 5 /\ a[5].t = "crlf"
  BY DEF ScriptIs
<1>5. d >= 2
  BY <1>4 DEF Core
<1>6. ASSUME NEW i \in 1..Len(w) PROVE w[i] = a[d + i] /\ d + i <= Len(a)
  <2>1. CASE i <= Len(s)
    <3>1. i \in 1..Len(s) /\ d + i >= 1
      BY <1>2, <1>5, <2>1
    <3> QED BY <1>2, <1>3, <3>1 DEF Lies
  <2>2. CASE i > Len(s)
    <3>1. PICK j \in 1..Len(t) : i = Len(s) + j
      <4>1. i - Len(s) \in 1..Len(t) /\ i = Len(s) + (i - Len(s))
        BY <1>2, <2>2
      <4> QED BY <4>1
    <3>2. (d + Len(s)) + j >= 1 /\ (d + Len(s)) + j = d + i
      BY <1>2, <1>5, <3>1
    <3>3. (d + Len(s)) + j <= Len(a) /\ t[j] = a[(d + Len(s)) + j]
      BY <1>3, <3>2 DEF Lies
    <3> QED BY <1>2, <3>1, <3>2, <3>3
  <2> QED BY <1>2, <2>1, <2>2
<1>7. CASE d >= z
  <2>1. Len(w) > 0 => w[1].t = "eof"
    <3> SUFFICES ASSUME Len(w) > 0 PROVE w[1].t = "eof"
      OBVIOUS
    <3>1. w[1] = a[d + 1] /\ d + 1 <= Len(a)
      BY <1>2, <1>6
    <3>2. d + 1 = Len(a) /\ z = Len(a) - 1
      BY <1>4, <1>7, <3>1
    <3>3. a[Len(a)].t = "eof"
      BY <1>4, <3>2
    <3> QED BY <3>1, <3>2, <3>3
  <2>2. Scant(w)
    <3>1. 0 \in 0..1 /\ 0 + 1 = 1
      OBVIOUS
    <3> QED BY <2>1, <3>1 DEF Scant
  <2> QED BY <1>1, <2>2
<1>8. CASE ~(d >= z)
  <2>1. r.framing = "chunked" /\ d = 4 /\ z = 5 /\ a[5].t = "crlf"
    BY <1>4, <1>8 DEF Core
  <2>2. Len(w) >= 1 => w[1].t = "crlf"
    BY <1>2, <1>6, <2>1
  <2>3. Len(w) > 1 => w[2].t = "eof"
    <3> SUFFICES ASSUME Len(w) > 1 PROVE w[2].t = "eof"
      OBVIOUS
    <3>1. w[2] = a[6] /\ 6 <= Len(a)
      BY <1>2, <1>6, <2>1
    <3>2. Len(a) = 6
      BY <1>4, <2>1, <3>1
    <3>3. a[6].t = "eof"
      BY <1>4, <2>1, <3>2
    <3> QED BY <3>1, <3>3
  <2>4. Scant(w)
    <3>1. CASE Len(w) >= 1
      <4>1. 1 \in 0..1 /\ 1 + 1 = 2
        OBVIOUS
      <4> QED BY <2>2, <2>3, <3>1, <4>1 DEF Scant
    <3>2. CASE ~(Len(w) >= 1)
      <4>1. 0 \in 0..1 /\ ~(Len(w) > 0)
        BY <1>2, <3>2
      <4> QED BY <4>1 DEF Scant
    <3> QED BY <3>1, <3>2
  <2> QED BY <1>1, <2>4
<1> QED BY <1>7, <1>8

-----------------------------------------------------------------------------
(* One of the first m calls has not read its response on connection c to    *)
(* the end.                                                                 *)
Spoils(j) == ending[j] = "abandoned" \/ reply[j].framing \in {"trailers", "interim"} \/ status[j] = "stray"
Spoilt(c, m) == \E j \in 1..m : used[j] = c /\ Spoils(j)

(* Connection c has been closed, and nothing is left on it. *)
Dead(c) == link[c] # "open" /\ socket[c] = << >> /\ todo[c] = << >>

(* All that call n still can read. *)
Flow == buf[n] \o (socket[used[n]] \o todo[used[n]])

(* A body of that kind that expects l has read to e. *)
Progress(kind, f, l, e) ==
    \/ kind = "Reader" /\ f = "large" /\ e >= 4 - l
    \/ kind = "Iter" /\ f = "chunked" /\ e >= 2 /\ (l = 0 => e >= 4)

(* What is left on the connection of call m is a part of its answer, who-   *)
(* ever else has read from the connection: the part behind what the body    *)
(* has read, or behind the core.                                            *)
LeftAt(m, e, d) ==
    /\ Ahead(m, d)
    /\ Streaming(m) =>
        /\ Lies(buf[m], Script(m), e) /\ e + Len(buf[m]) <= d
        /\ Progress(body[m], reply[m].framing, left[m], e)
    /\ ~Streaming(m) => d >= Core(reply[m].framing, Size(m))

Leaves(m) == \E e \in Int, d \in Int : LeftAt(m, e, d)

PoolLeft ==
    pool # 0 /\ ~Spoilt(pool, n) => Dead(pool) \/ \E m \in 1..n : used[m] = pool /\ Leaves(m)

CallLeft ==
    /\ pc = "write" /\ n \notin shared /\ ~Spoilt(used[n], n - 1) => Scant(Flow)
    /\ pc = "parse" /\ n \notin shared /\ ~Spoilt(used[n], n - 1) => Fine(got, Flow)
    /\ pc = "small" /\ ~Displaced(n) => reply[n].framing \in {"small", "head", "interim"}

FailInv ==
    /\ PoolLeft /\ CallLeft /\ FailsForAReason
    /\ \A k \in Calls : status[k] = "failed" => used[k] \in Conns
    /\ \A k \in Calls : status[k] = "stray" => Unclean(k)

(* A connection that is closed stays so. *)
LEMMA ClosedStays ==
    ASSUME ReuseInv, Closing, [Next]_vars, NEW c \in Conns, link[c] # "open"
    PROVE  link'[c] # "open"
<1>0. DOMAIN link = Conns /\ todo[c] = << >>
  BY DEF ReuseInv, TypeOK, Closing
<1>1. ASSUME NEW x \in Conns, ServerSend(x) \/ ServerClose(x) PROVE link'[c] # "open"
  <2>1. x # c
    BY <1>0, <1>1 DEF ServerSend, ServerClose
  <2> QED BY <1>0, <1>1, <2>1 DEF ServerSend, ServerClose
<1>2. WriteRequest => UNCHANGED link
  BY DEF WriteRequest
<1> QED BY <1>1, <1>2, StreamEffects DEF Empties, Fills

(* Nothing arrives on a connection that is closed. *)
LEMMA DeadStays ==
    ASSUME ReuseInv, Closing, [Next]_vars, NEW c \in Conns, Dead(c)
    PROVE  Dead(c)'
<1>0. DOMAIN socket = Conns /\ DOMAIN todo = Conns /\ link'[c] # "open"
  BY ClosedStays DEF ReuseInv, Sending, Dead
<1>1. ASSUME NEW x \in Conns, ServerSend(x) \/ ServerClose(x) PROVE Dead(c)'
  <2>1. x # c
    BY <1>1 DEF ServerSend, ServerClose, Dead
  <2> QED BY <1>0, <1>1, <2>1 DEF ServerSend, ServerClose, Dead
<1>2. CASE WriteRequest
  <2>1. todo'[c] = todo[c]
    BY <1>0, <1>2, WriteEffect DEF ReuseInv, Listening, Dead
  <2> QED BY <1>0, <1>2, <2>1 DEF WriteRequest, Dead
<1>3. CASE Empties
  BY <1>0, <1>3 DEF Empties, Dead
<1>4. ASSUME NEW k \in Calls, Fills(k) PROVE Dead(c)'
  BY <1>0, <1>4 DEF Fills, Dead
<1> QED BY <1>1, <1>2, <1>3, <1>4, StreamEffects

(* A response that was abandoned stays so. *)
LEMMA AbandonedStays ==
    ASSUME ReuseInv, Closing, Unread, [Next]_vars, NEW j \in Calls, ending[j] = "abandoned"
    PROVE  ending'[j] = "abandoned"
<1>1. status[j] = "ok" /\ ~Streaming(j)
  BY DEF Unread
<1> QED BY <1>1, EndingStays

(* What was spoilt is. *)
LEMMA SpoiltStays ==
    ASSUME ReuseInv, Closing, Unread, [Next]_vars, NEW c \in Conns, NEW m \in 0..n, m = n => ~WriteRequest,
           Spoilt(c, m)
    PROVE  Spoilt(c, m)'
<1>0. n \in Nat /\ MaxRequests \in Nat /\ n <= MaxRequests /\ Calls = 1..MaxRequests
  BY Basics DEF ReuseInv
<1> SUFFICES ASSUME NEW j \in 1..m, used[j] = c, Spoils(j) PROVE Spoilt(c, m)'
  BY DEF Spoilt
<1>1. j \in Calls /\ j \in 1..n /\ (j = n => m = n) /\ (j # n => j \in 1..(n - 1))
  BY <1>0
<1>2. used'[j] = c /\ (status[j] = "stray" => status'[j] = "stray")
  BY <1>1, Past
<1>3. reply'[j] = reply[j]
  <2>1. CASE j # n
    BY <1>1, <2>1, Past
  <2>2. CASE j = n
    BY <1>1, <2>2, CallEffects DEF ReuseInv, Untouched, Request, RequestRejected, Dropped, CutOff,
          ReadsHead, HasHead, Returned, Ends, serverVars
  <2> QED BY <2>1, <2>2
<1>4. ending[j] = "abandoned" => ending'[j] = "abandoned"
  BY <1>1, AbandonedStays
<1> QED BY <1>2, <1>3, <1>4 DEF Spoilt, Spoils

(* What call n can read stays as it is, or loses its end when the server    *)
(* closes the connection, when nobody else reads from it.                   *)
LEMMA FlowKept ==
    ASSUME ReuseInv, Closing, Sharing, [Next]_vars, ~WriteRequest, pc # "idle", n \notin shared,
           n' = n, used' = used, Fills(n) \/ buf'[n] = buf[n]
    PROVE  Flow \in Seq(PieceRecords) /\ Flow' \in Seq(PieceRecords) /\ Prefix(Flow', Flow)
<1>0. n \in Calls /\ used[n] \in Conns
  BY Basics DEF ReuseInv
<1>1. PICK c \in Conns : c = used[n]
  BY <1>0
<1>2. /\ DOMAIN socket = Conns /\ DOMAIN todo = Conns /\ DOMAIN link = Conns /\ DOMAIN buf = Calls
      /\ socket[c] \in Seq(PieceRecords) /\ todo[c] \in Seq(PieceRecords)
  BY Typed DEF ReuseInv, Sending, TypeOK
<1>3. Flow = buf[n] \o (socket[c] \o todo[c]) /\ Flow' = buf'[n] \o (socket'[c] \o todo'[c])
  BY <1>1 DEF Flow
<1>g. Flow \in Seq(PieceRecords)
  <2>1. PICK b \in Seq(PieceRecords), w \in Seq(PieceRecords) : b = buf[n] /\ w = socket[c] \o todo[c]
    BY <1>0, <1>2, Typed, Concatenated
  <2> QED BY <1>3, <2>1, Concatenated
<1>h. Flow' = Flow => Flow' \in Seq(PieceRecords) /\ Prefix(Flow', Flow)
  BY <1>g DEF Prefix
<1> SUFFICES Flow' = Flow \/ (Flow' \in Seq(PieceRecords) /\ Prefix(Flow', Flow))
  BY <1>g, <1>h
<1>i. ASSUME buf'[n] = buf[n], socket'[c] = socket[c], todo'[c] = << >>
      PROVE  Flow' \in Seq(PieceRecords) /\ Prefix(Flow', Flow)
  <2>1. PICK b \in Seq(PieceRecords), x \in Seq(PieceRecords), t \in Seq(PieceRecords) :
            b = buf[n] /\ x = socket[c] /\ t = todo[c]
    BY <1>0, <1>2, Typed
  <2>2. Flow' = b \o x /\ Flow = b \o (x \o t)
    <3>1. x \o << >> = x
      BY EmptyRight
    <3> QED BY <1>3, <1>i, <2>1, <3>1
  <2> QED BY <2>2, PrefixKept, Concatenated
<1>4. CASE Fills(n)
  <2>1. buf[n] = << >> /\ buf'[n] = socket[c] /\ socket'[c] = << >> /\ todo'[c] = todo[c]
    BY <1>0, <1>1, <1>2, <1>4 DEF Fills
  <2>2. PICK s \in Seq(PieceRecords), t \in Seq(PieceRecords) : s = socket[c] /\ t = todo[c]
    BY <1>2
  <2>3. << >> \o (s \o t) = s \o t /\ << >> \o t = t
    BY ConcatEmptySeq, Concatenated
  <2> QED BY <1>3, <2>1, <2>2, <2>3
<1>5. CASE ~Fills(n) /\ buf'[n] = buf[n]
  <2>1. ASSUME socket'[c] = socket[c], todo'[c] = todo[c] PROVE Flow' = Flow
    BY <1>3, <1>5, <2>1
  <2>2. CASE Empties
    BY <2>1, <2>2 DEF Empties
  <2>3. ASSUME NEW j \in Calls, Fills(j) PROVE Flow' = Flow
    <3>1. used[j] # c
      <4> SUFFICES ASSUME used[j] = c PROVE FALSE
        OBVIOUS
      <4>1. Taken(used[n])
        BY <1>1, <2>3 DEF Taken
      <4> QED BY <1>5, <4>1, OthersShare
    <3> QED BY <1>2, <2>1, <2>3, <3>1 DEF Fills
  <2>4. ASSUME NEW x \in Conns, x # c, ServerSend(x) \/ ServerClose(x) PROVE Flow' = Flow
    BY <1>2, <2>1, <2>4 DEF ServerSend, ServerClose
  <2>e. CASE ServerSend(c) /\ Head(todo[c]).t = "eof"
    <3>1. todo[c] # << >> /\ socket'[c] = socket[c] /\ todo'[c] = Tail(todo[c])
      BY <1>2, <2>e DEF ServerSend
    <3>2. Len(todo[c]) = 1
      <4>1. 1 \in 1..Len(todo[c]) /\ Head(todo[c]) = todo[c][1]
        BY <1>2, <3>1, NonEmpty
      <4> QED BY <2>e, <4>1 DEF Closing
    <3>3. todo'[c] = << >>
      <4>1. Tail(todo[c]) \in Seq(PieceRecords) /\ Len(Tail(todo[c])) = 0
        BY <1>2, <3>1, <3>2, NonEmpty
      <4> QED BY <3>1, <4>1, EmptyLen
    <3> QED BY <1>5, <1>i, <3>1, <3>3
  <2>5. CASE ServerSend(c) /\ Head(todo[c]).t # "eof"
    <3>1. todo[c] # << >> /\ Head(todo[c]).t # "eof"
      BY <2>5 DEF ServerSend
    <3>2. socket'[c] = Append(socket[c], Head(todo[c])) /\ todo'[c] = Tail(todo[c])
      BY <1>2, <2>5, <3>1 DEF ServerSend
    <3>3. socket'[c] \o todo'[c] = socket[c] \o todo[c]
      BY <1>2, <3>1, <3>2, HeadMoves
    <3> QED BY <1>3, <1>5, <3>3
  <2>6. CASE ServerClose(c)
    BY <1>2, <1>5, <1>i, <2>6 DEF ServerClose
  <2> QED BY <2>2, <2>3, <2>4, <2>e, <2>5, <2>6, StreamEffects
<1> QED BY <1>4, <1>5

(* A call that begins finds what is scant. *)
LEMMA RequestScant ==
    ASSUME ReuseInv, Closing, PoolLeft, Request, n' \notin shared', ~Spoilt(used[n], n - 1)'
    PROVE  Scant(Flow)'
<1>0. /\ n \in Nat /\ MaxRequests \in Nat /\ Calls = 1..MaxRequests /\ Conns = 1..MaxRequests
      /\ opened \in Nat /\ pool \in 0..MaxRequests /\ n <= MaxRequests
  BY Basics DEF ReuseInv, TypeOK
<1>1. PICK c \in Conns :
          /\ c = (IF pool # 0 THEN pool ELSE opened + 1)
          /\ used' = [used EXCEPT ![n + 1] = c] /\ n + 1 \in Calls /\ DOMAIN used = Calls
          /\ \A j \in Calls : Streaming(j) /\ used[j] = c => j \in shared' /\ n + 1 \in shared'
  BY RequestShares
<1>2. n' = n + 1 /\ pc = "idle" /\ UNCHANGED <<buf, ending, status, socket, todo, link, reply>>
  BY RequestShares DEF serverVars
<1>3. used'[n'] = c /\ n' - 1 = n /\ \A j \in 1..n : used'[j] = used[j]
  BY <1>0, <1>1, <1>2
<1>4. PICK s \in Seq(PieceRecords), t \in Seq(PieceRecords) : s = socket[c] /\ t = todo[c]
  BY Typed
<1>5. Flow' = s \o t
  <2>1. buf'[n'] = << >>
    <3>1. n + 1 > n
      BY <1>0
    <3> QED BY <1>1, <1>2, <3>1 DEF Closing
  <2>2. Flow' = << >> \o (s \o t)
    BY <1>2, <1>3, <1>4, <2>1 DEF Flow
  <2> QED BY <2>2, ConcatEmptySeq, Concatenated
<1>6. Scant(s \o t)
  <2>1. CASE pool # 0
    <3>1. c = pool
      BY <1>1, <2>1
    <3>2. ~Spoilt(c, n)
      BY <1>2, <1>3 DEF Spoilt, Spoils
    <3> SUFFICES ASSUME ~Dead(c) PROVE Scant(s \o t)
      BY <1>4, NothingScant DEF Dead
    <3>3. PICK m \in 1..n : used[m] = c /\ Leaves(m)
      BY <2>1, <3>1, <3>2 DEF PoolLeft
    <3>4. m \in Calls /\ ~Streaming(m)
      BY <1>0, <1>1, <1>2, <3>3
    <3>5. PICK e \in Int, d \in Int : LeftAt(m, e, d)
      BY <3>3 DEF Leaves
    <3>6. ScriptIs(Script(m), Size(m), m, reply[m])
      BY <3>4, Typed
    <3>7. Stream(s, t, link[c], Script(m), Size(m), d) /\ d >= Core(reply[m].framing, Size(m))
      BY <1>4, <3>3, <3>4, <3>5 DEF LeftAt, Ahead, Along
    <3> QED BY <3>6, <3>7, BehindCore
  <2>2. CASE pool = 0
    <3>1. s = << >> /\ t = << >>
      BY <1>0, <1>1, <1>4, <2>2 DEF Closing
    <3> QED BY <3>1, NothingScant
  <2> QED BY <2>1, <2>2
<1> QED BY <1>5, <1>6

(* The request is written: the server answers or not. *)
LEMMA WrittenFine ==
    ASSUME ReuseInv, Closing, Arrived, Unread, WriteRequest, Scant(Flow)
    PROVE  Fine(got, Flow)'
<1>0. /\ n \in Calls /\ used[n] \in Conns /\ DOMAIN todo = Conns /\ pc = "write" /\ got = "nothing" /\ buf[n] = << >>
      /\ UNCHANGED <<n, used, got, buf, socket>>
  BY Basics DEF WriteRequest, ReuseInv, Sending, Closing, Unread, bodyVars
<1>1. PICK c \in Conns : c = used[n]
  BY <1>0
<1>2. PICK s \in Seq(PieceRecords), t \in Seq(PieceRecords) : s = socket[c] /\ t = todo[c]
  BY Typed
<1>3. PICK w \in Seq(PieceRecords) : w = s \o t
  BY Concatenated
<1>4. Flow = w /\ Flow' = << >> \o (s \o todo'[c]) /\ got' = "nothing"
  <2>1. Flow = << >> \o w
    BY <1>0, <1>1, <1>2, <1>3 DEF Flow
  <2>2. << >> \o w = w
    BY ConcatEmptySeq
  <2> QED BY <1>0, <1>1, <1>2, <2>1, <2>2 DEF Flow
<1>5. CASE UNCHANGED <<reply, todo>>
  <2>1. Flow' = Flow
    BY <1>0, <1>5 DEF Flow
  <2> QED BY <1>4, <2>1, ScantFine
<1>6. ASSUME Listening(c), NEW r \in Replies, todo' = [todo EXCEPT ![used[n]] = @ \o Answer(n, r)]
      PROVE  Fine(got, Flow)'
  <2>1. r \in ReplyRecords
    BY ClientAssumption
  <2>2. ScriptIs(Answer(n, r), SizeOf(Answer(n, r), r), n, r)
    BY <1>0, <2>1, ScriptPieces
  <2>3. PICK a \in Seq(PieceRecords) : a = Answer(n, r)
    BY <2>2, ScriptSeq
  <2>4. Len(a) >= 2 /\ a[1].t = "line" /\ a[2].t = "fields"
    BY <2>2, <2>3 DEF ScriptIs
  <2>5. Flow' = w \o a
    <3>1. todo'[c] = t \o a /\ t \o a \in Seq(PieceRecords)
      BY <1>0, <1>1, <1>2, <1>6, <2>3, Concatenated
    <3>2. s \o (t \o a) = (s \o t) \o a /\ s \o (t \o a) \in Seq(PieceRecords)
      <4>1. (s \o t) \o a = s \o (t \o a)
        <5>1. PICK S : S = PieceRecords
          OBVIOUS
        <5>2. s \in Seq(S) /\ t \in Seq(S) /\ a \in Seq(S)
          BY <5>1
        <5> QED BY <5>2, ConcatAssociative, SMTT(30)
      <4>2. s \o (t \o a) \in Seq(PieceRecords)
        BY <3>1, Concatenated
      <4> QED BY <4>1, <4>2
    <3>3. << >> \o (s \o (t \o a)) = s \o (t \o a)
      BY <3>2, ConcatEmptySeq
    <3> QED BY <1>3, <1>4, <3>1, <3>2, <3>3
  <2>6. NoEof(w)
    <3>1. /\ Len(s) \in Nat /\ Len(t) \in Nat /\ Len(w) = Len(s) + Len(t) /\ \A i \in 1..Len(s) : w[i] = s[i]
          /\ \A i \in 1..Len(t) : w[Len(s) + i] = t[i]
      BY <1>3, Concatenated
    <3>2. /\ \A i \in 1..Len(s) : s[i].t # "eof"
          /\ \A i \in 1..Len(t) : t[i].t # "eof"
      BY <1>2, <1>6 DEF Arrived, Listening
    <3>3. ASSUME NEW i \in 1..Len(w) PROVE w[i].t # "eof"
      <4>1. CASE i <= Len(s)
        BY <3>1, <3>2, <4>1
      <4>2. CASE i > Len(s)
        <5>1. i - Len(s) \in 1..Len(t) /\ i = Len(s) + (i - Len(s))
          BY <3>1, <4>2
        <5> QED BY <3>1, <3>2, <5>1
      <4> QED BY <3>1, <4>1, <4>2
    <3> QED BY <3>3 DEF NoEof
  <2>7. Fine("nothing", w \o a)
    BY <1>4, <2>4, <2>6, ScantAnswered
  <2> QED BY <1>4, <2>5, <2>7
<1> QED BY <1>1, <1>5, <1>6, WriteEffect DEF ReuseInv

(* The first piece of a buffer, and the rest of it, in front of others. *)
LEMMA TailFlow ==
    ASSUME NEW b \in Seq(PieceRecords), b # << >>, NEW w \in Seq(PieceRecords)
    PROVE  /\ b \o w \in Seq(PieceRecords) /\ b \o w # << >> /\ (b \o w)[1] = Head(b) /\ Tail(b \o w) = Tail(b) \o w
<1>1. PICK u \in Seq(PieceRecords), v \in Seq(PieceRecords) : u = b \o w /\ v = Tail(b)
  BY Concatenated, NonEmpty
<1>2. /\ Len(b) \in Nat /\ Len(b) > 0 /\ Len(w) \in Nat /\ Len(u) = Len(b) + Len(w)
      /\ \A i \in 1..Len(b) : u[i] = b[i]
      /\ \A i \in 1..Len(w) : u[Len(b) + i] = w[i]
      /\ Head(b) = b[1] /\ Len(v) = Len(b) - 1 /\ \A i \in 1..(Len(b) - 1) : v[i] = b[i + 1]
  BY <1>1, Concatenated, NonEmpty
<1>3. u # << >> /\ u[1] = Head(b)
  <2>1. Len(u) # 0 /\ 1 \in 1..Len(b)
    BY <1>2
  <2> QED BY <1>2, <2>1
<1>4. PICK x \in Seq(PieceRecords), y \in Seq(PieceRecords) : x = Tail(u) /\ y = v \o w
  BY <1>1, <1>3, Concatenated, NonEmpty
<1>5. Len(x) = Len(u) - 1 /\ \A i \in 1..(Len(u) - 1) : x[i] = u[i + 1]
  BY <1>3, <1>4, NonEmpty
<1>6. /\ Len(y) = Len(v) + Len(w) /\ \A i \in 1..Len(v) : y[i] = v[i]
      /\ \A i \in 1..Len(w) : y[Len(v) + i] = w[i]
  BY <1>4, Concatenated
<1>7. Len(x) = Len(y)
  BY <1>2, <1>5, <1>6
<1>8. ASSUME NEW i \in 1..Len(x) PROVE x[i] = y[i]
  <2>1. x[i] = u[i + 1]
    BY <1>2, <1>5
  <2>2. CASE i <= Len(v)
    <3>1. i \in 1..Len(v) /\ i + 1 \in 1..Len(b) /\ i \in 1..(Len(b) - 1)
      BY <1>2, <2>2
    <3>2. u[i + 1] = b[i + 1] /\ v[i] = b[i + 1] /\ y[i] = v[i]
      BY <1>2, <1>6, <3>1
    <3> QED BY <2>1, <3>2
  <2>3. CASE i > Len(v)
    <3>1. PICK j \in 1..Len(w) : j = i - Len(v)
      <4>1. i - Len(v) \in 1..Len(w)
        BY <1>2, <1>5, <2>3
      <4> QED BY <4>1
    <3>2. i + 1 = Len(b) + j /\ i = Len(v) + j
      BY <1>2, <3>1
    <3>3. u[Len(b) + j] = w[j] /\ y[Len(v) + j] = w[j]
      BY <1>2, <1>6
    <3> QED BY <2>1, <3>2, <3>3
  <2> QED BY <1>2, <2>2, <2>3
<1>9. x = y
  BY <1>7, <1>8, SeqEqual
<1> QED BY <1>1, <1>3, <1>4, <1>9

(* A call that reads its head finds no error in it. *)
LEMMA ParsesFine ==
    ASSUME ReuseInv, Arrived, ParsePiece, Fine(got, Flow)
    PROVE  /\ Head(buf[n]).t \notin Loose
           /\ ~(HeadEnds(got, Head(buf[n]).t) /\ ~(got = "line" /\ Head(buf[n]).t = "fields"))
           /\ pc' = "parse" => Fine(got, Flow)'
<1>0. /\ n \in Calls /\ used[n] \in Conns /\ pc = "parse" /\ buf[n] # << >> /\ DOMAIN buf = Calls
      /\ UNCHANGED <<n, used, socket, todo>> /\ got \in {"nothing", "blank", "line", "junk"}
  BY Basics DEF ParsePiece, ReuseInv, Sending, TypeOK, serverVars
<1>1. PICK b \in Seq(PieceRecords) : b = buf[n]
  BY <1>0, Typed
<1>2. PICK w \in Seq(PieceRecords) : w = socket[used[n]] \o todo[used[n]]
  BY <1>0, Typed, Concatenated
<1>3. PICK u \in Seq(PieceRecords) : u = b \o w
  BY Concatenated
<1>4. Flow = u
  BY <1>1, <1>2, <1>3 DEF Flow
<1>5. u # << >> /\ u[1] = Head(b) /\ Tail(u) = Tail(b) \o w
  BY <1>0, <1>1, <1>3, TailFlow
<1>6. PICK t : t = Head(b).t
  OBVIOUS
<1>7. t # "eof"
  <2>1. 1 \in 1..Len(b) /\ Head(b) = b[1]
    BY <1>0, <1>1, NonEmpty
  <2> QED BY <1>0, <1>1, <1>6, <2>1 DEF Arrived
<1>8. /\ t \notin Loose
      /\ HeadEnds(got, t) => got = "line" /\ t = "fields"
      /\ ~HeadEnds(got, t) => Fine(HeadAfter(got, t), Tail(u))
  BY <1>0, <1>4, <1>5, <1>6, <1>7, FineHead
<1>9. ASSUME pc' = "parse" PROVE Fine(got, Flow)'
  <2>1. ~HeadEnds(got, t) /\ Consume(n) /\ got' = HeadAfter(got, t)
    BY <1>1, <1>6, <1>8, <1>9 DEF ParsePiece, ParseLoose, NextPiece, Fail, Return
  <2>2. buf'[n] = Tail(b)
    BY <1>0, <1>1, <2>1 DEF Consume
  <2>3. Flow' = Tail(u)
    BY <1>0, <1>2, <1>5, <2>2 DEF Flow
  <2> QED BY <1>8, <2>1, <2>3
<1> QED BY <1>1, <1>6, <1>8, <1>9

(* A small response was announced as such. *)
LEMMA SmallAnnounced ==
    ASSUME ReuseInv, OnCall, [Next]_vars, pc = "parse", pc' = "small", ~Displaced(n)
    PROVE  reply'[n'].framing \in {"small", "head", "interim"}
<1>1. ParsePiece
  BY BufferStays
<1>2. /\ buf[n] # << >> /\ UNCHANGED <<n, reply>> /\ got = "line" /\ Head(buf[n]).t = "fields" /\ Head(buf[n]).f = "small"
  BY <1>1, ParseGoes
<1>3. PICK a \in Seq(PieceRecords), z \in Int, e \in Int, d \in Int, b \in Seq(PieceRecords), m \in Nat :
          b = buf[n] /\ m = Len(b) /\ InPlace(b, m, used[n], a, z, e, d)
  BY PlaceFacts
<1>4. ScriptIs(a, z, n, reply[n]) /\ Lies(b, a, e) /\ e >= 1
  BY <1>2, <1>3 DEF InPlace
<1>5. e + 1 \in 1..Len(a) /\ a[e + 1].t = "fields" /\ a[e + 1].f = "small"
  BY <1>2, <1>3, <1>4, LiesFirst
<1>6. CASE reply[n].framing # "interim"
  <2>1. \A i \in 1..Len(a) : i >= 3 => a[i].t \notin {"line", "fields"}
    BY <1>4, <1>6 DEF ScriptIs
  <2>2. e + 1 = 2
    BY <1>4, <1>5, <2>1
  <2>3. a[2].f = "small"
    BY <1>5, <2>2
  <2>4. reply[n].framing \in {"small", "head"}
    BY <1>4, <1>6, <2>3 DEF ScriptIs
  <2> QED BY <1>2, <2>4
<1> QED BY <1>2, <1>6

(* What the call under way finds: CallLeft is preserved. *)
LEMMA CallLeftStep ==
    ReuseInv /\ OwnInv /\ OwnInv' /\ BodyInv /\ FailInv /\ [Next]_vars => CallLeft'
<1> SUFFICES ASSUME ReuseInv, OwnInv, OwnInv', BodyInv, FailInv, [Next]_vars PROVE CallLeft'
  OBVIOUS
<1>0. /\ Closing /\ Closing' /\ Arrived /\ Sharing /\ Unread /\ OnCall /\ PoolLeft /\ CallLeft
      /\ n \in Nat /\ Calls = 1..MaxRequests /\ MaxRequests \in Nat
      /\ pc # "idle" => n \in Calls /\ used[n] \in Conns
      /\ DOMAIN buf = Calls
  BY Basics DEF OwnInv, BodyInv, FailInv, ReuseInv, Sending
<1>1. ASSUME ~Request, pc' # "idle"
      PROVE  /\ n' = n /\ used' = used /\ shared' = shared /\ n \in 1..n /\ n - 1 \in 0..n /\ n - 1 # n
             /\ pc # "idle" /\ (Displaced(n)' <=> Displaced(n))
             /\ Spoilt(used[n], n - 1) => Spoilt(used[n], n - 1)'
  <2>1. n' = n /\ pc # "idle" /\ UNCHANGED <<used, shared>>
    BY <1>1, BodyEffects
  <2>2. n \in 1..n /\ n - 1 \in 0..n /\ n - 1 # n
    BY <1>0, <2>1
  <2>3. PICK c \in Conns, m \in 0..n : c = used[n] /\ m = n - 1
    BY <1>0, <2>1, <2>2
  <2>4. Spoilt(c, m) => Spoilt(c, m)'
    BY <1>0, <2>2, <2>3, SpoiltStays
  <2>5. Spoilt(used[n], n - 1) => Spoilt(used[n], n - 1)'
    BY <2>1, <2>3, <2>4 DEF Spoilt, Spoils
  <2> QED BY <2>1, <2>2, <2>5, Past
<1>2. ASSUME pc' = "write", n' \notin shared', ~Spoilt(used[n], n - 1)' PROVE Scant(Flow)'
  <2>1. CASE Request
    BY <1>0, <1>2, <2>1, RequestScant
  <2>2. CASE ~Request
    <3>1. pc = "write" /\ ~WriteRequest
      BY <1>2, <2>2, CallEffects DEF ReuseInv, Untouched, RequestRejected, WriteRequest, Dropped, CutOff,
          ReadsHead, HasHead, Returned, Ends
    <3>2. buf[n] = << >> /\ buf'[n] = << >>
      BY <1>0, <1>1, <1>2, <2>2, <3>1 DEF Closing
    <3>3. Flow \in Seq(PieceRecords) /\ Flow' \in Seq(PieceRecords) /\ Prefix(Flow', Flow)
      BY <1>0, <1>1, <1>2, <2>2, <3>1, <3>2, FlowKept
    <3>4. Scant(Flow)
      BY <1>0, <1>1, <1>2, <2>2, <3>1 DEF CallLeft
    <3>5. Scant(Flow')
      BY <3>3, <3>4, ScantPrefix
    <3> QED BY <3>5 DEF Scant
  <2> QED BY <2>1, <2>2
<1>3. ASSUME pc' = "parse", n' \notin shared', ~Spoilt(used[n], n - 1)' PROVE Fine(got, Flow)'
  <2>0. ~Request
    BY <1>3 DEF Request
  <2>1. CASE WriteRequest
    <3>1. Scant(Flow)
      BY <1>0, <1>1, <1>3, <2>0, <2>1 DEF CallLeft, WriteRequest
    <3> QED BY <1>0, <2>1, <3>1, WrittenFine
  <2>2. CASE ~WriteRequest
    <3>1. pc = "parse"
      BY <1>3, <2>2, CallEffects DEF ReuseInv, Untouched, Request, RequestRejected, Dropped, CutOff,
          ReadsHead, HasHead, Returned, Ends
    <3>2. Fine(got, Flow)
      BY <1>0, <1>1, <1>3, <2>0, <3>1 DEF CallLeft
    <3>3. CASE ParsePiece
      BY <1>0, <1>3, <3>2, <3>3, ParsesFine
    <3>4. CASE ~ParsePiece
      <4>1. got' = got /\ (Fills(n) \/ buf'[n] = buf[n])
        BY <1>3, <3>1, <3>4, BufferStays
      <4>2. Flow \in Seq(PieceRecords) /\ Flow' \in Seq(PieceRecords) /\ Prefix(Flow', Flow)
        BY <1>0, <1>1, <1>3, <2>0, <2>2, <3>1, <4>1, FlowKept
      <4>3. Fine(got, Flow')
        BY <3>2, <4>2, FinePrefix
      <4> QED BY <4>1, <4>3 DEF Fine
    <3> QED BY <3>3, <3>4
  <2> QED BY <2>1, <2>2
<1>4. ASSUME pc' = "small", ~Displaced(n)' PROVE reply'[n'].framing \in {"small", "head", "interim"}
  <2>0. ~Request /\ ~WriteRequest
    BY <1>4 DEF Request, WriteRequest
  <2>1. ~Displaced(n) /\ n' = n /\ pc \in {"parse", "small"}
    <3>1. pc \in {"parse", "small"}
      BY <1>4, <2>0, CallEffects DEF ReuseInv, Untouched, RequestRejected, Dropped, CutOff,
          ReadsHead, HasHead, Returned, Ends
    <3> QED BY <1>1, <1>4, <2>0, <3>1
  <2>2. CASE pc = "parse"
    BY <1>0, <1>4, <2>1, <2>2, SmallAnnounced
  <2>3. CASE pc = "small"
    <3>1. ~ParsePiece
      BY <2>3 DEF ParsePiece
    <3>2. UNCHANGED reply
      BY <1>4, <2>3, <3>1, BufferStays
    <3> QED BY <1>0, <2>1, <2>3, <3>2 DEF CallLeft
  <2> QED BY <2>1, <2>2, <2>3
<1> QED BY <1>2, <1>3, <1>4 DEF CallLeft

(* What is left of the answer of call m, as a body reads it. *)
LEMMA LeavesStep ==
    ASSUME ReuseInv, Closing, Unread, [Next]_vars, ~WriteRequest, NEW m \in Calls, used[m] \in Conns,
           status[m] # "none", Leaves(m), ending'[m] # "abandoned"
    PROVE  Leaves(m)' \/ Dead(used[m])'
<1>1. PICK c \in Conns, a \in Seq(PieceRecords), z \in Int :
          c = used[m] /\ a = Script(m) /\ z = Size(m) /\ ScriptIs(a, z, m, reply[m])
  BY Typed, ScriptSeq
<1>2. used'[m] = c /\ Script(m)' = a /\ Size(m)' = z /\ reply'[m] = reply[m]
  BY <1>1, CallStays DEF Script, Size
<1>3. PICK e \in Int, d \in Int : LeftAt(m, e, d)
  BY DEF Leaves
<1>4. PICK b \in Seq(PieceRecords), y \in Nat : b = buf[m] /\ y = Len(b)
  BY Typed
<1>5. /\ Along(c, a, z, d)
      /\ Streaming(m) => Lies(b, a, e) /\ e + y <= d /\ Progress(body[m], reply[m].framing, left[m], e)
      /\ ~Streaming(m) => d >= Core(reply[m].framing, z)
  BY <1>1, <1>3, <1>4 DEF LeftAt, Ahead
<1>6. PICK g \in Int : d <= g /\ Along(c, a, z, g)' /\ (Fills(m) => Lies(buf'[m], a, d) /\ g = d + Len(buf'[m]))
                       /\ (Fills(m) => b = << >>)
  <2>1. CASE Fills(m)
    <3>1. PICK x \in Nat : x = Len(socket[c]) /\ Along(c, a, z, d + x)'
      BY <1>1, <1>5, <2>1, AlongTaken
    <3>2. Lies(socket[c], a, d) /\ buf'[m] = socket[c] /\ b = << >>
      BY <1>1, <1>4, <1>5, <2>1, AlongTaken
    <3>3. d + x \in Int /\ d <= d + x /\ Lies(buf'[m], a, d) /\ d + x = d + Len(buf'[m])
      BY <3>1, <3>2
    <3> QED BY <3>1, <3>2, <3>3
  <2>2. CASE ~Fills(m) /\ Taken(c)
    <3>1. PICK j \in Calls : Fills(j) /\ used[j] = c
      BY <2>2 DEF Taken
    <3>2. PICK x \in Nat : Along(c, a, z, d + x)'
      BY <1>5, <3>1, AlongTaken
    <3>3. d + x \in Int /\ d <= d + x
      OBVIOUS
    <3> QED BY <2>2, <3>2, <3>3
  <2>3. CASE ~Fills(m) /\ ~Taken(c)
    <3>1. Along(c, a, z, d)'
      BY <1>1, <1>5, <2>3, ScriptSeq, AlongKept
    <3>2. d <= d
      OBVIOUS
    <3> QED BY <2>3, <3>1, <3>2
  <2> QED BY <2>1, <2>2, <2>3
<1>7. ASSUME NEW f \in Int,
             Streaming(m)' => /\ Lies(buf'[m], a, f) /\ f + Len(buf'[m]) <= g
                              /\ Progress(body'[m], reply[m].framing, left'[m], f),
             ~Streaming(m)' => g >= Core(reply[m].framing, z)
      PROVE  Leaves(m)'
  <2>1. Ahead(m, g)'
    BY <1>2, <1>6 DEF Ahead
  <2>2. LeftAt(m, f, g)'
    BY <1>2, <1>7, <2>1 DEF LeftAt
  <2> QED BY <2>2 DEF Leaves
<1>8. Core(reply[m].framing, z) \in Int
  BY DEF Core
<1>9. CASE ~Streaming(m)
  <2>1. ~Streaming(m)'
    <3> SUFFICES ASSUME Streaming(m)' PROVE FALSE
      OBVIOUS
    <3>1. m = n /\ pc = "parse"
      BY <1>9, StreamingBegins DEF Begins
    <3> QED BY <3>1 DEF ReuseInv, Calling
  <2>2. g >= Core(reply[m].framing, z)
    BY <1>5, <1>6, <1>8, <1>9
  <2> QED BY <1>7, <2>1, <2>2
<1>10. CASE Streaming(m)
  <2>0. Lies(b, a, e) /\ e + y <= d /\ Progress(body[m], reply[m].framing, left[m], e)
    BY <1>5, <1>10
  <2>l. left[m] \in 0..2
    BY DEF ReuseInv, TypeOK
  <2>1. CASE Streaming(m)' /\ ~BodyPiece(m)
    <3>1. ~IntoUpgraded(m)
      BY <2>0 DEF Progress, IntoUpgraded
    <3>2. body'[m] = body[m] /\ left'[m] = left[m] /\ (Fills(m) \/ buf'[m] = buf[m])
      BY <1>10, <2>1, <3>1, BodyStays
    <3>3. CASE Fills(m)
      <4>1. Lies(buf'[m], a, d) /\ d + Len(buf'[m]) <= g /\ y = 0
        BY <1>4, <1>6, <3>3
      <4>2. Progress(body[m], reply[m].framing, left[m], d)
        <5>1. e <= d
          BY <2>0, <4>1
        <5> QED BY <2>0, <2>l, <5>1 DEF Progress
      <4> QED BY <1>7, <2>1, <3>2, <4>1, <4>2
    <3>4. CASE buf'[m] = buf[m]
      <4>1. e + Len(buf'[m]) <= g
        BY <1>4, <1>6, <2>0, <3>4
      <4> QED BY <1>4, <1>7, <2>0, <2>1, <3>2, <3>4, <4>1
    <3> QED BY <3>2, <3>3, <3>4
  <2>2. CASE Streaming(m)' /\ BodyPiece(m)
    <3>0. DOMAIN buf = Calls /\ DOMAIN left = Calls
      BY DEF ReuseInv, Sending, TypeOK
    <3>1. /\ b # << >> /\ buf'[m] = Tail(b) /\ body'[m] = body[m] /\ left[m] > 0
          /\ left'[m] = IF body[m] = "Reader" THEN left[m] - 1
                        ELSE IF body[m] \in {"Rest", "Upgraded"} \/ Head(b).t = "chunk" THEN left[m] ELSE 0
      BY <1>4, <2>2, <3>0 DEF BodyPiece, Consume, NextPiece
    <3>2. Lies(Tail(b), a, e + 1) /\ Len(Tail(b)) = y - 1 /\ (e + 1) + (y - 1) <= g /\ e + 1 \in Int
      BY <1>4, <1>6, <2>0, <3>1, LiesTail, NonEmpty
    <3>3. CASE body[m] = "Reader"
      <4>1. left'[m] = left[m] - 1 /\ reply[m].framing = "large" /\ e >= 4 - left[m]
        BY <2>0, <3>1, <3>3 DEF Progress
      <4>2. e + 1 >= 4 - left'[m]
        BY <2>l, <4>1
      <4>3. Progress(body'[m], reply[m].framing, left'[m], e + 1)
        BY <3>1, <3>3, <4>1, <4>2 DEF Progress
      <4> QED BY <1>7, <2>2, <3>1, <3>2, <4>3
    <3>4. CASE body[m] # "Reader"
      <4>1. body[m] = "Iter" /\ reply[m].framing = "chunked" /\ e >= 2
        BY <2>0, <3>4 DEF Progress
      <4>2. Head(b) = a[e + 1] /\ e + 1 <= Len(a)
        BY <2>0, <3>1, <4>1, LiesTail
      <4>3. left'[m] = 0 => e + 1 >= 4
        <5> SUFFICES ASSUME e = 2 PROVE left'[m] # 0
          BY <4>1
        <5>1. a[3].t = "chunk"
          BY <1>1, <4>1 DEF ScriptIs
        <5>2. Head(b).t = "chunk"
          BY <4>2, <5>1
        <5> QED BY <2>l, <3>1, <4>1, <5>2
      <4>4. Progress(body'[m], reply[m].framing, left'[m], e + 1)
        <5>1. e + 1 >= 2
          BY <4>1
        <5> QED BY <3>1, <4>1, <4>3, <5>1 DEF Progress
      <4> QED BY <1>7, <2>2, <3>1, <3>2, <4>4
    <3> QED BY <3>3, <3>4
  <2>3. CASE ~Streaming(m)'
    <3>1. BodyDone(m)
      <4>1. BodyDone(m) \/ BodyAbandoned(m)
        BY <1>10, <2>3, DoneOrAbandoned
      <4>2. DOMAIN ending = Calls
        BY DEF ReuseInv, TypeOK
      <4> QED BY <4>1, <4>2 DEF BodyAbandoned, LetGo
    <3>e. CASE EndOfStream(m)
      <4>1. socket[c] = << >> /\ link[c] # "open" /\ todo[c] = << >>
        BY <1>1, <3>e DEF EndOfStream, Closing
      <4>2. Dead(c)'
        BY <4>1, DeadStays DEF Dead
      <4> QED BY <1>1, <1>2, <4>2 DEF Dead
    <3> SUFFICES ASSUME ~EndOfStream(m) PROVE Leaves(m)'
      BY <3>e
    <3>2. left[m] = 0
      BY <3>1 DEF BodyDone
    <3>3. e >= 4
      BY <2>0, <3>2 DEF Progress
    <3>4. g >= 4
      BY <1>6, <2>0, <3>3
    <3>5. Core(reply[m].framing, z) = 4
      BY <1>1, <2>0 DEF Core, Progress, ScriptIs
    <3> QED BY <1>7, <2>3, <3>4, <3>5
  <2> QED BY <2>1, <2>2, <2>3
<1> QED BY <1>9, <1>10

(* A call that returns a response leaves the rest of its answer. *)
LEMMA ReturnLeaves ==
    ASSUME ReuseInv, OwnInv, OnCall, CallLeft, [Next]_vars, ParsePiece \/ BufferBody, pool = 0, pool' # 0, ~Displaced(n),
           reply[n].framing \notin {"trailers", "interim"}, status'[n] # "stray"
    PROVE  Leaves(n)'
<1>0. /\ pc \in {"parse", "small"} /\ n \in Calls /\ used[n] \in Conns
      /\ UNCHANGED <<n, used, reply, socket, todo, link>>
      /\ DOMAIN buf = Calls /\ DOMAIN body = Calls /\ DOMAIN left = Calls
      /\ reply[n] \in Replies \cup {NoReply}
  BY Basics DEF ReuseInv, Sending, TypeOK, ParsePiece, BufferBody, serverVars
<1>1. PICK a \in Seq(PieceRecords), z \in Int, e \in Int, d \in Int, b \in Seq(PieceRecords), m \in Nat :
          a = Script(n) /\ z = Size(n) /\ b = buf[n] /\ m = Len(b) /\ InPlace(b, m, used[n], a, z, e, d)
  BY <1>0, PlaceFacts
<1>2. /\ ScriptIs(a, z, n, reply[n]) /\ Lies(b, a, e) /\ e + m <= d /\ Along(used[n], a, z, d)
      /\ pc = "parse" /\ got = "line" => e >= 1
      /\ pc = "small" => e >= 2
  BY <1>1 DEF InPlace
<1>3. ASSUME NEW f \in Int,
             Streaming(n)' => /\ Lies(buf'[n], a, f) /\ f + Len(buf'[n]) <= d
                              /\ Progress(body'[n], reply[n].framing, left'[n], f),
             ~Streaming(n)' => d >= Core(reply[n].framing, z)
      PROVE  Leaves(n)'
  <2>1. Along(used[n], a, z, d)' /\ Script(n)' = a /\ Size(n)' = z
    BY <1>0, <1>1, <1>2 DEF Along, Script, Size
  <2>2. Ahead(n, d)'
    BY <1>0, <2>1 DEF Ahead
  <2>3. LeftAt(n, f, d)'
    BY <1>0, <1>3, <2>1, <2>2 DEF LeftAt, Streaming
  <2> QED BY <2>3 DEF Leaves
<1>4. b # << >> /\ m >= 1
  <2>1. b # << >>
    BY <1>1 DEF ParsePiece, BufferBody
  <2> QED BY <1>1, <1>2, <2>1, LiesFirst
<1>5. CASE BufferBody
  <2>1. pc = "small" /\ body' = [body EXCEPT ![n] = BodyKind(reply[answer[n]].conn, "small")]
    BY <1>5 DEF BufferBody, Return
  <2>2. BodyKind(reply[answer[n]].conn, "small") = "none"
    BY DEF BodyKind, Outcome
  <2>3. ~Streaming(n)'
    BY <1>0, <2>1, <2>2 DEF Streaming
  <2>4. reply[n].framing \in {"small", "head"}
    BY <2>1 DEF CallLeft
  <2>5. z <= 3 /\ Core(reply[n].framing, z) = z
    BY <1>2, <2>4 DEF ScriptIs, Core
  <2>6. d >= 3
    BY <1>2, <1>4, <2>1
  <2> QED BY <1>3, <2>3, <2>5, <2>6
<1>6. CASE ParsePiece
  <2>1. pc = "parse" /\ got = "line" /\ Head(b).t = "fields" /\ Head(b).f # "small" /\ Return(Head(b).k, Head(b).f)
    <3>1. ~(ParseLoose(Head(b).t) \/ Fail)
      BY <1>0 DEF ParseLoose, Fail, ReuseInv, TypeOK
    <3> QED BY <1>1, <1>6, <3>1 DEF ParsePiece, NextPiece
  <2>2. e >= 1 /\ e + 1 \in 1..Len(a) /\ Head(b) = a[e + 1]
    BY <1>2, <1>4, <2>1, LiesFirst
  <2>3. e = 1
    <3>1. \A i \in 1..Len(a) : i >= 3 => a[i].t \notin {"line", "fields"}
      BY <1>2 DEF ScriptIs
    <3> QED BY <2>1, <2>2, <3>1
  <2>4. Head(b) = a[2] /\ a[2].k = n
    <3>1. e + 1 = 2 /\ 2 \in 1..Len(a)
      BY <2>2, <2>3
    <3> QED BY <1>2, <2>2, <3>1 DEF ScriptIs
  <2>5. PICK f : f = a[2].f
    OBVIOUS
  <2>6. /\ f = CASE reply[n].framing = "head" -> "small" [] OTHER -> reply[n].framing
        /\ f # "small"
    BY <1>2, <2>1, <2>4, <2>5 DEF ScriptIs
  <2>7. f = reply[n].framing
    BY <2>6
  <2>8. Outcome(reply[n].conn, f) = "KeepAlive" /\ Return(n, f)
    BY <2>1, <2>4, <2>5 DEF Return
  <2>9. PICK kind : kind = BodyKind(reply[n].conn, f)
    OBVIOUS
  <2>10. /\ body'[n] = kind /\ left'[n] = (IF kind = "Reader" THEN 2 ELSE 1)
         /\ buf'[n] = IF kind \in {"none", "Extension"} THEN << >> ELSE Tail(b)
    BY <1>0, <1>1, <2>8, <2>9 DEF Return
  <2>11. f \notin {"switching", "close", "trailers", "interim", "small"}
    <3>1. reply[n].conn # "close" /\ f # "switching"
      BY <2>8 DEF Outcome
    <3>2. f # "close"
      BY <1>0, <2>7, <3>1, ClientAssumption DEF NoReply
    <3> QED BY <2>6, <2>7, <3>1, <3>2
  <2>12. d >= 2
    BY <1>2, <1>4, <2>3
  <2>13. Lies(Tail(b), a, 2) /\ Len(Tail(b)) = m - 1 /\ 2 + (m - 1) <= d
    <3>1. Lies(Tail(b), a, e + 1) /\ e + 1 = 2
      BY <1>2, <1>4, <2>3, LiesTail
    <3>2. Len(Tail(b)) = m - 1
      BY <1>1, <1>4, NonEmpty
    <3>3. 2 + (m - 1) <= d
      BY <1>2, <2>3
    <3> QED BY <3>1, <3>2, <3>3
  <2>14. CASE f = "large"
    <3>1. kind = "Reader"
      BY <2>9, <2>14 DEF BodyKind, Outcome
    <3>2. Progress("Reader", "large", 2, 2)
      BY DEF Progress
    <3>3. Streaming(n)' /\ buf'[n] = Tail(b) /\ body'[n] = "Reader" /\ left'[n] = 2
      BY <1>0, <2>10, <3>1 DEF Streaming
    <3> QED BY <1>3, <2>7, <2>13, <2>14, <3>2, <3>3
  <2>15. CASE f = "chunked"
    <3>1. kind = "Iter"
      BY <2>9, <2>15 DEF BodyKind, Outcome
    <3>2. Progress("Iter", "chunked", 1, 2)
      BY DEF Progress
    <3>3. Streaming(n)' /\ buf'[n] = Tail(b) /\ body'[n] = "Iter" /\ left'[n] = 1
      BY <1>0, <2>10, <3>1 DEF Streaming
    <3> QED BY <1>3, <2>7, <2>13, <2>15, <3>2, <3>3
  <2>16. CASE f \notin {"large", "chunked"}
    <3>1. kind = "none"
      BY <2>8, <2>9, <2>11, <2>16 DEF BodyKind
    <3>2. ~Streaming(n)'
      BY <1>0, <2>10, <3>1 DEF Streaming
    <3>3. f \in {"empty", "head"}
      <4>1. reply[n].framing \in Framings
        BY <1>0, ClientAssumption DEF NoReply, ReplyRecords, Framings
      <4> QED BY <2>7, <2>11, <2>16, <4>1 DEF Framings
    <3>4. z = 2 /\ Core(reply[n].framing, z) = 2
      BY <1>2, <2>7, <3>3 DEF ScriptIs, Core
    <3> QED BY <1>3, <2>12, <3>2, <3>4
  <2> QED BY <2>14, <2>15, <2>16
<1> QED BY <1>5, <1>6

(* What is left on a connection in the pool: PoolLeft is preserved. *)
LEMMA PoolLeftStep ==
    ReuseInv /\ OwnInv /\ BodyInv /\ FailInv /\ [Next]_vars => PoolLeft'
<1> SUFFICES ASSUME ReuseInv, OwnInv, BodyInv, FailInv, [Next]_vars, pool' # 0, ~Spoilt(pool, n)'
             PROVE  Dead(pool)' \/ \E m \in 1..n' : used'[m] = pool' /\ Leaves(m)'
  BY DEF PoolLeft
<1>0. /\ Closing /\ Unread /\ OnCall /\ PoolLeft /\ CallLeft
      /\ n \in Nat /\ MaxRequests \in Nat /\ n <= MaxRequests /\ Calls = 1..MaxRequests /\ Conns = 1..MaxRequests
      /\ pc # "idle" => n \in Calls /\ used[n] \in Conns /\ pool = 0
      /\ pool \in 0..MaxRequests /\ pc \in {"idle", "write", "parse", "small"}
  BY Basics DEF ReuseInv, TypeOK, Calling, OwnInv, BodyInv, FailInv
<1>1. CASE pc = "idle"
  <2>1. ~WriteRequest /\ pool' = pool /\ UNCHANGED <<used, reply>> /\ n' \in {n, n + 1}
    <3>1. ~Request
      BY RequestEffect DEF ReuseInv
    <3> QED
      BY <1>1, <3>1, CallEffects DEF ReuseInv, Untouched, RequestRejected, WriteRequest, Dropped, CutOff,
          ReadsHead, HasHead, Returned, Ends, serverVars
  <2>2. PICK c \in Conns : c = pool /\ c = pool'
    BY <1>0, <2>1
  <2>3. ~Spoilt(c, n)
    <3> SUFFICES ASSUME Spoilt(c, n) PROVE FALSE
      OBVIOUS
    <3>1. PICK x \in 0..n : x = n
      BY <1>0
    <3>2. Spoilt(c, x)'
      BY <1>0, <2>1, <3>1, SpoiltStays
    <3>3. \A j \in 1..x : j \in 1..n'
      BY <1>0, <2>1, <3>1
    <3> QED BY <2>2, <3>2, <3>3 DEF Spoilt, Spoils
  <2>d. CASE Dead(c)
    <3>1. Dead(c)'
      BY <1>0, <2>d, DeadStays
    <3> QED BY <2>2, <3>1 DEF Dead
  <2> SUFFICES ASSUME ~Dead(c) PROVE Dead(pool)' \/ \E m \in 1..n' : used'[m] = pool' /\ Leaves(m)'
    BY <2>d
  <2>4. PICK m \in 1..n : used[m] = c /\ Leaves(m)
    BY <1>0, <2>1, <2>2, <2>3 DEF PoolLeft
  <2>5. m \in Calls /\ m \in 1..n' /\ used'[m] = c
    BY <1>0, <2>1, <2>4
  <2>6. status[m] # "none"
    BY <2>1, <2>2, <2>4, <2>5 DEF ReuseInv, Pooled, Reusable
  <2>7. ending'[m] # "abandoned"
    BY <2>2, <2>5 DEF Spoilt, Spoils
  <2>8. Leaves(m)' \/ Dead(c)'
    BY <1>0, <2>1, <2>4, <2>5, <2>6, <2>7, LeavesStep
  <2> QED BY <2>2, <2>5, <2>8 DEF Dead
<1>2. CASE pc # "idle"
  <2>1. pool' = used[n] /\ UNCHANGED <<used, n, reply>>
    BY <1>0, <1>2, CallEffects DEF ReuseInv, Untouched, Request, RequestRejected, WriteRequest, Dropped, CutOff,
          ReadsHead, HasHead, Returned, Ends, TypeOK
  <2>2. n \in 1..n /\ n \in 1..n' /\ n' = n /\ \A j \in 1..(n - 1) : j \in 1..n
    BY <1>0, <1>2, <2>1
  <2>3. ~Displaced(n) /\ reply[n].framing \notin {"trailers", "interim"} /\ status'[n] # "stray"
    <3>1. \A j \in 1..n : used[j] = used[n] => reply[j].framing \notin {"trailers", "interim"} /\ status'[j] # "stray"
      BY <2>1, <2>2 DEF Spoilt, Spoils
    <3>2. \A j \in 1..(n - 1) : status'[j] = status[j]
      BY Past
    <3> QED BY <2>2, <3>1, <3>2 DEF Displaced
  <2>d. CASE ParseEof
    <3>1. Dead(used[n])'
      BY <1>0, <1>2, <2>d DEF ParseEof, EndOfStream, serverVars, Closing, Dead
    <3> QED BY <2>1, <3>1 DEF Dead
  <2> SUFFICES ASSUME ~ParseEof PROVE Dead(pool)' \/ \E m \in 1..n' : used'[m] = pool' /\ Leaves(m)'
    BY <2>d
  <2>4. ParsePiece \/ BufferBody
    <3>1. ~(Idle \/ UNCHANGED vars \/ WriteInvalid \/ WriteFails)
      BY <1>0, <1>2 DEF Idle, vars, callVars, WriteInvalid, WriteFails, Fail
    <3>3. ~Request /\ ~RequestRejected /\ ~WriteRequest
      BY <1>0, <1>2 DEF Request, RequestRejected, WriteRequest
    <3>4. ASSUME NEW x \in Conns, ServerSend(x) \/ ServerClose(x) PROVE FALSE
      BY <1>0, <1>2, <3>4 DEF ServerSend, ServerClose, callVars
    <3>5. ASSUME NEW k \in Calls, Fill(k) \/ BodyPiece(k) \/ BodyDone(k) \/ BodyAbandoned(k) \/ IntoUpgraded(k)
          PROVE  FALSE
      BY <1>0, <1>2, <3>5 DEF Fill, BodyPiece, BodyDone, BodyAbandoned, IntoUpgraded, LetGo, callVars
    <3> QED BY <3>1, <3>3, <3>4, <3>5, EveryStep DEF Others
  <2>5. Leaves(n)'
    BY <1>0, <1>2, <2>3, <2>4, ReturnLeaves
  <2> QED BY <2>1, <2>2, <2>5
<1> QED BY <1>1, <1>2

(* A connection on which a response was not read to its end stays so. *)
LEMMA UncleanStays ==
    ASSUME ReuseInv, Closing, Unread, [Next]_vars, NEW k \in 1..n, Unclean(k)
    PROVE  Unclean(k)'
<1>0. n \in Nat /\ n <= MaxRequests /\ MaxRequests \in Nat /\ Calls = 1..MaxRequests
  BY Basics DEF ReuseInv
<1>1. used'[k] = used[k] /\ shared \subseteq shared' /\ (Displaced(k)' <=> Displaced(k))
  BY Past, SharedGrows
<1>2. CASE k \in shared \/ Displaced(k)
  BY <1>1, <1>2 DEF Unclean
<1>3. ASSUME NEW j \in 1..(k - 1), used[j] = used[k], ending[j] = "abandoned" \/ reply[j].framing = "trailers"
      PROVE  Unclean(k)'
  <2>1. j \in Calls /\ j \in 1..n /\ j \in 1..(n - 1)
    BY <1>0
  <2>2. used'[j] = used'[k] /\ reply'[j] = reply[j]
    BY <1>1, <1>3, <2>1, Past
  <2>3. ending[j] = "abandoned" => ending'[j] = "abandoned"
    BY <2>1, AbandonedStays
  <2> QED BY <1>3, <2>2, <2>3 DEF Unclean
<1> QED BY <1>2, <1>3 DEF Unclean

(* A call that fails, or takes left-over data for its response, has a       *)
(* reason.                                                                  *)
LEMMA FailsStep ==
    ReuseInv /\ OwnInv /\ BodyInv /\ FailInv /\ [Next]_vars =>
        \A k \in Calls :
            /\ status'[k] = "failed" => used'[k] \in Conns /\ (link'[used'[k]] # "open" \/ Unclean(k)')
            /\ status'[k] = "stray" => Unclean(k)'
<1> SUFFICES ASSUME ReuseInv, OwnInv, BodyInv, FailInv, [Next]_vars, NEW k \in Calls,
                    status'[k] \in {"failed", "stray"}
             PROVE  /\ status'[k] = "failed" => used'[k] \in Conns /\ (link'[used'[k]] # "open" \/ Unclean(k)')
                    /\ status'[k] = "stray" => Unclean(k)'
  OBVIOUS
<1>0. /\ Closing /\ Arrived /\ Unread /\ CallLeft
      /\ n \in Nat /\ MaxRequests \in Nat /\ n <= MaxRequests /\ Calls = 1..MaxRequests
      /\ pc # "idle" => n \in Calls /\ used[n] \in Conns
      /\ DOMAIN status = Calls /\ \A j \in Calls : j > n => status[j] = "none"
  BY Basics DEF ReuseInv, TypeOK, Calling, OwnInv, BodyInv, FailInv
<1>1. CASE status[k] # "none"
  <2>1. status'[k] = status[k] /\ used'[k] = used[k] /\ k \in 1..n
    BY <1>1, CallStays
  <2>2. /\ status[k] = "failed" => used[k] \in Conns /\ (link[used[k]] # "open" \/ Unclean(k))
        /\ status[k] = "stray" => Unclean(k)
    BY DEF FailInv, FailsForAReason
  <2>3. Unclean(k) => Unclean(k)'
    BY <1>0, <2>1, UncleanStays
  <2>4. used[k] \in Conns /\ link[used[k]] # "open" => link'[used[k]] # "open"
    BY <1>0, ClosedStays
  <2> QED BY <2>1, <2>2, <2>3, <2>4
<1>2. CASE status[k] = "none"
  <2>1. k = n /\ pc # "idle" /\ pc' = "idle" /\ UNCHANGED <<n, used, reply>>
    BY <1>0, <1>2, CallEffects DEF ReuseInv, Untouched, Request, RequestRejected, WriteRequest, Dropped, CutOff,
          ReadsHead, HasHead, Returned, Ends
  <2>2. k \in 1..n /\ used[k] \in Conns /\ used'[k] = used[k]
    BY <1>0, <2>1
  <2>3. (status'[k] = "failed" /\ link[used[k]] # "open") \/ Unclean(k)
    <3>1. CASE WriteFails \/ ParseEof
      <4>1. link[used[k]] # "open" /\ status'[k] # "stray"
        BY <1>0, <2>1, <3>1 DEF WriteFails, ParseEof, EndOfStream, Fail
      <4> QED BY <4>1
    <3>2. CASE ParsePiece
      <4> SUFFICES ASSUME k \notin shared, ~Spoilt(used[k], k - 1) PROVE FALSE
        BY DEF Unclean, Spoilt, Spoils, Displaced
      <4>1. Fine(got, Flow)
        BY <1>0, <2>1, <3>2 DEF CallLeft, ParsePiece
      <4>2. /\ Head(buf[n]).t \notin Loose
            /\ ~(HeadEnds(got, Head(buf[n]).t) /\ ~(got = "line" /\ Head(buf[n]).t = "fields"))
        BY <1>0, <3>2, <4>1, ParsesFine
      <4>3. UNCHANGED status \/ status' = [status EXCEPT ![n] = "ok"]
        BY <3>2, <4>2 DEF ParsePiece, ParseLoose, NextPiece, Return
      <4> QED BY <1>0, <1>2, <2>1, <4>3
    <3>3. ~(Idle \/ UNCHANGED vars \/ WriteInvalid)
      BY <1>0, <1>2, <2>1 DEF Idle, vars, callVars, WriteInvalid
    <3>4. ~Request /\ ~RequestRejected /\ ~WriteRequest
      BY <2>1 DEF Request, RequestRejected, WriteRequest
    <3>5. ~BufferBody
      BY <1>0, <1>2, <2>1 DEF BufferBody, Return
    <3>6. ASSUME NEW x \in Conns, ServerSend(x) \/ ServerClose(x) PROVE FALSE
      BY <2>1, <3>6 DEF ServerSend, ServerClose, callVars
    <3>7. ASSUME NEW j \in Calls, Fill(j) \/ BodyPiece(j) \/ BodyDone(j) \/ BodyAbandoned(j) \/ IntoUpgraded(j)
          PROVE  FALSE
      BY <2>1, <3>7 DEF Fill, BodyPiece, BodyDone, BodyAbandoned, IntoUpgraded, LetGo, callVars
    <3> QED BY <3>1, <3>2, <3>3, <3>4, <3>5, <3>6, <3>7, EveryStep DEF Others
  <2>4. Unclean(k) => Unclean(k)'
    BY <1>0, <2>2, UncleanStays
  <2>5. link[used[k]] # "open" => link'[used[k]] # "open"
    BY <1>0, <2>2, ClosedStays
  <2> QED BY <2>2, <2>3, <2>4, <2>5
<1> QED BY <1>1, <1>2

(* What is left of the responses is where FailInv says, in every state.     *)
THEOREM FailInvHolds == Spec => []FailInv
<1>1. Init => FailInv
  BY DEF Init, FailInv, PoolLeft, CallLeft, FailsForAReason
<1>2. ReuseInv /\ OwnInv /\ OwnInv' /\ BodyInv /\ FailInv /\ [Next]_vars => FailInv'
  <2> SUFFICES ASSUME ReuseInv, OwnInv, OwnInv', BodyInv, FailInv, [Next]_vars PROVE FailInv'
    OBVIOUS
  <2>1. PoolLeft' /\ CallLeft'
    BY PoolLeftStep, CallLeftStep
  <2>2. \A k \in Calls :
            /\ status'[k] = "failed" => used'[k] \in Conns /\ (link'[used'[k]] # "open" \/ Unclean(k)')
            /\ status'[k] = "stray" => Unclean(k)'
    BY FailsStep
  <2>3. FailsForAReason'
    BY <2>2 DEF FailsForAReason
  <2> QED BY <2>1, <2>2, <2>3 DEF FailInv
<1> QED BY <1>1, <1>2, ReuseInvHolds, OwnInvHolds, BodyInvHolds, PTL DEF Spec

(* send_request fails only when the server has closed the connection, when  *)
(* an older body competes for it, or when an earlier response on it was not *)
(* read to its very end (src/src/client.rs, send_request and the pool of    *)
(* Client::request), in any sequence of calls and whoever else has read     *)
(* from the connection before.                                              *)
THEOREM FailuresHaveReasons == Spec => []FailsForAReason
  BY FailInvHolds, PTL DEF FailInv

(* The response that request() returns is the one to its own request, in    *)
(* any sequence of calls, although responses that were read in part leave   *)
(* data that may look like a response: a call takes such data for its       *)
(* response only on a connection on which an earlier response was not read  *)
(* to its very end, and only the calls after a call that took something     *)
(* else for its response get that of another (src/src/client.rs,            *)
(* send_request; src/src/response.rs, parse_response).                      *)
THEOREM ResponseBelongs == Spec => []OwnResponse
<1>1. OwnInv /\ FailInv => OwnResponse
  BY DEF OwnInv, OwnAnswers, FailInv, OwnResponse
<1> QED BY <1>1, OwnInvHolds, FailInvHolds, PTL
=============================================================================
