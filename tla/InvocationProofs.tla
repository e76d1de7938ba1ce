--------------------------- MODULE InvocationProofs ---------------------------
(***************************************************************************)
(* CallsAreStored and TurnsReachCloud of module Invocation, for any number *)
(* of calls, sessions, attempts and plans.  What these two properties      *)
(* leave out (overlapping calls, a new session after a count, the          *)
(* Responses API with instructions) is left out here too.                  *)
(***************************************************************************)
EXTENDS Invocation, ListProofs, SequenceTheorems

-----------------------------------------------------------------------------
(* Lists.                                                                  *)

\* The body of the recursive function of FlattenSeq.
Joins(ss, f, i) == IF i = 1 THEN ss[i] ELSE f[i - 1] \o ss[i]

\* The function exists: it is built for one prefix after the other.
LEMMA FlattenUnfolds ==
    ASSUME NEW S, NEW ss \in Seq(Seq(S))
    PROVE  \E f : /\ f = [i \in 1 .. Len(ss) |-> Joins(ss, f, i)]
                  /\ Len(ss) # 0 => FlattenSeq(ss) = f[Len(ss)]
<1> DEFINE Upto(n) == \E f : f = [i \in 1 .. n |-> Joins(ss, f, i)]
           P == {n \in Nat : n <= Len(ss) => Upto(n)}
<1>1. 0 \in P
    <2> DEFINE f == [i \in 1 .. 0 |-> <<>>]
    <2>1. f = [i \in 1 .. 0 |-> Joins(ss, f, i)]
        OBVIOUS
    <2> QED
        BY <2>1
<1>2. ASSUME NEW n \in P PROVE n + 1 \in P
    <2>1. SUFFICES ASSUME n + 1 <= Len(ss) PROVE Upto(n + 1)
        OBVIOUS
    <2>2. PICK f : f = [i \in 1 .. n |-> Joins(ss, f, i)]
        BY <2>1
    <2> DEFINE h == [i \in 1 .. n + 1 |-> Joins(ss, f, i)]
    <2>3. \A i \in 1 .. n : h[i] = f[i]
        BY <2>2
    <2>4. \A i \in 1 .. n + 1 : Joins(ss, f, i) = Joins(ss, h, i)
        <3> HIDE DEF h
        <3>1. \A i \in 1 .. n + 1 : i = 1 \/ i - 1 \in 1 .. n
            OBVIOUS
        <3> QED
            BY <2>3, <3>1 DEF Joins
    <2>5. h = [i \in 1 .. n + 1 |-> Joins(ss, h, i)]
        BY <2>4
    <2> QED
        BY <2>5
<1>3. Upto(Len(ss))
    <2>1. P = Nat
        <3> HIDE DEF P
        <3>1. P \in SUBSET Nat
            BY DEF P
        <3> QED
            BY <1>1, <1>2, <3>1, SetInduction
    <2> QED
        BY <2>1
<1> DEFINE f == CHOOSE f : f = [i \in 1 .. Len(ss) |-> Joins(ss, f, i)]
<1>4. f = [i \in 1 .. Len(ss) |-> Joins(ss, f, i)]
    BY <1>3
<1>5. Len(ss) # 0 => FlattenSeq(ss) = f[Len(ss)]
    BY DEF FlattenSeq, Joins
<1> QED
    BY <1>4, <1>5

\* Lists put one behind the other are a list.
LEMMA FlattenIsSequence ==
    ASSUME NEW S, NEW ss \in Seq(Seq(S))
    PROVE  FlattenSeq(ss) \in Seq(S)
<1>4. PICK f : /\ f = [i \in 1 .. Len(ss) |-> Joins(ss, f, i)]
               /\ Len(ss) # 0 => FlattenSeq(ss) = f[Len(ss)]
    BY FlattenUnfolds
<1> DEFINE Q == {n \in Nat : n >= 1 /\ n <= Len(ss) => f[n] \in Seq(S)}
<1>6. Q = Nat
    <2>1. 0 \in Q
        OBVIOUS
    <2>2. ASSUME NEW n \in Q PROVE n + 1 \in Q
        <3>1. SUFFICES ASSUME n + 1 <= Len(ss) PROVE f[n + 1] \in Seq(S)
            OBVIOUS
        <3>2. n + 1 \in 1 .. Len(ss) /\ ss[n + 1] \in Seq(S) /\ n \in Nat
            BY <3>1
        <3>3. f[n + 1] = Joins(ss, f, n + 1)
            BY <1>4, <3>2
        <3>4. CASE n = 0
            BY <3>2, <3>3, <3>4 DEF Joins
        <3>5. CASE n # 0
            <4>1. f[n] \in Seq(S)
                BY <3>1, <3>5
            <4>2. f[n + 1] = f[n] \o ss[n + 1]
                <5>1. n + 1 # 1 /\ (n + 1) - 1 = n
                    BY <3>2, <3>5
                <5> QED
                    BY <3>3, <5>1, Zenon DEF Joins
            <4> QED
                BY <3>2, <4>1, <4>2
        <3> QED
            BY <3>4, <3>5
    <2> HIDE DEF Q
    <2>3. Q \in SUBSET Nat
        BY DEF Q
    <2> QED
        BY <2>1, <2>2, <2>3, SetInduction
<1>7. CASE Len(ss) = 0
    BY <1>7 DEF FlattenSeq
<1>8. CASE Len(ss) # 0
    <2>1. Len(ss) \in Nat /\ Len(ss) >= 1
        BY <1>8
    <2>2. Len(ss) \in Q
        BY <1>6, <2>1
    <2>3. f[Len(ss)] \in Seq(S)
        BY <2>1, <2>2
    <2> QED
        BY <1>4, <1>8, <2>3
<1> QED
    BY <1>7, <1>8

\* What Only leaves of one message, and of two of which the first is dropped.
LEMMA OnlyOfOne ==
    ASSUME NEW x, NEW T, x \in T
    PROVE  Only(<<x>>, T) = <<x>>
<1> DEFINE s == <<x>>
<1>0. s \in Seq({x}) /\ Len(s) = 1 /\ s[1] = x
    OBVIOUS
<1> HIDE DEF s
<1>1. PICK f : f = [i \in 0 .. Len(s) |-> Takes(s, T, f, i)] /\ Only(s, T) = f[Len(s)]
    BY <1>0, OnlyUnfolds
<1>2. f[0] = Takes(s, T, f, 0) /\ f[1] = Takes(s, T, f, 1) /\ Only(s, T) = f[1]
    BY <1>0, <1>1
<1>3. f[0] = <<>>
    BY <1>2 DEF Takes
<1>4. f[1] = Append(f[0], x)
    <2>1. s[1] \in T /\ 1 # 0 /\ 1 - 1 = 0
        BY <1>0
    <2> QED
        BY <1>0, <1>2, <2>1, Zenon DEF Takes
<1>5. Append(<<>>, x) = <<x>>
    OBVIOUS
<1> QED
    BY <1>2, <1>3, <1>4, <1>5 DEF s

LEMMA OnlyOfTwo ==
    ASSUME NEW y, NEW x, NEW T, y \notin T, x \in T
    PROVE  Only(<<y, x>>, T) = <<x>>
<1> DEFINE s == <<y, x>>
<1>0. s \in Seq({x, y}) /\ Len(s) = 2 /\ s[1] = y /\ s[2] = x
    OBVIOUS
<1> HIDE DEF s
<1>1. PICK f : f = [i \in 0 .. Len(s) |-> Takes(s, T, f, i)] /\ Only(s, T) = f[Len(s)]
    BY <1>0, OnlyUnfolds
<1>2. /\ f[0] = Takes(s, T, f, 0) /\ f[1] = Takes(s, T, f, 1) /\ f[2] = Takes(s, T, f, 2)
      /\ Only(s, T) = f[2]
    BY <1>0, <1>1
<1>3. f[0] = <<>> /\ f[1] = f[0] /\ f[2] = Append(f[1], x)
    BY <1>0, <1>2 DEF Takes
<1>4. Append(<<>>, x) = <<x>>
    OBVIOUS
<1> QED
    BY <1>2, <1>3, <1>4 DEF s

\* Two messages, one put behind the other.
LEMMA PairOf == \A x, y : <<x>> \o <<y>> = <<x, y>>
<1> SUFFICES ASSUME NEW x, NEW y PROVE <<x>> \o <<y>> = <<x, y>>
    OBVIOUS
<1> DEFINE S == {x, y}
<1>1. /\ <<x>> \in Seq(S) /\ Len(<<x>>) = 1 /\ <<x>>[1] = x
      /\ <<y>> \in Seq(S) /\ Len(<<y>>) = 1 /\ <<y>>[1] = y
    OBVIOUS
<1> HIDE DEF S
<1>2. \A a, b \in Seq(S) : Len(a) = 1 /\ Len(b) = 1 => a \o b = <<a[1], b[1]>>
    <2> SUFFICES ASSUME NEW a \in Seq(S), NEW b \in Seq(S), Len(a) = 1, Len(b) = 1
                 PROVE  a \o b = <<a[1], b[1]>>
        OBVIOUS
    <2>1. /\ a \o b \in Seq(S) /\ Len(a \o b) = 2
          /\ (a \o b)[1] = a[1] /\ (a \o b)[2] = b[1]
        BY ConcatProperties
    <2>2. \A t \in Seq(S) : Len(t) = 2 => t = <<t[1], t[2]>>
        OBVIOUS
    <2> QED
        BY <2>1, <2>2, Zenon
<1> QED
    BY <1>1, <1>2, Zenon

LEMMA Behind ==
    ASSUME NEW S
    PROVE  \A p, q, r \in Seq(S) : (p \o q) \o r = p \o (q \o r)
BY ConcatAssociative

-----------------------------------------------------------------------------
(* The shape of the whole state.                                           *)

Turn == [session : 0 .. MaxSessions, messages : Seq(Messages)]

ShapeInv ==
    /\ TypeOK
    /\ count \in Nat /\ remembered \in Seq(Messages) /\ disturbed \in BOOLEAN
    /\ stored \in [Sessions -> Seq(Messages)] /\ left \in [Sessions -> Seq(Messages)]
    /\ accepted \in Seq(Turn) /\ turn \in [Calls -> Turn]
    /\ messages \in [Calls -> Seq(Messages)]
    /\ learned \subseteq [call : Calls, conversation : 0 .. MaxSessions]
    /\ \A c \in Calls :
          /\ stage[c] \in {"recalling", "copying"} => plan.cloud
          /\ stage[c] \in {"storing", "copying"} =>
                /\ Len(turn[c].messages) > 0
                /\ turn[c].messages[Len(turn[c].messages)] = Answer(c)

-----------------------------------------------------------------------------
(* One call at a time.  As long as nothing has come between, or the cloud  *)
(* tells the history of each call anew, the count is that of the messages  *)
(* in front of what the caller has asked.                                  *)

Quiet == ~disturbed \/ (plan.cloud /\ ~plan.overlap)

Alone == \A c, d \in Calls : Running(c) /\ Running(d) => c = d

\* The caller's question, perhaps behind the recalled facts.
Fresh(c) == {<<Question(c)>>, <<Facts, Question(c)>>}

Asking(c) ==
    /\ stage[c] \in {"recalling", "recalled"} => messages[c] \in Fresh(c)
    /\ stage[c] \in {"sent", "streaming", "answered"} =>
          SubSeq(messages[c], count + 1, Len(messages[c])) \in Fresh(c)
    /\ stage[c] \in {"storing", "copying"} /\ plan.style # "instructed" =>
          turn[c].messages = <<Question(c), Answer(c)>>

\* Without the cloud a count is of the conversation the next call goes on with.
Counting ==
    ~plan.cloud =>
        /\ conversation \in {0, session}
        /\ count # 0 => conversation = session /\ stored[session] # <<>>

QuietInv == Quiet => Alone /\ Counting /\ \A c \in Calls : Asking(c)

-----------------------------------------------------------------------------
(* The turns in the caller's own database.                                 *)

Learning(c) == stage[c] = "learning" \/ c \in background

OwnInv ==
    ~plan.cloud =>
        /\ \A c \in Calls : stage[c] \in {"learning", "done"} => \E s \in Sessions : Holds(s, c)
        /\ ~disturbed =>
              /\ \A c \in Calls : Learning(c) => conversation # 0 /\ Holds(conversation, c)
              /\ \A l \in learned : l.conversation # 0 /\ Holds(l.conversation, l.call)
              /\ plan.style # "instructed" =>
                    \A s \in Sessions :
                        /\ IsDialogue(stored[s])
                        /\ \A c \in Calls : Holds(s, c) => stage[c] \in {"learning", "done"}

-----------------------------------------------------------------------------
(* The turns in the cloud.                                                 *)

ToldInv ==
    plan.cloud =>
        \A c \in Calls :
            /\ stage[c] \in {"copying", "learning", "done"} => Posts(c) # {}
            /\ stage[c] \in {"learning", "done"} /\ plan.local =>
                  \E s \in Sessions : Copies(s, c) # {}

\* A turn that is told or copied a second time is doubtful.
OnceInv ==
    plan.cloud /\ ~plan.overlap /\ plan.style # "instructed" =>
        /\ \A i \in DOMAIN accepted :
              \E c \in Calls : accepted[i].messages = <<Question(c), Answer(c)>>
        /\ \A c \in Calls \ doubtful :
              /\ Posts(c) # {} => stage[c] \in {"copying", "learning", "done"}
              /\ \A i, j \in Posts(c) : i = j
              /\ \A s \in Sessions :
                    /\ Answer(c) \notin In(left[s])
                    /\ Copies(s, c) # {} => stage[c] \in {"learning", "done"}
                    /\ \A i, j \in Copies(s, c) : i = j

InvocationInv == ShapeInv /\ QuietInv /\ OwnInv /\ ToldInv /\ OnceInv


-----------------------------------------------------------------------------
(* The shape is kept.                                                      *)

LEMMA MessagesAre ==
    ASSUME NEW c \in Calls
    PROVE  /\ Facts \in Messages /\ Instructions \in Messages
           /\ Question(c) \in Messages /\ Answer(c) \in Messages
BY DEF Facts, Instructions, Question, Answer, Messages

LEMMA PlanIs ==
    ASSUME TypeOK
    PROVE  /\ plan.cloud \in BOOLEAN /\ plan.local \in BOOLEAN /\ plan.engine \in BOOLEAN
           /\ plan.overlap \in BOOLEAN /\ plan.style \in Styles
           /\ plan.kind \in [Calls -> Kinds] /\ plan.calls \subseteq Calls
<1>1. plan \in [calls : SUBSET Calls, cloud : BOOLEAN, local : BOOLEAN,
                engine : BOOLEAN, overlap : BOOLEAN, tools : SUBSET Calls,
                style : Styles, kind : [Calls -> Kinds]]
    BY InvocationAssumption DEF TypeOK
<1> QED
    BY <1>1

LEMMA ReplayedIs ==
    ASSUME NEW h \in Seq(Messages)
    PROVE  Replayed(h) \in Seq(Messages) /\ Len(Replayed(h)) \in Nat
BY OnlySelects DEF Replayed

LEMMA OwnIs ==
    ASSUME ShapeInv, NEW c \in Calls
    PROVE  Own(c) \in Seq(Messages)
<1> DEFINE all == IF plan.style = "instructed" THEN <<Instructions>> \o messages[c]
                  ELSE messages[c]
<1>1. messages[c] \in Seq(Messages) /\ count \in Nat
    BY DEF ShapeInv
<1>2. all \in Seq(Messages)
    BY <1>1, MessagesAre
<1>3. Own(c) = SubSeq(all, count + 1, Len(all))
    BY DEF Own
<1> HIDE DEF all
<1> QED
    BY <1>1, <1>2, <1>3

LEMMA ShapeInit == Init => ShapeInv
<1> SUFFICES ASSUME Init PROVE ShapeInv
    OBVIOUS
<1>1. 1 \in Sessions /\ 0 \in 0 .. MaxSessions /\ 0 \in 0 .. MaxAttempts
    BY InvocationAssumption DEF Sessions
<1>2. TypeOK
    BY <1>1 DEF Init, TypeOK, Stages
<1>3. <<>> \in Seq(Messages) /\ <<>> \in Seq(Turn)
    OBVIOUS
<1>4. /\ stored \in [Sessions -> Seq(Messages)] /\ left \in [Sessions -> Seq(Messages)]
      /\ turn \in [Calls -> Turn] /\ messages \in [Calls -> Seq(Messages)]
    BY <1>1, <1>3 DEF Init, Turn
<1> QED
    BY <1>2, <1>3, <1>4 DEF Init, ShapeInv

\* The calls whose step only changes where they stand.
LEMMA MovesKeepShape ==
    ASSUME ShapeInv, NEW c \in Calls,
           Fails(c) \/ Respond(c) \/ Exhaust(c) \/ Abandon(c)
    PROVE  ShapeInv'
<1>1. PICK s \in Stages \ {"recalling", "storing", "copying"} : stage' = [stage EXCEPT ![c] = s]
    BY DEF Fails, Respond, Exhaust, Abandon, Goto, Stages
<1>2. UNCHANGED <<plan, count, remembered, session, conversation, stored, left, accepted,
                  messages, turn, tries, background, learned, doubtful, disturbed>>
    BY DEF Fails, Respond, Exhaust, Abandon
<1>3. TypeOK'
    BY <1>1, <1>2 DEF ShapeInv, TypeOK
<1>4. \A d \in Calls : /\ stage'[d] \in {"recalling", "copying"} => plan.cloud
                       /\ stage'[d] \in {"storing", "copying"} =>
                             /\ Len(turn[d].messages) > 0
                             /\ turn[d].messages[Len(turn[d].messages)] = Answer(d)
    BY <1>1 DEF ShapeInv, TypeOK
<1> QED
    BY <1>2, <1>3, <1>4 DEF ShapeInv, Answer

LEMMA AskingKeepsShape ==
    ASSUME ShapeInv, NEW c \in Calls, Begin(c) \/ CloudRecall(c) \/ Inject(c)
    PROVE  ShapeInv'
<1>1. PICK s \in {"recalling", "recalled", "sent"} :
           stage' = [stage EXCEPT ![c] = s] /\ (s = "recalling" => plan.cloud)
    BY DEF Begin, CloudRecall, Inject, Goto
<1>2. UNCHANGED <<plan, session, stored, left, accepted, turn, tries, background, learned, doubtful>>
    BY DEF Begin, CloudRecall, Inject
<1>3. conversation' \in 0 .. session' /\ session \in Sessions
    BY <1>2 DEF Begin, CloudRecall, Inject, ShapeInv, TypeOK, Sessions
<1>4. TypeOK'
    BY <1>1, <1>2, <1>3 DEF ShapeInv, TypeOK, Stages
<1>5. \A d \in Calls : /\ stage'[d] \in {"recalling", "copying"} => plan.cloud
                       /\ stage'[d] \in {"storing", "copying"} =>
                             /\ Len(turn[d].messages) > 0
                             /\ turn[d].messages[Len(turn[d].messages)] = Answer(d)
    BY <1>1 DEF ShapeInv, TypeOK
<1>6. /\ count' \in Nat /\ remembered' \in Seq(Messages) /\ disturbed' \in BOOLEAN
      /\ messages' \in [Calls -> Seq(Messages)]
    <2>1. CASE Begin(c)
        <3>1. PICK m : /\ messages' = [messages EXCEPT ![c] = m]
                       /\ m \in {<<Facts, Question(c)>>, <<Question(c)>>}
            BY <2>1 DEF Begin
        <3>2. m \in Seq(Messages)
            <4>1. \A x, y \in Messages : <<x, y>> \in Seq(Messages) /\ <<x>> \in Seq(Messages)
                OBVIOUS
            <4> QED
                BY <3>1, <4>1, MessagesAre
        <3>3. messages' \in [Calls -> Seq(Messages)]
            BY <3>1, <3>2 DEF ShapeInv
        <3>4. disturbed' \in BOOLEAN
            <4>1. disturbed' = (disturbed \/ \E d \in Calls : Running(d))
                BY <2>1 DEF Begin
            <4> QED
                BY <4>1, Zenon
        <3>5. count' \in Nat /\ remembered' \in Seq(Messages)
            <4>1. <<>> \in Seq(Messages)
                OBVIOUS
            <4> QED
                BY <2>1, <4>1 DEF Begin, ShapeInv
        <3> QED
            BY <3>3, <3>4, <3>5
    <2>2. CASE CloudRecall(c)
        <3> DEFINE ss == [i \in DOMAIN accepted |->
                            IF accepted[i].session = session THEN accepted[i].messages ELSE <<>>]
        <3>1. accepted \in Seq(Turn) /\ Len(accepted) \in Nat
              /\ DOMAIN accepted = 1 .. Len(accepted)
            BY DEF ShapeInv
        <3>2. \A i \in 1 .. Len(accepted) : accepted[i].messages \in Seq(Messages)
            <4>1. \A i \in 1 .. Len(accepted) : accepted[i] \in Turn
                BY <3>1
            <4>2. \A t \in Turn : t.messages \in Seq(Messages)
                BY DEF Turn
            <4> QED
                BY <4>1, <4>2
        <3>3. ss \in Seq(Seq(Messages))
            BY <3>1, <3>2
        <3>4. remembered' = FlattenSeq(ss)
            BY <2>2 DEF CloudRecall
        <3> HIDE DEF ss
        <3>5. remembered' \in Seq(Messages)
            BY <3>3, <3>4, FlattenIsSequence
        <3> QED
            BY <2>2, <3>5 DEF CloudRecall, ShapeInv
    <2>3. CASE Inject(c)
        <3> DEFINE h == IF plan.cloud THEN remembered ELSE stored[conversation']
        <3>1. h \in Seq(Messages)
            <4>1. conversation' \in Sessions \/ plan.cloud
                <5>1. conversation \in 0 .. session /\ session \in 1 .. MaxSessions
                    BY DEF ShapeInv, TypeOK, Sessions
                <5>2. conversation' = IF plan.cloud \/ conversation # 0 THEN conversation ELSE session
                    BY <2>3 DEF Inject
                <5> QED
                    BY <5>1, <5>2, InvocationAssumption DEF Sessions
            <4> QED
                BY <4>1 DEF ShapeInv
        <3>2. /\ messages' = [messages EXCEPT ![c] = Replayed(h) \o @]
              /\ count' = IF h = <<>> /\ ~plan.cloud THEN count ELSE Len(Replayed(h))
              /\ UNCHANGED <<remembered, disturbed>>
            BY <2>3 DEF Inject
        <3> HIDE DEF h
        <3>3. Replayed(h) \in Seq(Messages) /\ Len(Replayed(h)) \in Nat
            BY <3>1, ReplayedIs
        <3>4. Replayed(h) \o messages[c] \in Seq(Messages)
            BY <3>3 DEF ShapeInv
        <3>5. messages' \in [Calls -> Seq(Messages)]
            BY <3>2, <3>4 DEF ShapeInv
        <3> QED
            BY <3>2, <3>3, <3>5 DEF ShapeInv
    <2> QED
        BY <2>1, <2>2, <2>3
<1> QED
    BY <1>2, <1>4, <1>5, <1>6 DEF ShapeInv, Answer

LEMMA FormatKeepsShape ==
    ASSUME ShapeInv, NEW c \in Calls, Format(c)
    PROVE  ShapeInv'
<1> DEFINE kept == Only(Own(c), {m \in Messages : m.part # "system"})
           t == [session |-> session, messages |-> kept \o <<Answer(c)>>]
<1>1. kept \in Seq(Messages) /\ Answer(c) \in Messages
    BY OwnIs, OnlySelects, MessagesAre
<1>2. turn' = [turn EXCEPT ![c] = t]
    BY DEF Format
<1>3. /\ t.messages = kept \o <<Answer(c)>> /\ t.session = session
      /\ t = [session |-> t.session, messages |-> t.messages]
    OBVIOUS
<1> HIDE DEF t
<1>4. /\ t.messages \in Seq(Messages) /\ Len(t.messages) \in Nat /\ Len(t.messages) > 0
      /\ t.messages[Len(t.messages)] = Answer(c)
    <2> HIDE DEF kept
    <2> QED
        BY <1>1, <1>3
<1>5. session \in Sessions /\ session \in 0 .. MaxSessions
    BY InvocationAssumption DEF ShapeInv, TypeOK, Sessions
<1>6. t \in Turn
    BY <1>3, <1>4, <1>5 DEF Turn
<1>7. turn' \in [Calls -> Turn] /\ turn'[c] = t /\ \A d \in Calls \ {c} : turn'[d] = turn[d]
    BY <1>2, <1>6 DEF ShapeInv
<1>8. /\ stage' = [stage EXCEPT ![c] = "storing"] /\ tries' = [tries EXCEPT ![c] = 1]
      /\ UNCHANGED <<plan, count, remembered, session, conversation, stored, left, accepted,
                     messages, background, learned, doubtful, disturbed>>
    BY DEF Format, Goto
<1>9. stage' \in [Calls -> Stages] /\ tries' \in [Calls -> 0 .. MaxAttempts]
    BY <1>8, InvocationAssumption DEF ShapeInv, TypeOK, Stages
<1>10. TypeOK'
    BY <1>8, <1>9 DEF ShapeInv, TypeOK
<1>11. ASSUME NEW d \in Calls
       PROVE  /\ stage'[d] \in {"recalling", "copying"} => plan.cloud
              /\ stage'[d] \in {"storing", "copying"} =>
                    /\ Len(turn'[d].messages) > 0
                    /\ turn'[d].messages[Len(turn'[d].messages)] = Answer(d)
    BY <1>4, <1>7, <1>8 DEF ShapeInv, TypeOK
<1> QED
    BY <1>7, <1>8, <1>10, <1>11 DEF ShapeInv, Answer

\* A turn is stored, told, refused or copied: it stays the same turn.
LEMMA DeliveryKeepsShape ==
    ASSUME ShapeInv, NEW c \in Calls,
           \/ Store(c) \/ PostAccepted(c) \/ PostRaises(c) \/ PostRefused(c)
           \/ Copy(c) \/ CopyRaises(c)
    PROVE  ShapeInv'
<1>1. PICK s \in Stages \ {"recalling"} : /\ stage' = [stage EXCEPT ![c] = s]
                                          /\ s \in {"storing", "copying"} =>
                                                plan.cloud /\ stage[c] \in {"storing", "copying"}
    <2>1. AfterStore(c) \in {"learning", "done"}
        BY DEF AfterStore
    <2>2. {"learning", "done", "storing", "copying", "failed"} \subseteq Stages \ {"recalling"}
        BY DEF Stages
    <2>3. stage[c] = "copying" => plan.cloud
        BY DEF ShapeInv
    <2>4. \E s \in {"learning", "done", "storing", "copying", "failed"} :
             /\ stage' = [stage EXCEPT ![c] = s]
             /\ s \in {"storing", "copying"} => plan.cloud /\ stage[c] \in {"storing", "copying"}
        <3>1. CASE Store(c)
            BY <2>1, <3>1 DEF Store, Goto
        <3>2. CASE PostAccepted(c)
            BY <2>1, <3>2 DEF PostAccepted, Goto
        <3>3. CASE PostRaises(c) \/ PostRefused(c)
            BY <3>3 DEF PostRaises, PostRefused, Again, Goto
        <3>4. CASE Copy(c)
            BY <2>1, <3>4 DEF Copy, Goto
        <3>5. CASE CopyRaises(c)
            BY <2>3, <3>5 DEF CopyRaises, Again, Goto
        <3> QED
            BY <3>1, <3>2, <3>3, <3>4, <3>5
    <2> QED
        BY <2>2, <2>4
<1>2. UNCHANGED <<plan, count, remembered, session, messages, turn, background, learned, disturbed>>
    BY DEF Store, PostAccepted, PostRaises, PostRefused, Copy, CopyRaises
<1>3. stage' \in [Calls -> Stages]
    BY <1>1 DEF ShapeInv, TypeOK
<1>4. ASSUME NEW d \in Calls
      PROVE  /\ stage'[d] \in {"recalling", "copying"} => plan.cloud
             /\ stage'[d] \in {"storing", "copying"} => stage[d] \in {"storing", "copying"}
    BY <1>1 DEF ShapeInv, TypeOK
<1>5. tries' \in [Calls -> 0 .. MaxAttempts]
    <2>1. tries \in [Calls -> 0 .. MaxAttempts]
        BY DEF ShapeInv, TypeOK
    <2>2. \/ tries' = tries
          \/ tries[c] < MaxAttempts /\ tries' = [tries EXCEPT ![c] = tries[c] + 1]
        BY DEF Store, PostAccepted, PostRaises, PostRefused, Copy, CopyRaises, Again
    <2> QED
        BY <2>1, <2>2, InvocationAssumption
<1>6. doubtful' \subseteq Calls
    BY DEF Store, PostAccepted, PostRaises, PostRefused, Copy, CopyRaises, ShapeInv, TypeOK
<1>7. /\ conversation \in 0 .. session /\ session \in 1 .. MaxSessions
      /\ conversation' \in 0 .. session
      /\ Store(c) \/ Copy(c) \/ CopyRaises(c) => conversation' \in Sessions
    <2>1. conversation \in 0 .. session /\ session \in 1 .. MaxSessions
        BY DEF ShapeInv, TypeOK, Sessions
    <2>2. conversation' \in {conversation, IF conversation = 0 THEN session ELSE conversation}
        BY DEF Store, PostAccepted, PostRaises, PostRefused, Copy, CopyRaises
    <2>3. Store(c) \/ Copy(c) \/ CopyRaises(c) =>
             conversation' = IF conversation = 0 THEN session ELSE conversation
        BY DEF Store, Copy, CopyRaises
    <2> QED
        BY <2>1, <2>2, <2>3, InvocationAssumption DEF Sessions
<1>8. TypeOK'
    BY <1>2, <1>3, <1>5, <1>6, <1>7 DEF ShapeInv, TypeOK
<1>9. turn[c] \in Turn /\ turn[c].messages \in Seq(Messages)
    BY DEF ShapeInv, Turn
<1>10. accepted' \in Seq(Turn)
    <2>1. accepted' \in {accepted, Append(accepted, turn[c])}
        BY DEF Store, PostAccepted, PostRaises, PostRefused, Copy, CopyRaises, Accept
    <2>2. accepted \in Seq(Turn)
        BY DEF ShapeInv
    <2> QED
        BY <1>9, <2>1, <2>2
<1>11. stored' \in [Sessions -> Seq(Messages)] /\ left' \in [Sessions -> Seq(Messages)]
    <2>0. stored \in [Sessions -> Seq(Messages)] /\ left \in [Sessions -> Seq(Messages)]
        BY DEF ShapeInv
    <2>1. CASE Store(c)
        <3>1. stored' = [stored EXCEPT ![conversation'] = @ \o turn[c].messages] /\ left' = left
            BY <2>1 DEF Store
        <3>2. \A z \in Sessions : stored[z] \o turn[c].messages \in Seq(Messages)
            BY <1>9, <2>0
        <3> QED
            BY <2>0, <3>1, <3>2
    <2>2. CASE Copy(c)
        <3> DEFINE new(z) == IF z = conversation' THEN turn[c].messages ELSE <<>>
        <3>1. /\ stored' = [z \in Sessions |-> stored[z] \o left[z] \o new(z)]
              /\ left' = [z \in Sessions |-> <<>>]
            BY <2>2 DEF Copy
        <3>2. \A z \in Sessions : new(z) \in Seq(Messages)
            BY <1>9
        <3> HIDE DEF new
        <3>3. \A z \in Sessions : stored[z] \o left[z] \o new(z) \in Seq(Messages)
            BY <3>2 DEF ShapeInv
        <3> QED
            BY <3>1, <3>3
    <2>3. CASE CopyRaises(c)
        <3>1. PICK n \in 0 .. Len(turn[c].messages) :
                 left' = [left EXCEPT ![conversation'] = @ \o SubSeq(turn[c].messages, 1, n)]
            BY <2>3 DEF CopyRaises
        <3>2. SubSeq(turn[c].messages, 1, n) \in Seq(Messages)
            BY <1>9
        <3>3. stored' = stored
            BY <2>3 DEF CopyRaises
        <3>4. \A z \in Sessions : left[z] \o SubSeq(turn[c].messages, 1, n) \in Seq(Messages)
            BY <2>0, <3>2
        <3> QED
            BY <2>0, <3>1, <3>3, <3>4
    <2>4. CASE UNCHANGED <<stored, left>>
        BY <2>4 DEF ShapeInv
    <2> QED
        BY <2>1, <2>2, <2>3, <2>4
        DEF Store, PostAccepted, PostRaises, PostRefused, Copy, CopyRaises
<1> QED
    BY <1>2, <1>4, <1>8, <1>10, <1>11 DEF ShapeInv, Answer

LEMMA LearningKeepsShape ==
    ASSUME ShapeInv, NEW c \in Calls, Learn(c) \/ RunInBackground(c)
    PROVE  ShapeInv'
<1>1. UNCHANGED <<plan, count, remembered, session, conversation, stored, left, accepted,
                  messages, turn, tries, doubtful, disturbed>>
    BY DEF Learn, RunInBackground
<1>2. stage' = [stage EXCEPT ![c] = "done"] \/ stage' = stage
    BY DEF Learn, RunInBackground, Goto
<1>3. background' \subseteq Calls
    BY DEF Learn, RunInBackground, ShapeInv, TypeOK
<1>4. learned' \subseteq [call : Calls, conversation : 0 .. MaxSessions]
    <2>1. conversation \in 0 .. MaxSessions
        BY InvocationAssumption DEF ShapeInv, TypeOK, Sessions
    <2>2. learned' = learned \/ learned' = learned \cup {[call |-> c, conversation |-> conversation]}
        BY DEF Learn, RunInBackground, Submitted
    <2> QED
        BY <2>1, <2>2 DEF ShapeInv
<1>5. stage' \in [Calls -> Stages]
    BY <1>2 DEF ShapeInv, TypeOK, Stages
<1>6. TypeOK'
    BY <1>1, <1>3, <1>5 DEF ShapeInv, TypeOK
<1>7. \A d \in Calls : stage'[d] = stage[d] \/ stage'[d] = "done"
    BY <1>2 DEF ShapeInv, TypeOK
<1> QED
    BY <1>1, <1>4, <1>6, <1>7 DEF ShapeInv, Answer

LEMMA NewSessionKeepsShape ==
    ASSUME ShapeInv, NewSession
    PROVE  ShapeInv'
<1>1. /\ UNCHANGED <<plan, count, remembered, stored, left, accepted, stage, messages, turn,
                     tries, background, learned, doubtful>>
      /\ session' = session + 1 /\ session < MaxSessions /\ conversation' = 0
      /\ disturbed' = (disturbed \/ count # 0 \/ background # {} \/ \E c \in Calls : Running(c))
    BY DEF NewSession
<1>2. session' \in Sessions /\ conversation' \in 0 .. session'
    BY <1>1, InvocationAssumption DEF ShapeInv, TypeOK, Sessions
<1>3. disturbed' \in BOOLEAN
    BY <1>1, Zenon
<1>4. TypeOK'
    BY <1>1, <1>2 DEF ShapeInv, TypeOK
<1> QED
    BY <1>1, <1>3, <1>4 DEF ShapeInv, Answer

LEMMA ShapeStep == ShapeInv /\ [Next]_vars => ShapeInv'
<1> SUFFICES ASSUME ShapeInv, [Next]_vars PROVE ShapeInv'
    OBVIOUS
<1>1. CASE UNCHANGED vars
    BY <1>1 DEF vars, ShapeInv, TypeOK, Answer
<1>2. CASE NewSession
    BY <1>2, NewSessionKeepsShape
<1>3. ASSUME NEW c \in Calls, Begin(c) \/ Step(c) \/ RunInBackground(c) PROVE ShapeInv'
    BY <1>3, MovesKeepShape, AskingKeepsShape, FormatKeepsShape, DeliveryKeepsShape,
       LearningKeepsShape DEF Step
<1> QED
    BY <1>1, <1>2, <1>3 DEF Next

-----------------------------------------------------------------------------
(* What a call asks is kept.                                               *)

LEMMA PlanStays == [Next]_vars => plan' = plan
<1>1. Next => plan' = plan
    BY DEF Next, NewSession, Begin, Step, CloudRecall, Inject, Fails, Respond, Exhaust, Abandon,
           Format, Store, PostAccepted, PostRaises, PostRefused, Copy, CopyRaises, Learn,
           RunInBackground
<1>2. UNCHANGED vars => plan' = plan
    BY DEF vars
<1> QED
    BY <1>1, <1>2

LEMMA QuietBefore ==
    ASSUME ShapeInv, Next, Quiet'
    PROVE  Quiet
<1>1. plan' = plan
    BY PlanStays
<1>2. disturbed => disturbed'
    BY DEF Next, NewSession, Begin, Step, CloudRecall, Inject, Fails, Respond, Exhaust, Abandon,
           Format, Store, PostAccepted, PostRaises, PostRefused, Copy, CopyRaises, Learn,
           RunInBackground
<1> QED
    BY <1>1, <1>2 DEF Quiet

\* Nothing in front of a list, when nothing of it is replayed.
LEMMA NothingReplayed == Replayed(<<>>) = <<>>
<1>1. <<>> \in Seq(Messages) /\ Len(<<>>) = 0
    OBVIOUS
<1>2. Replayed(<<>>) \in Seq(Messages) /\ Len(Replayed(<<>>)) <= 0
    BY <1>1, ReplayedIs, OnlyIsNoLonger DEF Replayed
<1>3. Len(Replayed(<<>>)) = 0
    BY <1>2
<1> QED
    BY <1>2, <1>3

\* The question, when the system messages are dropped.
LEMMA FreshIsSpoken ==
    ASSUME NEW c \in Calls, NEW x \in Fresh(c)
    PROVE  Only(x, {m \in Messages : m.part # "system"}) = <<Question(c)>>
<1> DEFINE T == {m \in Messages : m.part # "system"}
<1>1. Question(c) \in T /\ Facts \notin T
    BY MessagesAre DEF Question, Facts
<1> HIDE DEF T
<1>2. x = <<Question(c)>> \/ x = <<Facts, Question(c)>>
    BY DEF Fresh
<1>3. Only(x, T) = <<Question(c)>>
    BY <1>1, <1>2, OnlyOfOne, OnlyOfTwo
<1> QED
    BY <1>3 DEF T

LEMMA FreshIs ==
    ASSUME NEW c \in Calls, NEW x \in Fresh(c)
    PROVE  x \in Seq(Messages)
<1>1. \A y, z \in Messages : <<y, z>> \in Seq(Messages) /\ <<z>> \in Seq(Messages)
    OBVIOUS
<1> QED
    BY <1>1, MessagesAre DEF Fresh

\* One call moves on: the others ask what they asked.
LEMMA OneMoves ==
    ASSUME ShapeInv, Alone, \A d \in Calls : Asking(d), NEW c \in Calls, NEW s,
           stage' = [stage EXCEPT ![c] = s], Running(c), UNCHANGED <<plan>>,
           \A d \in Calls \ {c} : turn'[d] = turn[d],
           Asking(c)'
    PROVE  Alone' /\ \A d \in Calls : Asking(d)'
<1>1. stage'[c] = s /\ \A d \in Calls \ {c} : stage'[d] = stage[d] /\ ~Running(d)
    BY DEF ShapeInv, TypeOK, Alone
<1>2. Alone'
    BY <1>1 DEF Alone, Running
<1>3. ASSUME NEW d \in Calls \ {c} PROVE Asking(d)'
    BY <1>1 DEF Asking, Running
<1> QED
    BY <1>2, <1>3

LEMMA BeginKeepsQuiet ==
    ASSUME ShapeInv, QuietInv, NEW c \in Calls, Begin(c), Quiet'
    PROVE  QuietInv'
<1>1. /\ UNCHANGED <<plan, count, session, conversation, stored, turn>>
      /\ disturbed' = (disturbed \/ \E d \in Calls : Running(d))
      /\ plan.overlap \/ ~ \E d \in Calls : Running(d)
    BY DEF Begin
<1>2. Quiet /\ ~ \E d \in Calls : Running(d)
    BY <1>1 DEF Quiet
<1>3. PICK s \in {"recalling", "recalled"} : stage' = [stage EXCEPT ![c] = s]
    BY DEF Begin, Goto
<1>4. stage'[c] = s /\ \A d \in Calls \ {c} : stage'[d] = stage[d] /\ ~Running(d)
    BY <1>2, <1>3 DEF ShapeInv, TypeOK
<1>5. messages'[c] \in Fresh(c)
    BY DEF Begin, ShapeInv, Fresh
<1>6. Alone'
    BY <1>4 DEF Alone, Running
<1>7. ASSUME NEW d \in Calls PROVE Asking(d)'
    <2>1. CASE d = c
        BY <1>4, <1>5, <2>1 DEF Asking, Fresh
    <2>2. CASE d # c
        BY <1>4, <2>2 DEF Asking, Running
    <2> QED
        BY <2>1, <2>2
<1>8. Counting'
    BY <1>1, <1>2 DEF QuietInv, Counting
<1> QED
    BY <1>6, <1>7, <1>8 DEF QuietInv

LEMMA MovesKeepQuiet ==
    ASSUME ShapeInv, QuietInv, NEW c \in Calls, Quiet, Quiet',
           Fails(c) \/ Respond(c) \/ Exhaust(c) \/ Abandon(c) \/ CloudRecall(c) \/ Learn(c)
    PROVE  QuietInv'
<1>1. Alone /\ Counting /\ \A d \in Calls : Asking(d)
    BY DEF QuietInv
<1>2. UNCHANGED <<plan, count, session, conversation, stored, turn, messages>>
    BY DEF Fails, Respond, Exhaust, Abandon, CloudRecall, Learn
<1>3. PICK s : /\ stage' = [stage EXCEPT ![c] = s]
               /\ \/ s \in {"failed", "done"}
                  \/ s = "recalled" /\ stage[c] = "recalling"
                  \/ s \in {"streaming", "answered"} /\ stage[c] \in {"sent", "streaming"}
    BY DEF Fails, Respond, Exhaust, Abandon, CloudRecall, Learn, Goto
<1>4. Running(c)
    BY DEF Fails, Respond, Exhaust, Abandon, CloudRecall, Learn, Running
<1>5. stage'[c] = s
    BY <1>3 DEF ShapeInv, TypeOK
<1>6. Asking(c)'
    BY <1>1, <1>2, <1>3, <1>5 DEF Asking, Fresh
<1>7. Alone' /\ \A d \in Calls : Asking(d)'
    BY <1>1, <1>2, <1>3, <1>4, <1>6, OneMoves
<1>8. Counting'
    BY <1>1, <1>2 DEF Counting
<1> QED
    BY <1>7, <1>8 DEF QuietInv

LEMMA InjectKeepsQuiet ==
    ASSUME ShapeInv, QuietInv, NEW c \in Calls, Quiet, Quiet', Inject(c)
    PROVE  QuietInv'
<1>1. Alone /\ Counting /\ \A d \in Calls : Asking(d)
    BY DEF QuietInv
<1> DEFINE h == IF plan.cloud THEN remembered ELSE stored[conversation']
<1>2. /\ stage[c] = "recalled" /\ stage' = [stage EXCEPT ![c] = "sent"]
      /\ conversation' = IF plan.cloud \/ conversation # 0 THEN conversation ELSE session
      /\ messages' = [messages EXCEPT ![c] = Replayed(h) \o messages[c]]
      /\ count' = IF h = <<>> /\ ~plan.cloud THEN count ELSE Len(Replayed(h))
      /\ UNCHANGED <<plan, session, stored, turn>>
    BY DEF Inject, Goto
<1>3. ~plan.cloud => conversation' = session /\ h = stored[session]
    BY <1>1, <1>2 DEF Counting
<1>4. h \in Seq(Messages)
    BY <1>3 DEF ShapeInv, TypeOK
<1>5. ~plan.cloud /\ h = <<>> => count = 0
    BY <1>1, <1>3 DEF Counting
<1> HIDE DEF h
<1>6. Replayed(h) \in Seq(Messages) /\ count' = Len(Replayed(h))
    BY <1>2, <1>4, <1>5, ReplayedIs, NothingReplayed
<1>7. messages[c] \in Fresh(c) /\ messages[c] \in Seq(Messages)
    BY <1>1, <1>2 DEF Asking, ShapeInv
<1>8. stage'[c] = "sent" /\ messages'[c] = Replayed(h) \o messages[c]
    BY <1>2 DEF ShapeInv, TypeOK
<1>9. SubSeq(messages'[c], count' + 1, Len(messages'[c])) = messages[c]
    BY <1>6, <1>7, <1>8
<1>10. Asking(c)'
    BY <1>7, <1>8, <1>9 DEF Asking, Fresh
<1>11. Alone' /\ \A d \in Calls : Asking(d)'
    BY <1>1, <1>2, <1>10, OneMoves DEF Running
<1>12. Counting'
    <2> SUFFICES ASSUME ~plan.cloud PROVE conversation' = session /\ (count' # 0 => stored[session] # <<>>)
        BY <1>2 DEF Counting
    <2> QED
        BY <1>2, <1>3, <1>5
<1> QED
    BY <1>11, <1>12 DEF QuietInv

LEMMA FormatKeepsQuiet ==
    ASSUME ShapeInv, QuietInv, NEW c \in Calls, Quiet, Quiet', Format(c)
    PROVE  QuietInv'
<1>1. Alone /\ Counting /\ \A d \in Calls : Asking(d)
    BY DEF QuietInv
<1> DEFINE kept == Only(Own(c), {m \in Messages : m.part # "system"})
           t == [session |-> session, messages |-> kept \o <<Answer(c)>>]
<1>2. /\ stage[c] = "answered" /\ stage' = [stage EXCEPT ![c] = "storing"]
      /\ turn' = [turn EXCEPT ![c] = t]
      /\ UNCHANGED <<plan, count, session, conversation, stored, messages>>
    BY DEF Format, Goto
<1>3. t.messages = kept \o <<Answer(c)>>
    OBVIOUS
<1>4. stage'[c] = "storing" /\ turn'[c] = t /\ \A d \in Calls \ {c} : turn'[d] = turn[d]
    BY <1>2 DEF ShapeInv, TypeOK
<1>5. plan.style # "instructed" => kept = <<Question(c)>>
    BY <1>1, <1>2, FreshIsSpoken DEF Own, Asking
<1>6. Answer(c)' = Answer(c)
    BY <1>2 DEF Answer
<1> HIDE DEF t, kept
<1>7. <<Question(c)>> \o <<Answer(c)>> = <<Question(c), Answer(c)>>
    BY PairOf
<1>8. Asking(c)'
    BY <1>2, <1>3, <1>4, <1>5, <1>6, <1>7 DEF Asking, Question
<1>9. Alone' /\ \A d \in Calls : Asking(d)'
    BY <1>1, <1>2, <1>4, <1>8, OneMoves DEF Running
<1>10. Counting'
    BY <1>1, <1>2 DEF Counting
<1> QED
    BY <1>9, <1>10 DEF QuietInv

LEMMA DeliveryKeepsQuiet ==
    ASSUME ShapeInv, QuietInv, NEW c \in Calls, Quiet, Quiet',
           \/ Store(c) \/ PostAccepted(c) \/ PostRaises(c) \/ PostRefused(c)
           \/ Copy(c) \/ CopyRaises(c)
    PROVE  QuietInv'
<1>1. Alone /\ Counting /\ \A d \in Calls : Asking(d)
    BY DEF QuietInv
<1>2. UNCHANGED <<plan, count, session, messages, turn>> /\ stage[c] \in {"storing", "copying"}
    BY DEF Store, PostAccepted, PostRaises, PostRefused, Copy, CopyRaises
<1>3. PICK s \in {"storing", "copying", "learning", "done", "failed"} :
           stage' = [stage EXCEPT ![c] = s]
    BY DEF Store, PostAccepted, PostRaises, PostRefused, Copy, CopyRaises, Goto, Again, AfterStore
<1>4. stage'[c] = s
    BY <1>3 DEF ShapeInv, TypeOK
<1>5. Asking(c)'
    BY <1>1, <1>2, <1>3, <1>4 DEF Asking, Answer
<1>6. Alone' /\ \A d \in Calls : Asking(d)'
    BY <1>1, <1>2, <1>3, <1>5, OneMoves DEF Running
<1>7. Counting'
    <2> SUFFICES ASSUME ~plan.cloud
                 PROVE  conversation' = session /\ (count # 0 => stored'[session] # <<>>)
        BY <1>2 DEF Counting
    <2>1. /\ conversation' = IF conversation = 0 THEN session ELSE conversation
          /\ stored' = [stored EXCEPT ![conversation'] = stored[conversation'] \o turn[c].messages]
        BY DEF Store, PostAccepted, PostRaises, PostRefused, Copy, CopyRaises, ShapeInv
    <2>2. conversation' = session /\ (count # 0 => stored[session] # <<>>)
        BY <1>1, <2>1 DEF Counting
    <2>3. /\ stored[session] \in Seq(Messages) /\ turn[c].messages \in Seq(Messages)
          /\ stored'[session] = stored[session] \o turn[c].messages
        BY <2>1, <2>2 DEF ShapeInv, TypeOK, Turn
    <2>4. stored'[session] = <<>> => stored[session] = <<>>
        BY <2>3, ConcatEqualIffEmpty
    <2> QED
        BY <2>2, <2>4
<1> QED
    BY <1>6, <1>7 DEF QuietInv

LEMMA QuietStep == ShapeInv /\ QuietInv /\ [Next]_vars => QuietInv'
<1> SUFFICES ASSUME ShapeInv, QuietInv, [Next]_vars, Quiet' PROVE QuietInv'
    BY DEF QuietInv
<1>1. CASE UNCHANGED vars
    BY <1>1 DEF vars, QuietInv, Quiet, Alone, Running, Counting, Asking, Fresh, Answer
<1>2. CASE NewSession
    <2>1. /\ UNCHANGED <<plan, count, stage, messages, turn>> /\ conversation' = 0
          /\ disturbed' = (disturbed \/ count # 0 \/ background # {} \/ \E c \in Calls : Running(c))
        BY <1>2 DEF NewSession
    <2>2. Alone /\ Counting /\ \A d \in Calls : Asking(d)
        BY <1>2, QuietBefore DEF Next, QuietInv
    <2>3. Counting'
        BY <2>1 DEF Counting, Quiet
    <2> QED
        BY <2>1, <2>2, <2>3 DEF QuietInv, Alone, Running, Asking, Fresh, Answer
<1>3. ASSUME NEW c \in Calls, Begin(c) \/ Step(c) \/ RunInBackground(c) PROVE QuietInv'
    <2>1. Quiet
        BY <1>3, QuietBefore DEF Next
    <2>2. CASE RunInBackground(c)
        BY <2>1, <2>2
        DEF RunInBackground, QuietInv, Quiet, Alone, Running, Counting, Asking, Fresh, Answer
    <2> QED
        BY <1>3, <2>1, <2>2, BeginKeepsQuiet, MovesKeepQuiet, InjectKeepsQuiet, FormatKeepsQuiet,
           DeliveryKeepsQuiet DEF Step
<1> QED
    BY <1>1, <1>2, <1>3 DEF Next

LEMMA QuietInit == Init => QuietInv
BY DEF Init, QuietInv, Quiet, Alone, Running, Counting, Asking

-----------------------------------------------------------------------------
(* The turns stay where they were stored.                                  *)

LEMMA HoldsGrow ==
    ASSUME NEW S, NEW m \in Seq(S), NEW t \in Seq(S), NEW x
    PROVE  /\ x \in In(m) \cup In(t) <=> x \in In(m \o t)
           /\ \A i \in DOMAIN m : i \in DOMAIN (m \o t) /\ (m \o t)[i] = m[i]
           /\ \A i \in DOMAIN t :
                 Len(m) + i \in DOMAIN (m \o t) /\ (m \o t)[Len(m) + i] = t[i]
<1>1. /\ DOMAIN m = 1 .. Len(m) /\ DOMAIN t = 1 .. Len(t)
      /\ DOMAIN (m \o t) = 1 .. (Len(m) + Len(t)) /\ Len(m) \in Nat /\ Len(t) \in Nat
      /\ \A i \in 1 .. Len(m) + Len(t) : (m \o t)[i] =
            IF i <= Len(m) THEN m[i] ELSE t[i - Len(m)]
    BY ConcatProperties, LenProperties
<1>2. \A i \in DOMAIN m : i \in DOMAIN (m \o t) /\ (m \o t)[i] = m[i]
    BY <1>1
<1>3. ASSUME NEW i \in DOMAIN t
      PROVE  Len(m) + i \in DOMAIN (m \o t) /\ (m \o t)[Len(m) + i] = t[i]
    <2>1. i \in Nat /\ i >= 1 /\ Len(m) + i \in 1 .. Len(m) + Len(t) /\ ~(Len(m) + i <= Len(m))
          /\ (Len(m) + i) - Len(m) = i
        BY <1>1
    <2> QED
        BY <1>1, <2>1
<1>4. \A i \in DOMAIN (m \o t) :
         i \in DOMAIN m \/ (i - Len(m) \in DOMAIN t /\ (m \o t)[i] = t[i - Len(m)])
    BY <1>1
<1>5. x \in In(m) \cup In(t) <=> x \in In(m \o t)
    <2>1. ASSUME x \in In(m) \cup In(t) PROVE x \in In(m \o t)
        BY <1>2, <1>3, <2>1 DEF In
    <2>2. ASSUME x \in In(m \o t) PROVE x \in In(m) \cup In(t)
        BY <1>2, <1>4, <2>2 DEF In
    <2> QED
        BY <2>1, <2>2
<1> QED
    BY <1>2, <1>3, <1>5

\* A turn put behind a dialogue, of a call that has not been stored yet.
LEMMA DialogueGrows ==
    ASSUME NEW m \in Seq(Messages), IsDialogue(m), NEW c \in Calls,
           \A i \in DOMAIN m : m[i].call # c
    PROVE  IsDialogue(m \o <<Question(c), Answer(c)>>)
<1> DEFINE p == <<Question(c), Answer(c)>>
           t == m \o p
<1>1. /\ p \in Seq(Messages) /\ Len(p) = 2 /\ p[1] = Question(c) /\ p[2] = Answer(c)
    <2>1. \A x, y \in Messages : /\ <<x, y>> \in Seq(Messages) /\ Len(<<x, y>>) = 2
                                 /\ <<x, y>>[1] = x /\ <<x, y>>[2] = y
        OBVIOUS
    <2> QED
        BY <2>1, MessagesAre
<1>2. /\ p[1].call = c /\ p[2].call = c /\ p[1] # p[2]
    BY <1>1 DEF Question, Answer
<1> HIDE DEF p
<1>3. /\ Len(m) \in Nat /\ DOMAIN m = 1 .. Len(m) /\ DOMAIN t = 1 .. Len(m) + 2 /\ Len(t) = Len(m) + 2
      /\ \A i \in 1 .. Len(m) : t[i] = m[i]
      /\ t[Len(m) + 1] = p[1] /\ t[Len(m) + 2] = p[2]
    <2>1. /\ t \in Seq(Messages) /\ Len(t) = Len(m) + 2 /\ Len(m) \in Nat
          /\ DOMAIN m = 1 .. Len(m) /\ DOMAIN p = 1 .. 2
        <3>1. Len(m) \in Nat /\ DOMAIN m = 1 .. Len(m) /\ DOMAIN p = 1 .. 2
            BY <1>1, LenProperties
        <3>2. t \in Seq(Messages) /\ Len(t) = Len(m) + Len(p)
            BY <1>1, ConcatProperties
        <3> QED
            BY <1>1, <3>1, <3>2
    <2>2. /\ \A i \in DOMAIN m : t[i] = m[i]
          /\ \A i \in DOMAIN p : t[Len(m) + i] = p[i]
        BY <1>1, HoldsGrow
    <2>3. DOMAIN t = 1 .. Len(t)
        BY <2>1
    <2> QED
        BY <2>1, <2>2, <2>3
<1> HIDE DEF t
<1>4. Len(m) % 2 = 0
    BY DEF IsDialogue
<1>5. Len(t) % 2 = 0
    BY <1>3, <1>4
<1>6. ASSUME NEW i \in DOMAIN t, i % 2 = 1
      PROVE  t[i] = Question(t[i].call) /\ t[i + 1] = Answer(t[i].call)
    <2>1. (i \in 1 .. Len(m) /\ i + 1 \in 1 .. Len(m)) \/ i = Len(m) + 1
        BY <1>3, <1>4, <1>6
    <2>2. CASE i \in 1 .. Len(m) /\ i + 1 \in 1 .. Len(m)
        BY <1>3, <1>6, <2>2 DEF IsDialogue
    <2>3. CASE i = Len(m) + 1
        <3>1. i + 1 = Len(m) + 2
            BY <1>3, <2>3
        <3> QED
            BY <1>1, <1>2, <1>3, <2>3, <3>1
    <2> QED
        BY <2>1, <2>2, <2>3
<1>7. ASSUME NEW i \in DOMAIN t, NEW j \in DOMAIN t, t[i] = t[j]
      PROVE  i = j
    <2>1. \A k \in DOMAIN t : k \in 1 .. Len(m) \/ k = Len(m) + 1 \/ k = Len(m) + 2
        BY <1>3
    <2>2. \A k \in 1 .. Len(m) : t[k].call # c
        BY <1>3
    <2>3. i \in 1 .. Len(m) /\ j \in 1 .. Len(m) => i = j
        BY <1>3, <1>7 DEF IsDialogue
    <2> QED
        BY <1>2, <1>3, <1>7, <2>1, <2>2, <2>3
<1> QED
    BY <1>5, <1>6, <1>7 DEF IsDialogue, t, p

\* A call whose turn is not stored moves on, and nothing is stored.
LEMMA MovesKeepOwn ==
    ASSUME ShapeInv, OwnInv, NEW c \in Calls, NEW s, stage' = [stage EXCEPT ![c] = s],
           s \notin {"learning", "done"}, stage[c] \notin {"learning", "done"},
           UNCHANGED <<plan, stored, background, learned>>,
           conversation' = conversation \/ conversation = 0, disturbed => disturbed'
    PROVE  OwnInv'
<1> SUFFICES ASSUME ~plan.cloud PROVE OwnInv'
    BY DEF OwnInv
<1>1. stage'[c] = s /\ \A d \in Calls \ {c} : stage'[d] = stage[d]
    BY DEF ShapeInv, TypeOK
<1>2. \A d \in Calls : stage'[d] \in {"learning", "done"} <=> stage[d] \in {"learning", "done"}
    BY <1>1
<1>3. \A r \in Sessions, d \in Calls : Holds(r, d)' <=> Holds(r, d)
    BY DEF Holds
<1>4. \A d \in Calls : stage'[d] \in {"learning", "done"} => \E r \in Sessions : Holds(r, d)'
    BY <1>2, <1>3 DEF OwnInv
<1>5. ASSUME ~disturbed'
      PROVE  /\ \A d \in Calls : Learning(d)' => conversation' # 0 /\ Holds(conversation, d)'
             /\ \A l \in learned' : l.conversation # 0 /\ Holds(l.conversation, l.call)'
             /\ plan'.style # "instructed" =>
                   \A r \in Sessions :
                       /\ IsDialogue(stored[r])'
                       /\ \A d \in Calls : Holds(r, d)' => stage'[d] \in {"learning", "done"}
    <2>1. ~disturbed
        BY <1>5
    <2>2. \A d \in Calls : Learning(d)' => Learning(d)
        BY <1>2, <1>1 DEF Learning
    <2>3. \A d \in Calls : Learning(d)' => conversation' # 0 /\ Holds(conversation, d)'
        BY <2>1, <2>2 DEF OwnInv, Holds
    <2>4. \A l \in learned' : l.conversation # 0 /\ Holds(l.conversation, l.call)'
        BY <2>1 DEF OwnInv, Holds
    <2>5. \A r \in Sessions : IsDialogue(stored[r])' <=> IsDialogue(stored[r])
        BY DEF IsDialogue, Question, Answer
    <2>6. plan'.style # "instructed" =>
             \A r \in Sessions :
                 /\ IsDialogue(stored[r])'
                 /\ \A d \in Calls : Holds(r, d)' => stage'[d] \in {"learning", "done"}
        BY <1>2, <1>3, <2>1, <2>5 DEF OwnInv
    <2> QED
        BY <2>3, <2>4, <2>6
<1> QED
    BY <1>4, <1>5 DEF OwnInv

\* What is stored of the turn that is stored.
LEMMA TurnIs ==
    ASSUME ShapeInv, NEW c \in Calls, stage[c] \in {"storing", "copying"}
    PROVE  /\ turn[c].messages \in Seq(Messages)
           /\ Len(turn[c].messages) \in DOMAIN turn[c].messages
           /\ turn[c].messages[Len(turn[c].messages)] = Answer(c)
           /\ Answer(c) \in In(turn[c].messages)
<1>1. turn[c].messages \in Seq(Messages)
    BY DEF ShapeInv, Turn
<1>2. /\ Len(turn[c].messages) > 0
      /\ turn[c].messages[Len(turn[c].messages)] = Answer(c)
    BY DEF ShapeInv
<1>3. Len(turn[c].messages) \in DOMAIN turn[c].messages
    BY <1>1, <1>2
<1> QED
    BY <1>1, <1>2, <1>3 DEF In

\* A conversation holds a call when it holds a message of it.
LEMMA HoldsIs ==
    ASSUME NEW s, NEW c
    PROVE  Holds(s, c) <=> \E m \in In(stored[s]) : m.call = c
BY DEF Holds, In

\* A dialogue is one in the next state, too.
LEMMA DialogueKept ==
    ASSUME plan' = plan, NEW r, NEW m, m = stored'[r], IsDialogue(m)
    PROVE  IsDialogue(stored[r])'
<1>1. \A x : Answer(x)' = Answer(x)
    BY DEF Answer
<1>2. /\ Len(m) % 2 = 0
      /\ \A i \in DOMAIN m : i % 2 = 1 => m[i] = Question(m[i].call) /\ m[i + 1] = Answer(m[i].call)
      /\ \A i, j \in DOMAIN m : m[i] = m[j] => i = j
    BY DEF IsDialogue
<1>3. \A i \in DOMAIN m : i % 2 = 1 => m[i + 1] = Answer(m[i].call)'
    BY <1>1, <1>2
<1> QED
    BY <1>2, <1>3 DEF IsDialogue, Question

LEMMA StoreKeepsOwn ==
    ASSUME ShapeInv, QuietInv, OwnInv, NEW c \in Calls, Store(c)
    PROVE  OwnInv'
<1> DEFINE t == turn[c].messages
           done == AfterStore(c)
<1>1. /\ ~plan.cloud /\ stage[c] = "storing" /\ stage' = [stage EXCEPT ![c] = done]
      /\ conversation' = IF conversation = 0 THEN session ELSE conversation
      /\ stored' = [stored EXCEPT ![conversation'] = stored[conversation'] \o t]
      /\ UNCHANGED <<plan, session, background, learned, disturbed>>
    BY DEF Store, Goto
<1>2. done \in {"learning", "done"}
    BY DEF AfterStore
<1>3. t \in Seq(Messages) /\ Answer(c) \in In(t)
    BY <1>1, TurnIs
<1> HIDE DEF t, done
<1>4. stage'[c] = done /\ \A d \in Calls \ {c} : stage'[d] = stage[d]
    BY <1>1 DEF ShapeInv, TypeOK
<1>5. PICK k \in Sessions : k = conversation' /\ k # 0
    BY <1>1, InvocationAssumption DEF ShapeInv, TypeOK, Sessions
<1>6. /\ stored'[k] = stored[k] \o t /\ stored[k] \in Seq(Messages)
      /\ \A r \in Sessions \ {k} : stored'[r] = stored[r]
    BY <1>1, <1>5 DEF ShapeInv
<1>7. In(stored'[k]) = In(stored[k]) \cup In(t)
    BY <1>3, <1>6, HoldsGrow
<1>8. \A r \in Sessions : \A d : Holds(r, d) => Holds(r, d)'
    BY <1>6, <1>7, HoldsIs DEF Holds, In
<1>9. Holds(k, c)'
    <2>1. Answer(c).call = c
        BY DEF Answer
    <2> QED
        BY <1>3, <1>7, <2>1 DEF Holds, In
<1>10. ASSUME NEW d \in Calls, stage'[d] \in {"learning", "done"}
       PROVE  \E r \in Sessions : Holds(r, d)'
    BY <1>1, <1>4, <1>8, <1>9, <1>10 DEF OwnInv
<1>11. ASSUME ~disturbed', NEW d \in Calls, Learning(d)'
       PROVE  conversation' # 0 /\ Holds(conversation, d)'
    <2>1. CASE d = c
        BY <1>5, <1>9, <2>1 DEF Holds
    <2>2. CASE d # c
        <3>1. Learning(d)
            BY <1>1, <1>4, <1>11, <2>2 DEF Learning
        <3>2. conversation # 0 /\ Holds(conversation, d)
            BY <1>1, <1>11, <3>1 DEF OwnInv
        <3>3. conversation = k
            BY <1>1, <1>5, <3>2
        <3>4. Holds(k, d)'
            BY <1>8, <3>2, <3>3
        <3> QED
            BY <1>5, <3>4 DEF Holds
    <2> QED
        BY <2>1, <2>2
<1>12. ASSUME ~disturbed', NEW l \in learned'
       PROVE  l.conversation # 0 /\ Holds(l.conversation, l.call)'
    <2>1. l \in learned /\ l.conversation # 0 /\ Holds(l.conversation, l.call)
        BY <1>1, <1>12 DEF OwnInv
    <2>2. l.conversation \in Sessions
        BY <2>1, InvocationAssumption DEF ShapeInv, Sessions
    <2> QED
        BY <1>8, <2>1, <2>2
<1>13. ASSUME ~disturbed', plan'.style # "instructed", NEW r \in Sessions
       PROVE  /\ IsDialogue(stored[r])'
              /\ \A d \in Calls : Holds(r, d)' => stage'[d] \in {"learning", "done"}
    <2>1. ~disturbed /\ plan.style # "instructed"
        BY <1>1, <1>13
    <2>2. /\ IsDialogue(stored[r])
          /\ \A d \in Calls : Holds(r, d) => stage[d] \in {"learning", "done"}
        BY <1>1, <2>1 DEF OwnInv
    <2>4. CASE r # k
        <3>1. stored'[r] = stored[r]
            BY <1>6, <2>4
        <3>2. IsDialogue(stored[r])'
            BY <1>1, <2>2, <3>1 DEF IsDialogue, Question, Answer
        <3>3. \A d \in Calls : Holds(r, d)' => stage'[d] \in {"learning", "done"}
            BY <1>2, <1>4, <2>2, <3>1 DEF Holds
        <3> QED
            BY <3>2, <3>3
    <2>5. CASE r = k
        <3>1. t = <<Question(c), Answer(c)>>
            BY <1>1, <2>1 DEF QuietInv, Quiet, Asking, t
        <3>2. ~Holds(k, c)
            BY <1>1, <2>2, <2>5
        <3>3. IsDialogue(stored[k] \o <<Question(c), Answer(c)>>)
            <4>1. \A i \in DOMAIN stored[k] : stored[k][i].call # c
                BY <3>2 DEF Holds
            <4> QED
                BY <1>6, <2>2, <2>5, <4>1, DialogueGrows
        <3>4. IsDialogue(stored[r])'
            <4>1. PICK m : m = stored'[r] /\ IsDialogue(m)
                BY <1>6, <2>5, <3>1, <3>3
            <4> QED
                BY <1>1, <4>1, DialogueKept
        <3>5. \A d \in Calls : Holds(r, d)' => Holds(r, d) \/ d = c
            <4>1. \A m \in In(t) : m.call = c
                <5>1. \A x, y : In(<<x, y>>) = {x, y}
                    BY DEF In
                <5> QED
                    BY <3>1, <5>1 DEF Question, Answer
            <4> QED
                BY <1>7, <2>5, <4>1 DEF Holds, In
        <3> QED
            BY <1>2, <1>4, <2>2, <3>4, <3>5
    <2> QED
        BY <2>4, <2>5
<1> QED
    BY <1>10, <1>11, <1>12, <1>13 DEF OwnInv

\* What was stored is learned: at once, or later.
LEMMA LearningKeepsOwn ==
    ASSUME ShapeInv, OwnInv, NEW c \in Calls, Learn(c) \/ RunInBackground(c)
    PROVE  OwnInv'
<1> SUFFICES ASSUME ~plan.cloud PROVE OwnInv'
    BY DEF OwnInv, Learn, RunInBackground
<1>1. UNCHANGED <<plan, session, conversation, stored, disturbed>> /\ Learning(c)
    BY DEF Learn, RunInBackground, Learning
<1>2. \A d \in Calls : stage'[d] \in {"learning", "done"} <=> stage[d] \in {"learning", "done"}
    BY DEF Learn, RunInBackground, Goto, ShapeInv, TypeOK
<1>3. \A d \in Calls : Learning(d)' => Learning(d)
    <2>1. stage' = [stage EXCEPT ![c] = "done"] \/ stage' = stage
        BY DEF Learn, RunInBackground, Goto
    <2>2. \A d \in Calls : stage'[d] = "learning" => stage[d] = "learning"
        BY <2>1 DEF ShapeInv, TypeOK
    <2>3. background' \subseteq background \cup {c}
        BY DEF Learn, RunInBackground
    <2> QED
        BY <1>1, <2>2, <2>3 DEF Learning
<1>4. learned' \subseteq learned \cup {[call |-> c, conversation |-> conversation]}
    BY DEF Learn, RunInBackground, Submitted
<1>5. \A r, d : Holds(r, d)' <=> Holds(r, d)
    BY <1>1 DEF Holds
<1>6. \A d \in Calls : stage'[d] \in {"learning", "done"} => \E r \in Sessions : Holds(r, d)'
    BY <1>2, <1>5 DEF OwnInv
<1>7. ASSUME ~disturbed'
      PROVE  /\ \A d \in Calls : Learning(d)' => conversation' # 0 /\ Holds(conversation, d)'
             /\ \A l \in learned' : l.conversation # 0 /\ Holds(l.conversation, l.call)'
             /\ plan'.style # "instructed" =>
                   \A r \in Sessions :
                       /\ IsDialogue(stored[r])'
                       /\ \A d \in Calls : Holds(r, d)' => stage'[d] \in {"learning", "done"}
    <2>1. ~disturbed
        BY <1>1, <1>7
    <2>2. \A d \in Calls : Learning(d) => conversation # 0 /\ Holds(conversation, d)
        BY <2>1 DEF OwnInv
    <2>3. \A d \in Calls : Learning(d)' => conversation' # 0 /\ Holds(conversation, d)'
        BY <1>1, <1>3, <2>2 DEF Holds
    <2>4. ASSUME NEW l \in learned' PROVE l.conversation # 0 /\ Holds(l.conversation, l.call)'
        <3>1. CASE l \in learned
            BY <1>5, <2>1, <3>1 DEF OwnInv
        <3>2. CASE l = [call |-> c, conversation |-> conversation]
            BY <1>1, <1>5, <2>2, <3>2
        <3> QED
            BY <1>4, <2>4, <3>1, <3>2
    <2>5. \A r \in Sessions : IsDialogue(stored[r])' <=> IsDialogue(stored[r])
        BY <1>1 DEF IsDialogue, Question, Answer
    <2>6. plan'.style # "instructed" =>
             \A r \in Sessions :
                 /\ IsDialogue(stored[r])'
                 /\ \A d \in Calls : Holds(r, d)' => stage'[d] \in {"learning", "done"}
        BY <1>1, <1>2, <1>5, <2>1, <2>5 DEF OwnInv
    <2> QED
        BY <2>3, <2>4, <2>6
<1> QED
    BY <1>6, <1>7 DEF OwnInv

LEMMA NewSessionKeepsOwn ==
    ASSUME ShapeInv, OwnInv, NewSession
    PROVE  OwnInv'
<1> SUFFICES ASSUME ~plan.cloud PROVE OwnInv'
    BY DEF OwnInv, NewSession
<1>1. /\ UNCHANGED <<plan, stored, stage, background, learned>>
      /\ disturbed' = (disturbed \/ count # 0 \/ background # {} \/ \E c \in Calls : Running(c))
    BY DEF NewSession
<1>2. \A r \in Sessions : IsDialogue(stored[r])' <=> IsDialogue(stored[r])
    BY <1>1 DEF IsDialogue, Question, Answer
<1>3. ~disturbed' => ~disturbed /\ \A d \in Calls : ~Learning(d)'
    BY <1>1 DEF Learning, Running
<1> QED
    BY <1>1, <1>2, <1>3 DEF OwnInv, Holds

LEMMA OwnStep == ShapeInv /\ QuietInv /\ OwnInv /\ [Next]_vars => OwnInv'
<1> SUFFICES ASSUME ShapeInv, QuietInv, OwnInv, [Next]_vars PROVE OwnInv'
    OBVIOUS
<1>1. CASE UNCHANGED vars
    <2>1. \A r \in Sessions : IsDialogue(stored[r])' <=> IsDialogue(stored[r])
        BY <1>1 DEF vars, IsDialogue, Question, Answer
    <2> QED
        BY <1>1, <2>1 DEF vars, OwnInv, Learning, Holds
<1>2. CASE NewSession
    BY <1>2, NewSessionKeepsOwn
<1>3. ASSUME NEW c \in Calls, Begin(c) \/ Step(c) \/ RunInBackground(c) PROVE OwnInv'
    <2>1. CASE \/ Begin(c) \/ CloudRecall(c) \/ Inject(c) \/ Fails(c)
               \/ Respond(c) \/ Exhaust(c) \/ Abandon(c) \/ Format(c)
        <3>1. \E s : stage' = [stage EXCEPT ![c] = s] /\ s \notin {"learning", "done"}
            BY <2>1
            DEF Begin, CloudRecall, Inject, Fails, Respond, Exhaust, Abandon, Format, Goto
        <3>2. /\ stage[c] \notin {"learning", "done"}
              /\ UNCHANGED <<plan, stored, background, learned>>
            BY <2>1
            DEF Begin, CloudRecall, Inject, Fails, Respond, Exhaust, Abandon, Format
        <3>4. disturbed => disturbed'
            <4>1. disturbed' = (disturbed \/ \E d \in Calls : Running(d)) \/ disturbed' = disturbed
                BY <2>1
                DEF Begin, CloudRecall, Inject, Fails, Respond, Exhaust, Abandon, Format
            <4> QED
                BY <4>1, Zenon
        <3>3. conversation' = conversation \/ conversation = 0
            BY <2>1
            DEF Begin, CloudRecall, Inject, Fails, Respond, Exhaust, Abandon, Format
        <3> QED
            BY <3>1, <3>2, <3>3, <3>4, MovesKeepOwn
    <2>2. CASE Store(c)
        BY <2>2, StoreKeepsOwn
    <2>3. CASE PostAccepted(c) \/ PostRaises(c) \/ PostRefused(c) \/ Copy(c) \/ CopyRaises(c)
        BY <2>3 DEF PostAccepted, PostRaises, PostRefused, Copy, CopyRaises, ShapeInv, OwnInv
    <2>4. CASE Learn(c) \/ RunInBackground(c)
        BY <2>4, LearningKeepsOwn
    <2> QED
        BY <1>3, <2>1, <2>2, <2>3, <2>4 DEF Step
<1> QED
    BY <1>1, <1>2, <1>3 DEF Next

-----------------------------------------------------------------------------
(* The turns reach the cloud.                                              *)

\* An accepted turn: the others are what they were.
LEMMA AcceptAdds ==
    ASSUME ShapeInv, NEW c \in Calls, Accept(c), plan' = plan
    PROVE  /\ accepted' \in Seq(Turn)
           /\ \A i \in DOMAIN accepted' :
                 \/ i \in DOMAIN accepted /\ accepted'[i] = accepted[i]
                 \/ i = Len(accepted) + 1 /\ accepted'[i] = turn[c]
           /\ \A d \in Calls : /\ Posts(d) \subseteq Posts(d)'
                               /\ Posts(d)' \subseteq Posts(d) \cup {Len(accepted) + 1}
                               /\ Len(accepted) + 1 \notin Posts(d)
                               /\ Len(accepted) + 1 \in Posts(d)' <=> Answer(d) \in In(turn[c].messages)
<1> DEFINE n == Len(accepted) + 1
<1>1. accepted' = Append(accepted, turn[c]) /\ accepted \in Seq(Turn) /\ turn[c] \in Turn
    BY DEF Accept, ShapeInv
<1>2. /\ accepted' \in Seq(Turn) /\ n \notin DOMAIN accepted
      /\ DOMAIN accepted' = DOMAIN accepted \cup {n}
      /\ accepted'[n] = turn[c] /\ \A i \in DOMAIN accepted : accepted'[i] = accepted[i]
    BY <1>1
<1> HIDE DEF n
<1>3. ASSUME NEW d \in Calls
      PROVE  /\ Posts(d) \subseteq Posts(d)' /\ Posts(d)' \subseteq Posts(d) \cup {n}
             /\ n \notin Posts(d)
             /\ n \in Posts(d)' <=> Answer(d) \in In(turn[c].messages)
    <2>1. Answer(d)' = Answer(d)
        BY DEF Answer
    <2> QED
        BY <1>2, <2>1 DEF Posts, Range, In
<1> QED
    BY <1>2, <1>3 DEF n

\* Something is put behind a conversation.
LEMMA CopiesGrow ==
    ASSUME plan' = plan, NEW s, NEW t \in Seq(Messages),
           stored[s] \in Seq(Messages), stored'[s] = stored[s] \o t, NEW d \in Calls
    PROVE  /\ Copies(s, d) \subseteq Copies(s, d)'
           /\ Answer(d) \in In(t) => Copies(s, d)' # {}
           /\ \A i \in Copies(s, d)' \ Copies(s, d) :
                 \E j \in DOMAIN t : i = Len(stored[s]) + j /\ t[j] = Answer(d)
<1>1. Answer(d)' = Answer(d)
    BY DEF Answer
<1>2. /\ \A i \in DOMAIN stored[s] : i \in DOMAIN stored'[s] /\ stored'[s][i] = stored[s][i]
      /\ \A i \in DOMAIN t :
            Len(stored[s]) + i \in DOMAIN stored'[s] /\ stored'[s][Len(stored[s]) + i] = t[i]
    BY HoldsGrow
<1>3. /\ DOMAIN stored'[s] = 1 .. Len(stored[s]) + Len(t)
      /\ DOMAIN stored[s] = 1 .. Len(stored[s]) /\ DOMAIN t = 1 .. Len(t)
      /\ Len(stored[s]) \in Nat /\ Len(t) \in Nat
    BY ConcatProperties, LenProperties
<1>4. ASSUME NEW i \in DOMAIN stored'[s]
      PROVE  i \in DOMAIN stored[s] \/ \E j \in DOMAIN t : i = Len(stored[s]) + j
    <2>1. i \in DOMAIN stored[s] \/ i - Len(stored[s]) \in DOMAIN t
        BY <1>3, <1>4
    <2>2. i = Len(stored[s]) + (i - Len(stored[s]))
        BY <1>3, <1>4
    <2> QED
        BY <2>1, <2>2
<1>5. Copies(s, d) \subseteq Copies(s, d)'
    BY <1>1, <1>2 DEF Copies
<1>6. Answer(d) \in In(t) => Copies(s, d)' # {}
    BY <1>1, <1>2 DEF Copies, In
<1>7. ASSUME NEW i \in Copies(s, d)' \ Copies(s, d)
      PROVE  \E j \in DOMAIN t : i = Len(stored[s]) + j /\ t[j] = Answer(d)
    BY <1>1, <1>2, <1>4, <1>7 DEF Copies
<1> QED
    BY <1>5, <1>6, <1>7

\* What a copy adds to a conversation.
LEMMA CopyAdds ==
    ASSUME ShapeInv, NEW c \in Calls, Copy(c)
    PROVE  \E k \in Sessions :
              /\ k = conversation'
              /\ \A s \in Sessions :
                    LET t == left[s] \o (IF s = k THEN turn[c].messages ELSE <<>>)
                    IN  t \in Seq(Messages) /\ stored'[s] = stored[s] \o t
<1>1. PICK k \in Sessions : k = conversation'
    BY InvocationAssumption DEF Copy, ShapeInv, TypeOK, Sessions
<1> DEFINE new(s) == IF s = k THEN turn[c].messages ELSE <<>>
<1>2. \A s \in Sessions : new(s) \in Seq(Messages)
    <2>1. turn[c].messages \in Seq(Messages) /\ <<>> \in Seq(Messages)
        BY DEF ShapeInv, Turn
    <2> QED
        BY <2>1
<1>3. \A s \in Sessions : stored'[s] = stored[s] \o left[s] \o new(s)
    BY <1>1 DEF Copy
<1> HIDE DEF new
<1>4. ASSUME NEW s \in Sessions
      PROVE  left[s] \o new(s) \in Seq(Messages) /\ stored'[s] = stored[s] \o (left[s] \o new(s))
    <2>1. stored[s] \in Seq(Messages) /\ left[s] \in Seq(Messages) /\ new(s) \in Seq(Messages)
        BY <1>2 DEF ShapeInv
    <2>2. (stored[s] \o left[s]) \o new(s) = stored[s] \o (left[s] \o new(s))
        <3>1. \A p, q, r \in Seq(Messages) : (p \o q) \o r = p \o (q \o r)
            BY Behind
        <3> QED
            BY <2>1, <3>1, Zenon
    <2>3. left[s] \o new(s) \in Seq(Messages)
        BY <2>1, ConcatProperties
    <2> QED
        BY <1>3, <2>2, <2>3
<1> QED
    BY <1>1, <1>4 DEF new

LEMMA ToldStep == ShapeInv /\ ToldInv /\ [Next]_vars => ToldInv'
<1> SUFFICES ASSUME ShapeInv, ToldInv, [Next]_vars, plan.cloud, plan' = plan PROVE ToldInv'
    BY PlanStays DEF ToldInv
<1>1. \A d \in Calls :
          /\ stage[d] \in {"copying", "learning", "done"} => Posts(d) # {}
          /\ stage[d] \in {"learning", "done"} /\ plan.local =>
                \E s \in Sessions : Copies(s, d) # {}
    BY DEF ToldInv
<1>2. \A d \in Calls : Answer(d)' = Answer(d)
    BY DEF Answer
<1>3. CASE UNCHANGED vars \/ NewSession
    BY <1>1, <1>2, <1>3 DEF vars, NewSession, ToldInv, Posts, Copies
<1>4. ASSUME NEW c \in Calls, Begin(c) \/ Step(c) \/ RunInBackground(c) PROVE ToldInv'
    <2>1. CASE \/ Begin(c) \/ CloudRecall(c) \/ Inject(c) \/ Fails(c) \/ Respond(c) \/ Exhaust(c)
               \/ Abandon(c) \/ Format(c) \/ PostRefused(c) \/ Learn(c) \/ RunInBackground(c)
        <3>1. UNCHANGED <<accepted, stored>>
            BY <2>1
            DEF Begin, CloudRecall, Inject, Fails, Respond, Exhaust, Abandon, Format, PostRefused,
                Learn, RunInBackground
        <3>2. \A d \in Calls :
                 /\ stage'[d] \in {"copying", "learning", "done"} =>
                       stage[d] \in {"copying", "learning", "done"}
                 /\ stage'[d] \in {"learning", "done"} => stage[d] \in {"learning", "done"}
            BY <2>1
            DEF Begin, CloudRecall, Inject, Fails, Respond, Exhaust, Abandon, Format, PostRefused,
                Again, Learn, RunInBackground, Goto, ShapeInv, TypeOK
        <3> QED
            BY <1>1, <1>2, <3>1, <3>2 DEF ToldInv, Posts, Copies
    <2>2. CASE Store(c)
        BY <2>2 DEF Store
    <2>3. CASE PostAccepted(c)
        <3>1. /\ Accept(c) /\ stage[c] = "storing" /\ UNCHANGED stored
              /\ stage' = [stage EXCEPT ![c] = IF plan.local THEN "copying" ELSE AfterStore(c)]
            BY <2>3 DEF PostAccepted, Goto
        <3>2. \A d \in Calls : Posts(d) # {} => Posts(d)' # {}
            BY <3>1, AcceptAdds
        <3>3. Posts(c)' # {}
            BY <3>1, AcceptAdds, TurnIs
        <3>4. \A d \in Calls \ {c} : stage'[d] = stage[d]
            BY <3>1 DEF ShapeInv, TypeOK
        <3>5. stage'[c] \in {"learning", "done"} => ~plan.local
            BY <3>1 DEF ShapeInv, TypeOK
        <3>6. \A s \in Sessions, d \in Calls : Copies(s, d)' = Copies(s, d)
            BY <1>2, <3>1 DEF Copies
        <3> QED
            BY <1>1, <3>2, <3>3, <3>4, <3>5, <3>6 DEF ToldInv
    <2>4. CASE PostRaises(c) \/ CopyRaises(c)
        <3>1. UNCHANGED stored /\ (UNCHANGED accepted \/ Accept(c))
            BY <2>4 DEF PostRaises, CopyRaises
        <3>2. \A d \in Calls : Posts(d) # {} => Posts(d)' # {}
            <4>1. CASE UNCHANGED accepted
                BY <1>2, <4>1 DEF Posts
            <4> QED
                BY <3>1, <4>1, AcceptAdds
        <3>3. \E s \in {"storing", "failed"} : stage' = [stage EXCEPT ![c] = s]
            BY <2>4 DEF PostRaises, CopyRaises, Again, Goto
        <3>4. \A d \in Calls : stage'[d] \in {"copying", "learning", "done"} => stage'[d] = stage[d]
            BY <3>3 DEF ShapeInv, TypeOK
        <3>5. \A s \in Sessions, d \in Calls : Copies(s, d)' = Copies(s, d)
            BY <1>2, <3>1 DEF Copies
        <3> QED
            BY <1>1, <3>2, <3>4, <3>5 DEF ToldInv
    <2>5. CASE Copy(c)
        <3>1. /\ stage[c] = "copying" /\ UNCHANGED accepted
              /\ stage' = [stage EXCEPT ![c] = AfterStore(c)]
            BY <2>5 DEF Copy, Goto
        <3>2. \A d \in Calls : Posts(d)' = Posts(d)
            BY <1>2, <3>1 DEF Posts
        <3>3. PICK k \in Sessions :
                 \A s \in Sessions :
                    LET t == left[s] \o (IF s = k THEN turn[c].messages ELSE <<>>)
                    IN  t \in Seq(Messages) /\ stored'[s] = stored[s] \o t
            BY <2>5, CopyAdds
        <3>4. \A s \in Sessions : stored[s] \in Seq(Messages) /\ left[s] \in Seq(Messages)
            BY DEF ShapeInv
        <3>5. \A d \in Calls, s \in Sessions : Copies(s, d) # {} => Copies(s, d)' # {}
            <4> SUFFICES ASSUME NEW d \in Calls, NEW s \in Sessions
                         PROVE  Copies(s, d) \subseteq Copies(s, d)'
                OBVIOUS
            <4> DEFINE t == left[s] \o (IF s = k THEN turn[c].messages ELSE <<>>)
            <4>1. t \in Seq(Messages) /\ stored'[s] = stored[s] \o t /\ stored[s] \in Seq(Messages)
                BY <3>3, <3>4
            <4> HIDE DEF t
            <4> QED
                BY <4>1, CopiesGrow
        <3>6. Copies(k, c)' # {}
            <4> DEFINE t == left[k] \o turn[c].messages
            <4>1. t \in Seq(Messages) /\ stored'[k] = stored[k] \o t /\ stored[k] \in Seq(Messages)
                BY <3>3, <3>4
            <4>2. Answer(c) \in In(t)
                BY <3>1, <3>4, TurnIs, HoldsGrow
            <4> HIDE DEF t
            <4> QED
                BY <4>1, <4>2, CopiesGrow
        <3>7. /\ \A d \in Calls \ {c} : stage'[d] = stage[d]
            BY <3>1 DEF ShapeInv, TypeOK
        <3> QED
            BY <1>1, <3>1, <3>2, <3>5, <3>6, <3>7 DEF ToldInv
    <2> QED
        BY <1>4, <2>1, <2>2, <2>3, <2>4, <2>5 DEF Step
<1> QED
    BY <1>3, <1>4 DEF Next

-----------------------------------------------------------------------------
(* A turn is told and copied once, unless it is doubtful.                  *)

\* The answer in a turn is its second message, and of the call of the turn.
LEMMA TurnAnswers ==
    ASSUME NEW c \in Calls, NEW d \in Calls, NEW t, t = <<Question(c), Answer(c)>>
    PROVE  /\ Answer(d) \in In(t) => d = c
           /\ \A j \in DOMAIN t : t[j] = Answer(d) => j = 2 /\ d = c
<1>1. DOMAIN t = {1, 2} /\ t[1] = Question(c) /\ t[2] = Answer(c)
    BY SMT
<1>2. /\ Question(c) # Answer(d) /\ (Answer(c) = Answer(d) => c = d)
    BY DEF Question, Answer
<1> QED
    BY <1>1, <1>2 DEF In

\* What is told and copied stays, and no call returns to an earlier stage.
LEMMA MovesKeepOnce ==
    ASSUME OnceInv, UNCHANGED <<plan, accepted, stored, left, doubtful>>,
           \A d \in Calls :
              /\ stage[d] \in {"copying", "learning", "done"} =>
                    stage'[d] \in {"copying", "learning", "done"}
              /\ stage[d] \in {"learning", "done"} => stage'[d] \in {"learning", "done"}
    PROVE  OnceInv'
<1>1. \A d : Answer(d)' = Answer(d)
    BY DEF Answer
<1>2. \A d : Posts(d)' = Posts(d)
    BY <1>1 DEF Posts
<1>3. \A s, d : Copies(s, d)' = Copies(s, d)
    BY <1>1 DEF Copies
<1>4. \A d : Question(d)' = Question(d)
    BY DEF Question
<1> QED
    BY <1>1, <1>2, <1>3, <1>4 DEF OnceInv

\* Who is alone and delivers a turn delivers his question and his answer.
LEMMA DeliversOwn ==
    ASSUME ShapeInv, QuietInv, plan.cloud, ~plan.overlap, plan.style # "instructed",
           NEW c \in Calls, stage[c] \in {"storing", "copying"}
    PROVE  turn[c].messages = <<Question(c), Answer(c)>>
BY DEF QuietInv, Quiet, Asking

LEMMA PostsKeepOnce ==
    ASSUME ShapeInv, QuietInv, OnceInv, NEW c \in Calls, PostAccepted(c) \/ PostRaises(c)
    PROVE  OnceInv'
<1>1. /\ stage[c] = "storing" /\ UNCHANGED <<plan, stored, left>>
      /\ \/ PostAccepted(c) /\ doubtful' = doubtful
         \/ PostRaises(c) /\ doubtful' = doubtful \cup {c}
         \/ UNCHANGED <<accepted, doubtful>>
      /\ Accept(c) \/ UNCHANGED <<accepted, doubtful>>
    BY DEF PostAccepted, PostRaises
<1>2. \A d \in Calls \ {c} : stage'[d] = stage[d]
    BY DEF PostAccepted, PostRaises, Again, Goto, ShapeInv, TypeOK
<1>3. CASE UNCHANGED <<accepted, doubtful>>
    BY <1>1, <1>2, <1>3, MovesKeepOnce
<1>4. CASE Accept(c) /\ ~UNCHANGED <<accepted, doubtful>>
    <2> SUFFICES ASSUME plan.cloud, ~plan.overlap, plan.style # "instructed" PROVE OnceInv'
        BY <1>1 DEF OnceInv
    <2>1. turn[c].messages = <<Question(c), Answer(c)>>
        BY <1>1, DeliversOwn
    <2>2. \A d \in Calls : Answer(d)' = Answer(d) /\ Question(d)' = Question(d)
        BY <1>1 DEF Answer, Question
    <2>3. \A i \in DOMAIN accepted' :
             \E d \in Calls : accepted'[i].messages = <<Question(d), Answer(d)>>
        BY <1>1, <1>4, <2>1, AcceptAdds DEF OnceInv
    <2>4. \A d \in Calls \ {c} : Posts(d)' = Posts(d)
        <3> SUFFICES ASSUME NEW d \in Calls \ {c} PROVE Posts(d)' = Posts(d)
            OBVIOUS
        <3>1. /\ Posts(d) \subseteq Posts(d)'
              /\ Posts(d)' \subseteq Posts(d) \cup {Len(accepted) + 1}
              /\ Len(accepted) + 1 \in Posts(d)' <=> Answer(d) \in In(turn[c].messages)
            BY <1>1, <1>4, AcceptAdds
        <3>2. Answer(d) \notin In(turn[c].messages)
            BY <2>1, TurnAnswers
        <3> QED
            BY <3>1, <3>2
    <2>5. \A s, d : Copies(s, d)' = Copies(s, d)
        BY <1>1 DEF Copies, Answer
    <2>6. ASSUME NEW d \in Calls \ doubtful'
          PROVE  /\ Posts(d)' # {} => stage'[d] \in {"copying", "learning", "done"}
                 /\ \A i, j \in Posts(d)' : i = j
                 /\ \A s \in Sessions :
                       /\ Answer(d) \notin In(left'[s])
                       /\ Copies(s, d)' # {} => stage'[d] \in {"learning", "done"}
                       /\ \A i, j \in Copies(s, d)' : i = j
        <3>1. d \in Calls \ doubtful
            BY <1>1
        <3>2. CASE d # c
            BY <1>1, <1>2, <2>4, <2>5, <3>1, <3>2 DEF OnceInv
        <3>3. CASE d = c
            <4>1. PostAccepted(c)
                BY <1>1, <1>4, <3>3
            <4>2. stage'[c] \in {"copying", "learning", "done"}
                BY <4>1 DEF PostAccepted, Goto, AfterStore, ShapeInv, TypeOK
            <4>3. Posts(c) = {}
                BY <1>1, <3>1, <3>3 DEF OnceInv
            <4>4. Posts(c)' \subseteq {Len(accepted) + 1}
                BY <1>1, <1>4, <4>3, AcceptAdds
            <4>5. \A s \in Sessions : /\ Answer(c) \notin In(left[s])
                                      /\ Copies(s, c) = {}
                BY <1>1, <3>1, <3>3 DEF OnceInv
            <4> QED
                BY <1>1, <2>5, <3>3, <4>2, <4>4, <4>5
        <3> QED
            BY <3>2, <3>3
    <2>7. /\ \A i \in DOMAIN accepted' :
                \E d \in Calls : accepted'[i].messages = <<Question(d)', Answer(d)'>>
          /\ \A d \in Calls \ doubtful' : \A s \in Sessions : Answer(d)' \notin In(left'[s])
        BY <2>2, <2>3, <2>6
    <2> QED
        BY <2>6, <2>7 DEF OnceInv, In
<1> QED
    BY <1>1, <1>3, <1>4

LEMMA CopyKeepsOnce ==
    ASSUME ShapeInv, QuietInv, OnceInv, NEW c \in Calls, Copy(c)
    PROVE  OnceInv'
<1>1. /\ stage[c] = "copying" /\ UNCHANGED <<plan, accepted, doubtful>>
      /\ stage' = [stage EXCEPT ![c] = AfterStore(c)] /\ left' = [s \in Sessions |-> <<>>]
    BY DEF Copy, Goto
<1> SUFFICES ASSUME plan.cloud, ~plan.overlap, plan.style # "instructed" PROVE OnceInv'
    BY <1>1 DEF OnceInv
<1>2. turn[c].messages = <<Question(c), Answer(c)>> /\ turn[c].messages \in Seq(Messages)
    BY <1>1, DeliversOwn DEF ShapeInv, Turn
<1>3. stage'[c] \in {"learning", "done"} /\ \A d \in Calls \ {c} : stage'[d] = stage[d]
    BY <1>1 DEF AfterStore, ShapeInv, TypeOK
<1>4. \A d \in Calls : Answer(d)' = Answer(d) /\ Question(d)' = Question(d)
    BY <1>1 DEF Answer, Question
<1>5. \A d \in Calls : Posts(d)' = Posts(d)
    BY <1>1, <1>4 DEF Posts
<1>6. \A d \in Calls, s \in Sessions : Answer(d)' \notin In(left'[s])
    BY <1>1 DEF In
<1>7. PICK k \in Sessions :
         \A s \in Sessions :
            LET t == left[s] \o (IF s = k THEN turn[c].messages ELSE <<>>)
            IN  t \in Seq(Messages) /\ stored'[s] = stored[s] \o t
    BY CopyAdds
\* A new copy is of the call's own answer, at the end.
<1>8. ASSUME NEW d \in Calls \ doubtful, NEW s \in Sessions, NEW i \in Copies(s, d)'
      PROVE  i \in Copies(s, d) \/ (d = c /\ i = Len(stored[s]) + (Len(left[s]) + 2))
    <2> DEFINE u == IF s = k THEN turn[c].messages ELSE <<>>
               t == left[s] \o u
    <2>1. /\ t \in Seq(Messages) /\ stored'[s] = stored[s] \o t
          /\ stored[s] \in Seq(Messages) /\ left[s] \in Seq(Messages)
        BY <1>7 DEF ShapeInv
    <2>2. u \in Seq(Messages) /\ (u = <<>> \/ u = <<Question(c), Answer(c)>>)
        BY <1>2
    <2>3. \A j \in DOMAIN u : u[j] = Answer(d) => j = 2 /\ d = c
        <3>1. CASE u = <<>>
            BY <3>1
        <3>2. CASE u = <<Question(c), Answer(c)>>
            <4> HIDE DEF u
            <4> QED
                BY <3>2, TurnAnswers
        <3> QED
            BY <2>2, <3>1, <3>2
    <2>4. Answer(d) \notin In(left[s])
        BY DEF OnceInv
    <2> HIDE DEF u
    <2>5. \A j \in DOMAIN t : t[j] = Answer(d) => d = c /\ j = Len(left[s]) + 2
        <3> SUFFICES ASSUME NEW j \in DOMAIN t, t[j] = Answer(d)
                     PROVE  d = c /\ j = Len(left[s]) + 2
            OBVIOUS
        <3>1. /\ DOMAIN t = 1 .. Len(left[s]) + Len(u) /\ DOMAIN u = 1 .. Len(u)
              /\ DOMAIN left[s] = 1 .. Len(left[s]) /\ Len(left[s]) \in Nat /\ Len(u) \in Nat
            <4>1. Len(t) = Len(left[s]) + Len(u)
                BY <2>1, <2>2, ConcatProperties
            <4> QED
                BY <2>1, <2>2, <4>1, LenProperties
        <3>2. t[j] = IF j <= Len(left[s]) THEN left[s][j] ELSE u[j - Len(left[s])]
            BY <2>1, <2>2, <3>1, ConcatProperties
        <3>3. ~(j <= Len(left[s]))
            BY <2>4, <3>1, <3>2 DEF In
        <3>4. j - Len(left[s]) \in DOMAIN u
            BY <3>1, <3>3
        <3>5. d = c /\ j - Len(left[s]) = 2
            BY <2>3, <3>2, <3>3, <3>4
        <3> QED
            BY <3>1, <3>5
    <2> HIDE DEF t
    <2>6. i \notin Copies(s, d) => \E j \in DOMAIN t : i = Len(stored[s]) + j /\ t[j] = Answer(d)
        <3>1. plan' = plan
            BY <1>1
        <3>2. \A m \in Copies(s, d)' \ Copies(s, d) :
                 \E j \in DOMAIN t : m = Len(stored[s]) + j /\ t[j] = Answer(d)
            BY <2>1, <3>1, CopiesGrow
        <3> QED
            BY <3>2
    <2> QED
        BY <2>5, <2>6
<1>9. ASSUME NEW d \in Calls \ doubtful'
      PROVE  /\ Posts(d)' # {} => stage'[d] \in {"copying", "learning", "done"}
             /\ \A i, j \in Posts(d)' : i = j
             /\ \A s \in Sessions : /\ Copies(s, d)' # {} => stage'[d] \in {"learning", "done"}
                                    /\ \A i, j \in Copies(s, d)' : i = j
    <2>1. d \in Calls \ doubtful
        BY <1>1
    <2>2. CASE d # c
        <3>1. stage'[d] = stage[d] /\ Posts(d)' = Posts(d)
              /\ \A s \in Sessions : Copies(s, d)' \subseteq Copies(s, d)
            BY <1>3, <1>5, <1>8, <2>1, <2>2
        <3> QED
            BY <2>1, <3>1 DEF OnceInv
    <2>3. CASE d = c
        <3>1. \A s \in Sessions : Copies(s, c) = {}
            BY <1>1, <2>1, <2>3 DEF OnceInv
        <3>2. \A s \in Sessions : \A i, j \in Copies(s, c)' : i = j
            BY <1>8, <2>1, <2>3, <3>1
        <3>3. \A i, j \in Posts(c)' : i = j
            BY <1>5, <2>1, <2>3 DEF OnceInv
        <3> QED
            BY <1>3, <2>3, <3>2, <3>3
    <2> QED
        BY <2>2, <2>3
<1>10. \A i \in DOMAIN accepted' :
          \E d \in Calls : accepted'[i].messages = <<Question(d)', Answer(d)'>>
    BY <1>1, <1>4 DEF OnceInv
<1> QED
    BY <1>6, <1>9, <1>10 DEF OnceInv, In

LEMMA CopyRaisesKeepsOnce ==
    ASSUME ShapeInv, QuietInv, OnceInv, NEW c \in Calls, CopyRaises(c)
    PROVE  OnceInv'
<1>1. /\ stage[c] = "copying" /\ UNCHANGED <<plan, accepted, stored>>
      /\ doubtful' = doubtful \cup {c}
    BY DEF CopyRaises
<1> SUFFICES ASSUME plan.cloud, ~plan.overlap, plan.style # "instructed" PROVE OnceInv'
    BY <1>1 DEF OnceInv
<1>2. turn[c].messages = <<Question(c), Answer(c)>> /\ turn[c].messages \in Seq(Messages)
    BY <1>1, DeliversOwn DEF ShapeInv, Turn
<1>3. \A d \in Calls \ {c} : stage'[d] = stage[d]
    BY DEF CopyRaises, Again, Goto, ShapeInv, TypeOK
<1>4. \A d \in Calls : Answer(d)' = Answer(d) /\ Question(d)' = Question(d)
    BY <1>1 DEF Answer, Question
<1>5. \A d \in Calls : Posts(d)' = Posts(d)
    BY <1>1, <1>4 DEF Posts
<1>6. \A s, d : Copies(s, d)' = Copies(s, d)
    BY <1>1 DEF Copies, Answer
<1>7. ASSUME NEW d \in Calls \ doubtful', NEW s \in Sessions
      PROVE  Answer(d) \notin In(left'[s])
    <2>1. PICK n \in 0 .. Len(turn[c].messages) :
             left' = [left EXCEPT ![conversation'] = @ \o SubSeq(turn[c].messages, 1, n)]
        BY DEF CopyRaises
    <2> DEFINE u == SubSeq(turn[c].messages, 1, n)
    <2>2. u \in Seq(Messages) /\ In(u) \subseteq In(turn[c].messages)
        BY <1>2 DEF In
    <2>3. left[s] \in Seq(Messages) /\ Answer(d) \notin In(left[s])
        BY <1>1 DEF ShapeInv, OnceInv
    <2>4. Answer(d) \notin In(turn[c].messages)
        BY <1>1, <1>2, TurnAnswers
    <2> HIDE DEF u
    <2>5. Answer(d) \notin In(left[s] \o u)
        BY <2>2, <2>3, <2>4, HoldsGrow
    <2>6. left'[s] = left[s] \/ left'[s] = left[s] \o u
        BY <2>1 DEF ShapeInv, u
    <2> QED
        BY <2>3, <2>5, <2>6
<1>8. \A d \in Calls \ doubtful' : d \in Calls \ doubtful /\ stage'[d] = stage[d]
    BY <1>1, <1>3
<1>9. \A d \in Calls \ doubtful' : \A s \in Sessions : Answer(d)' \notin In(left'[s])
    BY <1>4, <1>7
<1>10. \A i \in DOMAIN accepted' :
          \E d \in Calls : accepted'[i].messages = <<Question(d)', Answer(d)'>>
    BY <1>1, <1>4 DEF OnceInv
<1>11. ASSUME NEW d \in Calls \ doubtful'
       PROVE  /\ Posts(d)' # {} => stage'[d] \in {"copying", "learning", "done"}
              /\ \A i, j \in Posts(d)' : i = j
              /\ \A s \in Sessions : /\ Copies(s, d)' # {} => stage'[d] \in {"learning", "done"}
                                     /\ \A i, j \in Copies(s, d)' : i = j
    BY <1>5, <1>6, <1>8 DEF OnceInv
<1> QED
    BY <1>9, <1>10, <1>11 DEF OnceInv, In

LEMMA OnceStep == ShapeInv /\ QuietInv /\ OnceInv /\ [Next]_vars => OnceInv'
<1> SUFFICES ASSUME ShapeInv, QuietInv, OnceInv, [Next]_vars PROVE OnceInv'
    OBVIOUS
<1>1. CASE UNCHANGED vars \/ NewSession
    BY <1>1, MovesKeepOnce DEF vars, NewSession
<1>2. ASSUME NEW c \in Calls, Begin(c) \/ Step(c) \/ RunInBackground(c) PROVE OnceInv'
    <2>1. CASE \/ Begin(c) \/ CloudRecall(c) \/ Inject(c) \/ Fails(c) \/ Respond(c) \/ Exhaust(c)
               \/ Abandon(c) \/ Format(c) \/ PostRefused(c) \/ Learn(c) \/ RunInBackground(c)
        <3>1. UNCHANGED <<plan, accepted, stored, left, doubtful>>
            BY <2>1
            DEF Begin, CloudRecall, Inject, Fails, Respond, Exhaust, Abandon, Format, PostRefused,
                Learn, RunInBackground
        <3>2. \A d \in Calls :
                 /\ stage[d] \in {"copying", "learning", "done"} =>
                       stage'[d] \in {"copying", "learning", "done"}
                 /\ stage[d] \in {"learning", "done"} => stage'[d] \in {"learning", "done"}
            BY <2>1
            DEF Begin, CloudRecall, Inject, Fails, Respond, Exhaust, Abandon, Format, PostRefused,
                Again, Learn, RunInBackground, Goto, ShapeInv, TypeOK
        <3> QED
            BY <3>1, <3>2, MovesKeepOnce
    <2>2. CASE Store(c)
        BY <2>2 DEF Store, OnceInv
    <2> QED
        BY <1>2, <2>1, <2>2, PostsKeepOnce, CopyKeepsOnce, CopyRaisesKeepsOnce DEF Step
<1> QED
    BY <1>1, <1>2 DEF Next

LEMMA TurnsInit == Init => OwnInv /\ ToldInv /\ OnceInv
<1> SUFFICES ASSUME Init PROVE OwnInv /\ ToldInv /\ OnceInv
    OBVIOUS
<1>1. /\ \A c \in Calls : stage[c] = "start" /\ ~Learning(c) /\ Posts(c) = {}
      /\ learned = {} /\ DOMAIN accepted = {}
    BY DEF Init, Learning, Posts
<1>2. \A s \in Sessions : /\ stored[s] = <<>> /\ In(left[s]) = {}
                          /\ \A c : ~Holds(s, c) /\ Copies(s, c) = {}
    BY DEF Init, In, Holds, Copies
<1>3. IsDialogue(<<>>)
    <2>1. Len(<<>>) = 0 /\ DOMAIN <<>> = {}
        OBVIOUS
    <2> QED
        BY <2>1 DEF IsDialogue
<1>4. OwnInv
    BY <1>1, <1>2, <1>3 DEF OwnInv
<1>5. ToldInv
    BY <1>1 DEF ToldInv
<1>6. OnceInv
    BY <1>1, <1>2 DEF OnceInv
<1> QED
    BY <1>4, <1>5, <1>6

LEMMA InvocationIsKept == Spec => []InvocationInv
<1>1. Init => InvocationInv
    BY ShapeInit, QuietInit, TurnsInit DEF InvocationInv
<1>2. InvocationInv /\ [Next]_vars => InvocationInv'
    BY ShapeStep, QuietStep, OwnStep, ToldStep, OnceStep DEF InvocationInv
<1> QED
    BY <1>1, <1>2, PTL DEF Spec

-----------------------------------------------------------------------------
(* The theorems.                                                           *)

\* For a client with its own database, and not for the Responses API with
\* instructions of the caller: as long as calls have never overlapped and no
\* new session has come while a call or its background task was under way or a
\* count of injected messages was left, every call that returned has stored
\* its question and its answer, once, and nothing of what was injected, and it
\* is learned for the conversation it is stored in.  The injected messages are
\* counted (llm/invoke) and left out (llm/_base.py), whatever the number of
\* calls, the lengths of their histories and the kinds of their answers.
THEOREM CallsReachStore == Spec => []CallsAreStored
<1>1. InvocationInv => CallsAreStored
    BY DEF InvocationInv, ShapeInv, OwnInv, CallsAreStored
<1> QED
    BY <1>1, InvocationIsKept, PTL

\* A call that returned has told the cloud its turn and has copied it, and
\* without overlapping calls it has done so once unless it is doubtful: the
\* retries of _handle_cloud (memory/_manager.py) repeat only a turn whose
\* answer was lost or whose copy failed.
THEOREM TurnsReachTheCloud == Spec => []TurnsReachCloud
<1>1. InvocationInv => TurnsReachCloud
    <2> SUFFICES ASSUME InvocationInv, plan.cloud, NEW c \in Calls
                 PROVE  /\ stage[c] \in {"learning", "done"} =>
                              /\ Posts(c) # {}
                              /\ plan.local => \E s \in Sessions : Copies(s, c) # {}
                        /\ ~plan.overlap /\ plan.style # "instructed" =>
                              /\ \A i \in Posts(c) :
                                    accepted[i].messages = <<Question(c), Answer(c)>>
                              /\ c \notin doubtful =>
                                    /\ Cardinality(Posts(c)) <= 1
                                    /\ \A s \in Sessions : Cardinality(Copies(s, c)) <= 1
        BY DEF TurnsReachCloud
    <2>1. stage[c] \in {"learning", "done"} =>
             /\ Posts(c) # {}
             /\ plan.local => \E s \in Sessions : Copies(s, c) # {}
        BY DEF InvocationInv, ToldInv
    <2>2. ASSUME ~plan.overlap, plan.style # "instructed", NEW i \in Posts(c)
          PROVE  accepted[i].messages = <<Question(c), Answer(c)>>
        <3>1. i \in DOMAIN accepted /\ Answer(c) \in In(accepted[i].messages)
            BY DEF Posts, Range, In
        <3>2. PICK d \in Calls : accepted[i].messages = <<Question(d), Answer(d)>>
            BY <2>2, <3>1 DEF InvocationInv, OnceInv
        <3>3. c = d
            BY <3>1, <3>2, TurnAnswers
        <3> QED
            BY <3>2, <3>3
    <2>3. ASSUME ~plan.overlap, plan.style # "instructed", c \notin doubtful
          PROVE  /\ Cardinality(Posts(c)) <= 1
                 /\ \A s \in Sessions : Cardinality(Copies(s, c)) <= 1
        <3>1. \A X : (\A i, j \in X : i = j) => Cardinality(X) <= 1
            <4> SUFFICES ASSUME NEW X, \A i, j \in X : i = j PROVE Cardinality(X) <= 1
                OBVIOUS
            <4>1. X = {} \/ \E i : X = {i}
                <5> SUFFICES ASSUME X # {} PROVE \E i : X = {i}
                    OBVIOUS
                <5>1. PICK i : i \in X
                    OBVIOUS
                <5>2. X = {i}
                    BY <5>1
                <5> QED
                    BY <5>2
            <4> QED
                BY <4>1, FS_EmptySet, FS_Singleton
        <3>2. \A i, j \in Posts(c) : i = j
            BY <2>3 DEF InvocationInv, OnceInv
        <3>3. \A s \in Sessions : \A i, j \in Copies(s, c) : i = j
            BY <2>3 DEF InvocationInv, OnceInv
        <3> QED
            BY <3>1, <3>2, <3>3
    <2> QED
        BY <2>1, <2>2, <2>3
<1> QED
    BY <1>1, InvocationIsKept, PTL
=============================================================================
