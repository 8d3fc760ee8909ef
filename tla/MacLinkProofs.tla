---------------------------- MODULE MacLinkProofs ---------------------------
(***************************************************************************)
(* The sending side of the RF stack for every number of requests, of       *)
(* received frames, of resends and of pages.                               *)
(***************************************************************************)
EXTENDS MacLink, TLAPS

(* Messages of the kinds K wait in s; at most one of them does.              *)
Has(s, K) == \E i \in 1 .. Len(s) : s[i] \in K
One(s, K) == \A i, j \in 1 .. Len(s) : s[i] \in K /\ s[j] \in K => i = j

TxReq  == {"txReq"}
Cfm    == {"cfm"}
Again  == {"resend"}
Asks   == {"txReq", "dataReq"}           \* the request is to be sent
Tokens == {"txReq", "dataReq", "resend"} \* or to be sent again
Errors == {"ackErr"}
Pages  == {"disReq", "disnet"}

USE IncomingAssumption, BuildsAssumption, LimitsAssumption

-----------------------------------------------------------------------------
(* What serving the first message and appending others does to them.        *)
LEMMA HasHead ==
  ASSUME NEW s \in Seq(Kinds), s # <<>>, NEW K
  PROVE  Has(s, K) <=> Head(s) \in K \/ Has(Tail(s), K)
<1>1. /\ Len(s) \in Nat \ {0} /\ Len(Tail(s)) = Len(s) - 1 /\ Head(s) = s[1]
      /\ \A i \in 1 .. Len(s) - 1 : Tail(s)[i] = s[i + 1]
  OBVIOUS
<1>2. ASSUME NEW i \in 1 .. Len(s), s[i] \in K
      PROVE  Head(s) \in K \/ Has(Tail(s), K)
  <2>1. CASE i = 1
    BY <1>1, <1>2, <2>1
  <2>2. CASE i # 1
    <3>1. i - 1 \in 1 .. Len(Tail(s)) /\ Tail(s)[i - 1] = s[i]
      BY <1>1, <2>2
    <3> QED
      BY <1>2, <3>1 DEF Has
  <2> QED
    BY <2>1, <2>2
<1>3. Head(s) \in K => Has(s, K)
  BY <1>1 DEF Has
<1>4. ASSUME NEW i \in 1 .. Len(Tail(s)), Tail(s)[i] \in K
      PROVE  Has(s, K)
  <2>1. i + 1 \in 1 .. Len(s) /\ s[i + 1] \in K
    BY <1>1, <1>4
  <2> QED
    BY <2>1 DEF Has
<1> QED
  BY <1>2, <1>3, <1>4 DEF Has

LEMMA HasJoin ==
  ASSUME NEW s \in Seq(Kinds), NEW r \in Seq(Kinds), NEW K
  PROVE  Has(s \o r, K) <=> Has(s, K) \/ Has(r, K)
<1>1. /\ Len(s) \in Nat /\ Len(r) \in Nat /\ Len(s \o r) = Len(s) + Len(r)
      /\ \A i \in 1 .. Len(s) : (s \o r)[i] = s[i]
      /\ \A i \in 1 .. Len(r) : (s \o r)[Len(s) + i] = r[i]
  OBVIOUS
<1>2. ASSUME NEW i \in 1 .. Len(s \o r), (s \o r)[i] \in K
      PROVE  Has(s, K) \/ Has(r, K)
  <2>1. CASE i <= Len(s)
    <3>1. i \in 1 .. Len(s) /\ s[i] \in K
      BY <1>1, <1>2, <2>1
    <3> QED
      BY <3>1 DEF Has
  <2>2. CASE i > Len(s)
    <3>1. i - Len(s) \in 1 .. Len(r) /\ (s \o r)[i] = r[i - Len(s)]
      BY <1>1, <2>2
    <3> QED
      BY <1>2, <3>1 DEF Has
  <2> QED
    BY <1>1, <2>1, <2>2
<1>3. ASSUME NEW i \in 1 .. Len(s), s[i] \in K
      PROVE  Has(s \o r, K)
  <2>1. i \in 1 .. Len(s \o r) /\ (s \o r)[i] \in K
    BY <1>1, <1>3
  <2> QED
    BY <2>1 DEF Has
<1>4. ASSUME NEW i \in 1 .. Len(r), r[i] \in K
      PROVE  Has(s \o r, K)
  <2>1. Len(s) + i \in 1 .. Len(s \o r) /\ (s \o r)[Len(s) + i] \in K
    BY <1>1, <1>4
  <2> QED
    BY <2>1 DEF Has
<1> QED
  BY <1>2, <1>3, <1>4 DEF Has

LEMMA OneHead ==
  ASSUME NEW s \in Seq(Kinds), s # <<>>, NEW K, One(s, K)
  PROVE  One(Tail(s), K) /\ (Head(s) \in K => ~Has(Tail(s), K))
<1>1. /\ Len(s) \in Nat \ {0} /\ Len(Tail(s)) = Len(s) - 1 /\ Head(s) = s[1]
      /\ \A i \in 1 .. Len(s) - 1 : Tail(s)[i] = s[i + 1]
  OBVIOUS
<1>2. ASSUME NEW i \in 1 .. Len(Tail(s)), NEW j \in 1 .. Len(Tail(s)),
             Tail(s)[i] \in K, Tail(s)[j] \in K
      PROVE  i = j
  <2>1. i + 1 \in 1 .. Len(s) /\ j + 1 \in 1 .. Len(s) /\ s[i + 1] \in K /\ s[j + 1] \in K
    BY <1>1, <1>2
  <2>2. i + 1 = j + 1
    BY <2>1 DEF One
  <2> QED
    BY <2>2
<1>3. ASSUME Head(s) \in K, NEW i \in 1 .. Len(Tail(s)), Tail(s)[i] \in K
      PROVE  FALSE
  <2>1. 1 \in 1 .. Len(s) /\ i + 1 \in 1 .. Len(s) /\ s[i + 1] \in K /\ s[1] \in K
    BY <1>1, <1>3
  <2>2. i + 1 = 1
    BY <2>1 DEF One
  <2> QED
    BY <2>2, <1>1
<1> QED
  BY <1>2, <1>3 DEF One, Has

LEMMA OneJoin ==
  ASSUME NEW s \in Seq(Kinds), NEW r \in Seq(Kinds), NEW K, One(s, K), One(r, K),
         ~Has(s, K) \/ ~Has(r, K)
  PROVE  One(s \o r, K)
<1>1. /\ Len(s) \in Nat /\ Len(r) \in Nat /\ Len(s \o r) = Len(s) + Len(r)
      /\ \A i \in 1 .. Len(s) : (s \o r)[i] = s[i]
      /\ \A i \in 1 .. Len(s \o r) : i > Len(s) => (s \o r)[i] = r[i - Len(s)]
  OBVIOUS
<1>2. ASSUME NEW i \in 1 .. Len(s \o r), (s \o r)[i] \in K
      PROVE  \/ i \in 1 .. Len(s) /\ s[i] \in K
             \/ i - Len(s) \in 1 .. Len(r) /\ r[i - Len(s)] \in K
  BY <1>1, <1>2
<1>3. ASSUME NEW i \in 1 .. Len(s \o r), NEW j \in 1 .. Len(s \o r),
             (s \o r)[i] \in K, (s \o r)[j] \in K
      PROVE  i = j
  <2>1. CASE Has(s, K)
    <3>1. i \in 1 .. Len(s) /\ s[i] \in K /\ j \in 1 .. Len(s) /\ s[j] \in K
      BY <1>2, <1>3, <2>1 DEF Has
    <3> QED
      BY <3>1 DEF One
  <2>2. CASE ~Has(s, K)
    <3>1. /\ i - Len(s) \in 1 .. Len(r) /\ r[i - Len(s)] \in K
          /\ j - Len(s) \in 1 .. Len(r) /\ r[j - Len(s)] \in K
      BY <1>2, <1>3, <2>2 DEF Has
    <3>2. i - Len(s) = j - Len(s)
      BY <3>1 DEF One
    <3> QED
      BY <3>2, <1>1
  <2> QED
    BY <2>1, <2>2
<1> QED
  BY <1>3 DEF One

LEMMA Messages0 == ASSUME NEW K PROVE <<>> \in Seq(Kinds) /\ ~Has(<<>>, K) /\ One(<<>>, K)
  BY DEF Has, One

LEMMA Messages1 ==
  ASSUME NEW k \in Kinds, NEW K
  PROVE  <<k>> \in Seq(Kinds) /\ (Has(<<k>>, K) <=> k \in K) /\ One(<<k>>, K)
  BY DEF Has, One

LEMMA Messages2 ==
  ASSUME NEW k \in Kinds, NEW m \in Kinds, NEW K
  PROVE  <<k, m>> \in Seq(Kinds) /\ (Has(<<k, m>>, K) <=> k \in K \/ m \in K)
<1>1. Len(<<k, m>>) = 2 /\ <<k, m>>[1] = k /\ <<k, m>>[2] = m
  OBVIOUS
<1> QED
  BY <1>1 DEF Has

LEMMA Messages4 ==
  ASSUME NEW k \in Kinds, NEW m \in Kinds, NEW o \in Kinds, NEW p \in Kinds, NEW K
  PROVE  /\ <<k, m, o, p>> \in Seq(Kinds)
         /\ Has(<<k, m, o, p>>, K) => k \in K \/ m \in K \/ o \in K \/ p \in K
<1>1. /\ Len(<<k, m, o, p>>) = 4 /\ <<k, m, o, p>>[1] = k /\ <<k, m, o, p>>[2] = m
      /\ <<k, m, o, p>>[3] = o /\ <<k, m, o, p>>[4] = p
  OBVIOUS
<1> QED
  BY <1>1 DEF Has

LEMMA NoneOne == ASSUME NEW s, NEW K, ~Has(s, K) PROVE One(s, K)
  BY DEF Has, One

(* All of this for the kinds the invariants speak of.                       *)
LEMMA ServeLemma ==
  ASSUME queue \in Seq(Kinds), queue # <<>>, NEW m \in Seq(Kinds), queue' = Tail(queue) \o m
  PROVE  /\ queue' \in Seq(Kinds)
         /\ \A K : /\ Has(queue, K) <=> Head(queue) \in K \/ Has(Tail(queue), K)
                   /\ Has(queue', K) <=> Has(Tail(queue), K) \/ Has(m, K)
                   /\ One(queue, K) /\ Head(queue) \in K => ~Has(Tail(queue), K)
                   /\ /\ One(queue, K) /\ One(m, K)
                      /\ ~Has(Tail(queue), K) \/ ~Has(m, K)
                      => One(queue', K)
<1>1. Tail(queue) \in Seq(Kinds)
  OBVIOUS
<1>2. queue' \in Seq(Kinds)
  BY <1>1
<1>3. ASSUME NEW K
      PROVE  /\ Has(queue, K) <=> Head(queue) \in K \/ Has(Tail(queue), K)
             /\ Has(queue', K) <=> Has(Tail(queue), K) \/ Has(m, K)
  BY <1>1, HasHead, HasJoin
<1>4. ASSUME NEW K, One(queue, K)
      PROVE  /\ Head(queue) \in K => ~Has(Tail(queue), K)
             /\ One(m, K) /\ (~Has(Tail(queue), K) \/ ~Has(m, K)) => One(queue', K)
  <2>1. One(Tail(queue), K) /\ (Head(queue) \in K => ~Has(Tail(queue), K))
    BY <1>4, OneHead
  <2>2. One(m, K) /\ (~Has(Tail(queue), K) \/ ~Has(m, K)) => One(Tail(queue) \o m, K)
    BY <1>1, <2>1, OneJoin
  <2> QED
    BY <2>1, <2>2
<1> QED
  BY <1>2, <1>3, <1>4

LEMMA PostLemma ==
  ASSUME queue \in Seq(Kinds), NEW k \in Kinds, queue' = Append(queue, k)
  PROVE  /\ queue' \in Seq(Kinds)
         /\ \A K : /\ Has(queue', K) <=> Has(queue, K) \/ k \in K
                   /\ One(queue, K) /\ (~Has(queue, K) \/ k \notin K) => One(queue', K)
<1>1. queue' = queue \o <<k>>
  OBVIOUS
<1>2. <<k>> \in Seq(Kinds)
  BY Messages1
<1>3. queue' \in Seq(Kinds)
  OBVIOUS
<1>4. ASSUME NEW K
      PROVE  Has(queue', K) <=> Has(queue, K) \/ k \in K
  <2>1. Has(queue \o <<k>>, K) <=> Has(queue, K) \/ Has(<<k>>, K)
    BY <1>2, HasJoin
  <2> QED
    BY <1>1, <2>1, Messages1
<1>5. ASSUME NEW K, One(queue, K), ~Has(queue, K) \/ k \notin K
      PROVE  One(queue', K)
  <2>1. One(<<k>>, K) /\ (Has(<<k>>, K) <=> k \in K)
    BY Messages1
  <2>2. One(queue \o <<k>>, K)
    BY <1>2, <1>5, <2>1, OneJoin
  <2> QED
    BY <1>1, <2>2
<1> QED
  BY <1>3, <1>4, <1>5

-----------------------------------------------------------------------------
(* Only a coordinator that was given its tables makes requests, only one    *)
(* that was not pages; a frame that waits for its acknowledgement has a      *)
(* message or the timer that will deal with it.                             *)
Orphans ==
  /\ ~staticRegTab => reSend = "none" /\ ~Has(queue, Asks)
  /\ staticRegTab => timerId = "resend" /\ ~Has(queue, Pages)
  /\ reSend # "none" \/ Has(queue, Asks) => buf \in 1 .. MaxReq
  /\ reSend # "none" /\ err = 0 =>
       timer # "off" \/ Has(queue, Again) \/ Has(queue, Cfm) \/ Has(queue, TxReq)

(* One message or the timer keeps the paging going, and nothing after its    *)
(* end: disTime passes its limit once.                                      *)
Paging ==
  /\ One(queue, Pages)
  /\ Has(queue, Pages) => timer = "off" \/ timerId = "resend"
  /\ disEnd => ~Has(queue, Pages) /\ (timer = "off" \/ timerId = "resend")
  /\ ~disEnd => disTime <= MaxDis

(* In the absence of haste one message asks for the request or for its       *)
(* repetition, none while the timer has expired, and each repetition is      *)
(* counted before it is made.                                               *)
Retry ==
  ~hasty => /\ One(queue, Tokens) /\ ~Has(queue, Errors)
            /\ timer = "expired" => ~Has(queue, Tokens)
            /\ round <= ct + 1
            /\ Has(queue, Asks) => round <= ct

IInv == TypeOK /\ Orphans /\ Paging /\ Retry

LEMMA Subsets ==
  ASSUME NEW s, ~Has(s, Tokens)
  PROVE  ~Has(s, Asks) /\ ~Has(s, Again) /\ ~Has(s, TxReq)
  BY DEF Has, Tokens, Asks, Again, TxReq

LEMMA IInvInit == Init => IInv
<1> SUFFICES ASSUME Init PROVE IInv
  OBVIOUS
<1>1. queue = <<>> \/ queue = <<"disReq">>
  BY DEF Init
<1>2. queue \in Seq(Kinds) /\ One(queue, Pages) /\ One(queue, Tokens)
  <2>1. "disReq" \in Kinds
    BY DEF Kinds
  <2>2. CASE queue = <<>>
    BY <2>2, Messages0
  <2>3. CASE queue = <<"disReq">>
    BY <2>1, <2>3, Messages1
  <2> QED
    BY <1>1, <2>2, <2>3
<1>3. \A K : Has(queue, K) => queue = <<"disReq">> /\ "disReq" \in K
  BY <1>1, Messages0, Messages1 DEF Kinds
<1>4. TypeOK
  <2>1. disEnd \in BOOLEAN /\ hasty \in BOOLEAN /\ staticRegTab \in Builds
    BY DEF Init
  <2>2. ct \in 0 .. MaxResend /\ disTime \in 0 .. MaxDis + 1
    BY DEF Init
  <2> QED
    BY <1>2, <2>1, <2>2 DEF Init, TypeOK
<1>5. Orphans
  BY <1>3 DEF Init, Orphans, Asks, Pages
<1>6. Paging
  BY <1>2 DEF Init, Paging
<1>7. Retry
  BY <1>2, <1>3 DEF Init, Retry, Tokens, Asks, Errors
<1> QED
  BY <1>4, <1>5, <1>6, <1>7 DEF IInv

(* A handler serves its message and answers with msgs.                       *)
Answers(k, m) == Serving(k) /\ Return(m)

LEMMA AnswerLemma ==
  ASSUME IInv, NEW k, NEW m \in Seq(Kinds), Answers(k, m)
  PROVE  /\ queue' \in Seq(Kinds) /\ Head(queue) = k /\ err' = err /\ pc' = "timers"
         /\ \A K : /\ Has(queue, K) <=> k \in K \/ Has(Tail(queue), K)
                   /\ Has(queue', K) <=> Has(Tail(queue), K) \/ Has(m, K)
                   /\ One(queue, K) /\ k \in K => ~Has(Tail(queue), K)
                   /\ /\ One(queue, K) /\ One(m, K)
                      /\ ~Has(Tail(queue), K) \/ ~Has(m, K)
                      => One(queue', K)
<1>1. /\ queue \in Seq(Kinds) /\ queue # <<>> /\ Head(queue) = k
      /\ queue' = Tail(queue) \o m /\ err' = err /\ pc' = "timers"
  BY DEF Answers, Serving, Return, IInv, TypeOK
<1> QED
  BY <1>1, ServeLemma

(* Messages of the other layers: nothing is due that was not.                *)
LEMMA QuietKeeps ==
  ASSUME IInv, NEW k, NEW m \in Seq(Kinds), Answers(k, m),
         k \notin Tokens \cup Pages \cup Cfm,
         ~Has(m, Tokens), ~Has(m, Errors), ~Has(m, Pages),
         UNCHANGED <<reSend, ct, disVars, timerVars, envVars, history>>
  PROVE  IInv'
<1>1. One(m, Tokens) /\ One(m, Pages) /\ ~Has(m, Asks) /\ ~Has(m, Again) /\ ~Has(m, TxReq)
  BY NoneOne, Subsets
<1>2. TypeOK'
  BY AnswerLemma DEF IInv, TypeOK, disVars, timerVars, envVars, history
<1>3. Orphans'
  BY <1>1, AnswerLemma DEF IInv, Orphans, disVars, timerVars, envVars, history,
                           Tokens, Asks, Again, TxReq
<1>4. Paging'
  BY <1>1, AnswerLemma DEF IInv, Paging, disVars, timerVars
<1>5. Retry'
  BY <1>1, AnswerLemma DEF IInv, Retry, disVars, timerVars, envVars, history
<1> QED
  BY <1>2, <1>3, <1>4, <1>5 DEF IInv

LEMMA RelayKeeps ==
  ASSUME IInv, DataInd \/ NwkDataInd \/ DataRes
  PROVE  IInv'
<1> USE DEF Tokens, Errors, Pages, Cfm
<1>1. CASE DataInd
  <2> DEFINE m == <<"txAck", "txAck", "dataInd", "res">>
  <2>1. m \in Seq(Kinds) /\ ~Has(m, Tokens) /\ ~Has(m, Errors) /\ ~Has(m, Pages)
    BY Messages4 DEF Kinds
  <2>2. Answers("data", m)
    BY <1>1 DEF DataInd, Answers
  <2> QED
    BY <1>1, <2>1, <2>2, QuietKeeps DEF DataInd
<1>2. CASE NwkDataInd
  <2> DEFINE m == IF staticRegTab THEN <<>> ELSE <<"dataRes">>
  <2>1. m \in Seq(Kinds) /\ ~Has(m, Tokens) /\ ~Has(m, Errors) /\ ~Has(m, Pages)
    <3>1. CASE staticRegTab
      BY <3>1, Messages0
    <3>2. CASE ~staticRegTab
      BY <3>2, Messages1 DEF Kinds
    <3> QED
      BY <3>1, <3>2
  <2>2. Answers("dataInd", m)
    BY <1>2 DEF NwkDataInd, Answers
  <2> QED
    BY <1>2, <2>1, <2>2, QuietKeeps DEF NwkDataInd
<1>3. CASE DataRes
  <2>1. <<"badRes">> \in Seq(Kinds) /\ ~Has(<<"badRes">>, Tokens) /\ ~Has(<<"badRes">>, Errors)
        /\ ~Has(<<"badRes">>, Pages)
    BY Messages1 DEF Kinds
  <2>2. Answers("dataRes", <<"badRes">>)
    BY <1>3 DEF DataRes, Answers
  <2> QED
    BY <1>3, <2>1, <2>2, QuietKeeps DEF DataRes
<1> QED
  BY <1>1, <1>2, <1>3

LEMMA FailKeeps ==
  ASSUME IInv, NEW c \in {5, 10}, Fail(c),
         UNCHANGED <<reSend, ct, disVars, timerVars, envVars, history>>
  PROVE  IInv'
  BY DEF IInv, TypeOK, Orphans, Paging, Retry, Fail, disVars, timerVars, envVars, history

LEMMA RxResKeeps ==
  ASSUME IInv, RxRes
  PROVE  IInv'
<1>1. CASE Head(queue) = "badRes"
  BY <1>1, FailKeeps DEF RxRes
<1>2. CASE Head(queue) # "badRes"
  <2>1. Answers("res", <<>>)
    BY <1>2 DEF RxRes, Answers, Serving
  <2> QED
    BY <1>2, <2>1, Messages0, QuietKeeps DEF RxRes, Tokens, Pages, Cfm
<1> QED
  BY <1>1, <1>2

LEMMA TxUnknownKeeps == ASSUME IInv, TxUnknown PROVE IInv'
  BY FailKeeps DEF TxUnknown

(* After each message: the timer that has expired becomes a message.         *)
LEMMA DispatchKeeps ==
  ASSUME IInv, Dispatch
  PROVE  IInv'
<1>1. CASE timer # "expired"
  BY <1>1 DEF Dispatch, IInv, TypeOK, Orphans, Paging, Retry, disVars, envVars, history
<1>2. CASE timer = "expired"
  <2>1. /\ queue' = Append(queue, timerId) /\ timer' = "off" /\ timerId \in Kinds
        /\ queue \in Seq(Kinds) /\ timerId \in {"resend", "disnet"}
        /\ UNCHANGED <<err, reSend, ct, disTime, disEnd, timerId, staticRegTab, buf, received,
                       acked, round, hasty>>
        /\ pc' = "serve"
    BY <1>2 DEF Dispatch, IInv, TypeOK, disVars, envVars, history, Kinds
  <2>2. TypeOK'
    BY <2>1, PostLemma DEF IInv, TypeOK
  <2>3. Orphans'
    BY <1>2, <2>1, PostLemma DEF IInv, Orphans, Asks, Pages, Again, Cfm, TxReq
  <2>4. Paging'
    BY <1>2, <2>1, PostLemma DEF IInv, Paging, Pages
  <2>5. Retry'
    BY <1>2, <2>1, PostLemma DEF IInv, Retry, Tokens, Asks, Errors
  <2> QED
    BY <2>2, <2>3, <2>4, <2>5 DEF IInv
<1> QED
  BY <1>1, <1>2

(* The environment.                                                         *)
LEMMA ExpireKeeps ==
  ASSUME IInv, Expire
  PROVE  IInv'
<1>1. /\ timer = "running" /\ timer' = "expired"
      /\ hasty' = (hasty \/ pc # "serve" \/ queue # <<>>)
      /\ UNCHANGED <<queue, pc, err, reSend, ct, disTime, disEnd, timerId, staticRegTab, buf,
                     received, acked, round>>
  BY DEF Expire, osVars, disVars, envVars
<1>2. TypeOK'
  BY <1>1 DEF IInv, TypeOK
<1>3. Orphans' /\ Paging'
  BY <1>1 DEF IInv, Orphans, Paging
<1>4. Retry'
  <2>1. ~hasty' => ~hasty /\ queue = <<>>
    BY <1>1
  <2> QED
    BY <1>1, <2>1, Messages0 DEF IInv, Retry
<1> QED
  BY <1>2, <1>3, <1>4 DEF IInv

LEMMA ReceiveKeeps ==
  ASSUME IInv, Receive
  PROVE  IInv'
<1>1. PICK f \in Incoming : queue' = Append(queue, f) /\ hasty' = (hasty \/ f = "ackErr")
  BY DEF Receive
<1>2. f \in {"ackOk", "ackErr", "data"} /\ f \in Kinds /\ queue \in Seq(Kinds)
  BY DEF Kinds, Frames, IInv, TypeOK
<1>3. /\ received' = received + 1 /\ received < MaxIn
      /\ UNCHANGED <<pc, err, reSend, ct, disTime, disEnd, timer, timerId, staticRegTab, buf,
                     acked, round>>
  BY DEF Receive, disVars, timerVars
<1>4. TypeOK'
  BY <1>1, <1>2, <1>3, PostLemma DEF IInv, TypeOK
<1>5. Orphans'
  BY <1>1, <1>2, <1>3, PostLemma DEF IInv, Orphans, Asks, Pages, Again, Cfm, TxReq
<1>6. Paging'
  BY <1>1, <1>2, <1>3, PostLemma DEF IInv, Paging, Pages
<1>7. Retry'
  BY <1>1, <1>2, <1>3, PostLemma DEF IInv, Retry, Tokens, Asks, Errors
<1> QED
  BY <1>4, <1>5, <1>6, <1>7 DEF IInv

LEMMA RequestKeeps ==
  ASSUME IInv, Request
  PROVE  IInv'
<1>1. /\ staticRegTab /\ buf < MaxReq /\ buf' = buf + 1 /\ round' = 0
      /\ hasty' = (hasty \/ queue # <<>> \/ timer = "expired")
      /\ queue' = Append(queue, "dataReq")
      /\ UNCHANGED <<pc, err, reSend, ct, disTime, disEnd, timer, timerId, staticRegTab, received,
                     acked>>
  BY DEF Request, disVars, timerVars
<1>2. "dataReq" \in Kinds /\ queue \in Seq(Kinds)
  BY DEF Kinds, IInv, TypeOK
<1>3. TypeOK'
  <2>1. queue' \in Seq(Kinds)
    BY <1>1, <1>2, PostLemma
  <2>2. hasty' \in BOOLEAN
    BY <1>1
  <2>3. buf' \in 0 .. MaxReq /\ round' \in Nat /\ received' \in 0 .. MaxIn
    BY <1>1 DEF IInv, TypeOK
  <2>4. /\ disEnd' \in BOOLEAN /\ staticRegTab' \in Builds /\ acked' \subseteq 1 .. MaxReq
        /\ ct' \in 0 .. MaxResend /\ disTime' \in 0 .. MaxDis + 1
    BY <1>1 DEF IInv, TypeOK
  <2>5. /\ pc' \in {"serve", "timers", "error"} /\ err' \in {0, 5, 10}
        /\ reSend' \in {"none", "nwkCom"} /\ timer' \in {"off", "running", "expired"}
        /\ timerId' \in {"resend", "disnet"}
    BY <1>1 DEF IInv, TypeOK
  <2> QED
    BY <2>1, <2>2, <2>3, <2>4, <2>5 DEF TypeOK
<1>4. Orphans'
  BY <1>1, <1>2, PostLemma DEF IInv, TypeOK, Orphans, Asks, Pages, Again, Cfm, TxReq
<1>5. Paging'
  BY <1>1, <1>2, PostLemma DEF IInv, Paging, Pages
<1>6. Retry'
  <2>1. ~hasty' => ~hasty /\ queue = <<>> /\ timer # "expired"
    BY <1>1
  <2>2. ~hasty' => ~Has(queue, Tokens)
    BY <2>1, Messages0
  <2> QED
    BY <1>1, <1>2, <2>1, <2>2, PostLemma DEF IInv, TypeOK, Retry, Tokens, Errors
<1> QED
  BY <1>3, <1>4, <1>5, <1>6 DEF IInv

(* A request is sent: one more transmission of its round.                    *)
LEMMA TxRequestKeeps ==
  ASSUME IInv, TxRequest
  PROVE  IInv'
<1> DEFINE m == <<"cfm">>
<1>1. m \in Seq(Kinds) /\ \A K : (Has(m, K) <=> "cfm" \in K) /\ One(m, K)
  BY Messages1 DEF Kinds
<1>2. Answers("txReq", m)
  BY DEF TxRequest, Answers
<1>3. /\ reSend' = "nwkCom" /\ round' = round + 1
      /\ UNCHANGED <<ct, disTime, disEnd, timer, timerId, staticRegTab, buf, received, acked, hasty>>
  BY DEF TxRequest, disVars, timerVars, envVars
<1>4. TypeOK'
  <2>1. queue' \in Seq(Kinds) /\ err' = err /\ pc' = "timers"
    BY <1>1, <1>2, AnswerLemma
  <2> QED
    BY <1>3, <2>1 DEF IInv, TypeOK
<1>5. Orphans'
  BY <1>1, <1>2, <1>3, AnswerLemma DEF IInv, Orphans, Asks, Pages, Cfm
<1>6. Paging'
  BY <1>1, <1>2, <1>3, AnswerLemma DEF IInv, Paging, Pages
<1>7. Retry'
  <2>1. ~hasty => ~Has(Tail(queue), Tokens) /\ round <= ct
    BY <1>1, <1>2, AnswerLemma DEF IInv, Retry, Tokens, Asks
  <2>2. ~hasty => ~Has(queue', Tokens) /\ ~Has(queue', Errors)
    BY <1>1, <1>2, <2>1, AnswerLemma DEF IInv, Retry, Tokens, Errors
  <2> QED
    BY <1>3, <2>1, <2>2, NoneOne, Subsets DEF IInv, TypeOK, Retry
<1> QED
  BY <1>4, <1>5, <1>6, <1>7 DEF IInv

(* Another frame is sent: no buffer waits for its acknowledgement.           *)
LEMMA TxOtherKeeps ==
  ASSUME IInv, TxOther
  PROVE  IInv'
<1> DEFINE m == <<"cfm">>
<1>1. m \in Seq(Kinds) /\ \A K : (Has(m, K) <=> "cfm" \in K) /\ One(m, K)
  BY Messages1 DEF Kinds
<1>2. PICK k \in {"txAck", "txDis"} : Answers(k, m)
  BY DEF TxOther, Answers
<1>3. /\ reSend' = "none" /\ round' = 0
      /\ UNCHANGED <<ct, disTime, disEnd, timer, timerId, staticRegTab, buf, received, acked, hasty>>
  BY DEF TxOther, disVars, timerVars, envVars
<1>4. TypeOK'
  BY <1>1, <1>2, <1>3, AnswerLemma DEF IInv, TypeOK
<1>5. Orphans'
  BY <1>1, <1>2, <1>3, AnswerLemma DEF IInv, Orphans, Asks, Pages
<1>6. Paging'
  BY <1>1, <1>2, <1>3, AnswerLemma DEF IInv, Paging, Pages
<1>7. Retry'
  <2>1. (Has(queue', Tokens) <=> Has(queue, Tokens)) /\ (Has(queue', Errors) <=> Has(queue, Errors))
    BY <1>1, <1>2, AnswerLemma DEF Tokens, Errors
  <2>2. One(queue, Tokens) => One(queue', Tokens)
    BY <1>1, <1>2, AnswerLemma DEF Tokens
  <2>3. ct \in Nat
    BY DEF IInv, TypeOK
  <2> QED
    BY <1>3, <2>1, <2>2, <2>3 DEF IInv, Retry
<1> QED
  BY <1>4, <1>5, <1>6, <1>7 DEF IInv

LEMMA DataReqKeeps ==
  ASSUME IInv, DataReq
  PROVE  IInv'
<1> DEFINE m == <<"txReq">>
<1>1. m \in Seq(Kinds) /\ \A K : (Has(m, K) <=> "txReq" \in K) /\ One(m, K)
  BY Messages1 DEF Kinds
<1>2. Answers("dataReq", m)
  BY DEF DataReq, Answers
<1>3. UNCHANGED <<reSend, ct, disTime, disEnd, timer, timerId, staticRegTab, buf, received, acked,
                  round, hasty>>
  BY DEF DataReq, disVars, timerVars, envVars, history
<1>4. TypeOK'
  BY <1>1, <1>2, <1>3, AnswerLemma DEF IInv, TypeOK
<1>5. Orphans'
  BY <1>1, <1>2, <1>3, AnswerLemma DEF IInv, Orphans, Asks, Pages, TxReq
<1>6. Paging'
  BY <1>1, <1>2, <1>3, AnswerLemma DEF IInv, Paging, Pages
<1>7. Retry'
  BY <1>1, <1>2, <1>3, AnswerLemma DEF IInv, Retry, Tokens, Asks, Errors
<1> QED
  BY <1>4, <1>5, <1>6, <1>7 DEF IInv

(* The frame is out: the timer waits for its acknowledgement, or nothing is  *)
(* waited for.                                                              *)
LEMMA TxCfmKeeps ==
  ASSUME IInv, TxCfm
  PROVE  IInv'
<1>1. <<>> \in Seq(Kinds) /\ \A K : ~Has(<<>>, K) /\ One(<<>>, K)
  BY Messages0
<1>2. Answers("cfm", <<>>)
  BY DEF TxCfm, Answers
<1>3. /\ UNCHANGED <<disTime, disEnd, staticRegTab, buf, received, acked, hasty>>
      /\ \/ reSend # "none" /\ timer' = "running" /\ timerId' = "resend"
            /\ UNCHANGED <<reSend, ct, round>>
         \/ /\ reSend = "none" /\ timer' = "off" /\ timerId' = timerId
            /\ reSend' = "none" /\ ct' = 0 /\ round' = 0
  BY DEF TxCfm, StartTimer, StopTimer, ReleaseBuffer, disVars, envVars
<1>4. queue' \in Seq(Kinds) /\ err' = err /\ pc' = "timers"
  BY <1>1, <1>2, AnswerLemma
<1>5. TypeOK'
  <2>1. ct' \in 0 .. MaxResend /\ round' \in Nat /\ timer' \in {"off", "running", "expired"}
    BY <1>3 DEF IInv, TypeOK
  <2> QED
    BY <1>3, <1>4, <2>1 DEF IInv, TypeOK
<1>6. /\ Has(queue', Asks) <=> Has(queue, Asks)
      /\ Has(queue', Pages) <=> Has(queue, Pages)
      /\ Has(queue', Tokens) <=> Has(queue, Tokens)
      /\ Has(queue', Errors) <=> Has(queue, Errors)
      /\ One(queue, Pages) => One(queue', Pages)
      /\ One(queue, Tokens) => One(queue', Tokens)
  <2>1. ASSUME NEW K, "cfm" \notin K
        PROVE  (Has(queue', K) <=> Has(queue, K)) /\ (One(queue, K) => One(queue', K))
    BY <1>1, <1>2, <2>1, AnswerLemma
  <2> QED
    BY <2>1 DEF Asks, Pages, Tokens, Errors
<1>7. Orphans' /\ Paging'
  BY <1>3, <1>4, <1>6 DEF IInv, Orphans, Paging
<1>8. Retry'
  BY <1>3, <1>6 DEF IInv, TypeOK, Retry
<1> QED
  BY <1>5, <1>7, <1>8 DEF IInv

(* The request was acknowledged, or nothing was waited for.                  *)
LEMMA AckOkKeeps ==
  ASSUME IInv, AckOk
  PROVE  IInv'
<1> DEFINE m == <<"res">>
<1>1. m \in Seq(Kinds) /\ \A K : (Has(m, K) <=> "res" \in K) /\ One(m, K)
  BY Messages1 DEF Kinds
<1>2. Answers("ackOk", m)
  BY DEF AckOk, Answers
<1>3. /\ timer' = "off" /\ timerId' = timerId /\ reSend' = "none" /\ ct' = 0 /\ round' = 0
      /\ acked' = IF reSend = "none" THEN acked ELSE acked \cup {buf}
      /\ UNCHANGED <<disTime, disEnd, staticRegTab, buf, received, hasty>>
  BY DEF AckOk, StopTimer, ReleaseBuffer, disVars, envVars
<1>4. queue' \in Seq(Kinds) /\ err' = err /\ pc' = "timers"
  BY <1>1, <1>2, AnswerLemma
<1>5. TypeOK'
  <2>1. acked' \subseteq 1 .. MaxReq
    BY <1>3 DEF IInv, TypeOK, Orphans
  <2> QED
    BY <1>3, <1>4, <2>1 DEF IInv, TypeOK
<1>6. /\ Has(queue', Asks) <=> Has(queue, Asks)
      /\ Has(queue', Pages) <=> Has(queue, Pages)
      /\ Has(queue', Tokens) <=> Has(queue, Tokens)
      /\ Has(queue', Errors) <=> Has(queue, Errors)
      /\ One(queue, Pages) => One(queue', Pages)
      /\ One(queue, Tokens) => One(queue', Tokens)
  <2>1. ASSUME NEW K, "ackOk" \notin K, "res" \notin K
        PROVE  (Has(queue', K) <=> Has(queue, K)) /\ (One(queue, K) => One(queue', K))
    BY <1>1, <1>2, <2>1, AnswerLemma
  <2> QED
    BY <2>1 DEF Asks, Pages, Tokens, Errors
<1>7. Orphans' /\ Paging'
  BY <1>3, <1>4, <1>6 DEF IInv, Orphans, Paging
<1>8. Retry'
  BY <1>3, <1>6 DEF IInv, TypeOK, Retry
<1> QED
  BY <1>5, <1>7, <1>8 DEF IInv

(* An error acknowledgement has the frame sent once more, and is haste.      *)
LEMMA AckErrKeeps ==
  ASSUME IInv, AckErr
  PROVE  IInv'
<1> DEFINE m == IF ct + 1 < 2 THEN <<Resent, "res">> ELSE <<"res">>
<1>1. /\ m \in Seq(Kinds) /\ ~Has(m, Pages)
      /\ Has(m, Asks) => reSend # "none"
      /\ ct + 1 < 2 /\ reSend # "none" => Has(m, TxReq)
  <2>1. Resent \in Kinds /\ "res" \in Kinds /\ Resent = IF reSend = "none" THEN "txNone" ELSE "txReq"
    BY DEF Resent, Kinds
  <2>2. CASE ct + 1 < 2
    BY <2>1, <2>2, Messages2 DEF Pages, Asks, TxReq
  <2>3. CASE ~(ct + 1 < 2)
    BY <2>1, <2>3, Messages1 DEF Pages, Asks, TxReq
  <2> QED
    BY <2>2, <2>3
<1>2. Answers("ackErr", m)
  BY DEF AckErr, Answers
<1>3. /\ UNCHANGED <<disTime, disEnd, timer, timerId, staticRegTab, buf, received, acked, hasty>>
      /\ \/ ct + 1 < 2 /\ ct' = ct + 1 /\ UNCHANGED <<reSend, round>>
         \/ reSend' = "none" /\ ct' = 0 /\ round' = 0
  BY DEF AckErr, ReleaseBuffer, disVars, timerVars, envVars
<1>4. queue' \in Seq(Kinds) /\ err' = err /\ pc' = "timers"
  BY <1>1, <1>2, AnswerLemma
<1>5. TypeOK'
  <2>1. ct' \in 0 .. MaxResend /\ round' \in Nat /\ reSend' \in {"none", "nwkCom"}
    BY <1>3 DEF IInv, TypeOK
  <2> QED
    BY <1>3, <1>4, <2>1 DEF IInv, TypeOK
<1>6. /\ Has(queue', Asks) <=> Has(queue, Asks) \/ Has(m, Asks)
      /\ Has(queue', Pages) <=> Has(queue, Pages)
      /\ One(queue, Pages) => One(queue', Pages)
  <2>1. One(m, Pages)
    BY <1>1, NoneOne
  <2>2. ASSUME NEW K, "ackErr" \notin K
        PROVE  /\ Has(queue', K) <=> Has(queue, K) \/ Has(m, K)
               /\ One(queue, K) /\ One(m, K) /\ ~Has(m, K) => One(queue', K)
    BY <1>1, <1>2, <2>2, AnswerLemma
  <2> QED
    BY <1>1, <2>1, <2>2 DEF Asks, Pages
<1>7. Orphans'
  <2>1. CASE ct + 1 < 2 /\ UNCHANGED <<reSend, round>>
    <3>1. reSend # "none" => Has(queue', TxReq)
      BY <1>1, <1>2, <2>1, AnswerLemma
    <3> QED
      BY <1>1, <1>3, <1>4, <1>6, <2>1, <3>1 DEF IInv, Orphans
  <2>2. CASE reSend' = "none"
    BY <1>1, <1>3, <1>4, <1>6, <2>2 DEF IInv, Orphans
  <2> QED
    BY <1>3, <2>1, <2>2
<1>8. Paging'
  BY <1>3, <1>6 DEF IInv, Paging
<1>9. hasty
  BY <1>1, <1>2, AnswerLemma DEF IInv, Retry, Errors
<1> QED
  BY <1>3, <1>5, <1>7, <1>8, <1>9 DEF IInv, Retry

(* The timer has expired: once more, or no more.                             *)
LEMMA TimeoutResendKeeps ==
  ASSUME IInv, TimeoutResend
  PROVE  IInv'
<1> DEFINE last == ct + 1 > MaxResend
           m == IF last \/ reSend = "none" THEN <<>> ELSE <<"txReq">>
<1>1. /\ m \in Seq(Kinds) /\ ~Has(m, Pages) /\ ~Has(m, Errors)
      /\ One(m, Tokens) /\ One(m, Pages)
      /\ Has(m, Asks) <=> ~last /\ reSend # "none"
      /\ ~last /\ reSend # "none" => Has(m, TxReq)
  <2>1. CASE last \/ reSend = "none"
    BY <2>1, Messages0
  <2>2. CASE ~(last \/ reSend = "none")
    BY <2>2, Messages1 DEF Pages, Errors, Asks, TxReq, Kinds
  <2> QED
    BY <2>1, <2>2
<1>2. Answers("resend", m)
  BY DEF TimeoutResend, Answers
<1>3. /\ timer' = "off" /\ timerId' = timerId
      /\ UNCHANGED <<disTime, disEnd, staticRegTab, buf, received, acked, hasty>>
      /\ \/ last /\ reSend' = "none" /\ ct' = 0 /\ round' = 0
         \/ ~last /\ ct' = ct + 1 /\ UNCHANGED <<reSend, round>>
  BY DEF TimeoutResend, StopTimer, ReleaseBuffer, disVars, envVars
<1>4. queue' \in Seq(Kinds) /\ err' = err /\ pc' = "timers"
  BY <1>1, <1>2, AnswerLemma
<1>5. TypeOK'
  <2>1. ct' \in 0 .. MaxResend /\ round' \in Nat /\ reSend' \in {"none", "nwkCom"}
    BY <1>3 DEF IInv, TypeOK
  <2> QED
    BY <1>3, <1>4, <2>1 DEF IInv, TypeOK
<1>6. /\ Has(queue', Asks) <=> Has(queue, Asks) \/ Has(m, Asks)
      /\ Has(queue', Pages) <=> Has(queue, Pages)
      /\ One(queue, Pages) => One(queue', Pages)
      /\ Has(queue', TxReq) <=> Has(queue, TxReq) \/ Has(m, TxReq)
  <2>1. ASSUME NEW K, "resend" \notin K
        PROVE  /\ Has(queue', K) <=> Has(queue, K) \/ Has(m, K)
               /\ One(queue, K) /\ One(m, K) /\ ~Has(m, K) => One(queue', K)
    BY <1>1, <1>2, <2>1, AnswerLemma
  <2> QED
    BY <1>1, <2>1 DEF Asks, Pages, TxReq
<1>7. Orphans'
  BY <1>1, <1>3, <1>4, <1>6 DEF IInv, Orphans
<1>8. Paging'
  BY <1>3, <1>6 DEF IInv, Paging
<1>9. Retry'
  <2>1. ~hasty => /\ One(queue', Tokens) /\ ~Has(Tail(queue), Tokens)
                  /\ ~Has(queue', Errors)
    BY <1>1, <1>2, AnswerLemma DEF IInv, Retry, Tokens, Errors
  <2>2. ~hasty => (Has(queue', Asks) => Has(m, Asks))
    BY <1>1, <1>2, <2>1, Subsets, AnswerLemma
  <2> QED
    BY <1>1, <1>3, <2>1, <2>2 DEF IInv, TypeOK, Retry
<1> QED
  BY <1>5, <1>7, <1>8, <1>9 DEF IInv

(* Paging: the first page, and each further one.                             *)
LEMMA PagingKeeps ==
  ASSUME IInv, DisReq \/ TimeoutDisNet
  PROVE  IInv'
<1>1. PICK k \in Pages, m \in {<<>>, <<"txDis">>} : Answers(k, m)
  BY DEF DisReq, TimeoutDisNet, Answers, Pages
<1>2. /\ m \in Seq(Kinds)
      /\ \A K : One(m, K) /\ (Has(m, K) => "txDis" \in K)
  <2>1. CASE m = <<>>
    BY <2>1, Messages0
  <2>2. CASE m = <<"txDis">>
    BY <2>2, Messages1 DEF Kinds
  <2> QED
    BY <2>1, <2>2
<1>3. /\ UNCHANGED <<reSend, ct, staticRegTab, buf, received, acked, round, hasty>>
      /\ \/ /\ timer' = "running" /\ timerId' = "disnet" /\ disEnd' = disEnd
            /\ disTime' = disTime \/ (disTime' = disTime + 1 /\ disTime + 1 <= MaxDis)
         \/ /\ timer' = timer /\ timerId' = timerId /\ disEnd' = TRUE
            /\ disTime' = disTime + 1
  BY DEF DisReq, TimeoutDisNet, StartTimer, disVars, timerVars, envVars, history, IInv, TypeOK
<1>4. queue' \in Seq(Kinds) /\ err' = err /\ pc' = "timers"
  BY <1>1, <1>2, AnswerLemma
<1>5. Has(queue, Pages) /\ ~Has(queue', Pages) /\ One(queue', Pages)
  <2>1. Has(queue, Pages) /\ ~Has(Tail(queue), Pages)
    BY <1>1, <1>2, AnswerLemma DEF IInv, Paging
  <2>2. ~Has(m, Pages)
    BY <1>2 DEF Pages
  <2> QED
    BY <1>1, <1>2, <2>1, <2>2, AnswerLemma, NoneOne
<1>6. ~staticRegTab /\ ~disEnd /\ disTime <= MaxDis
  BY <1>5 DEF IInv, Orphans, Paging
<1>7. TypeOK'
  <2>0. MaxDis \in Nat /\ disTime \in 0 .. MaxDis + 1
    BY DEF IInv, TypeOK
  <2>1. disTime' \in 0 .. MaxDis + 1
    BY <1>3, <1>6, <2>0
  <2>3. disEnd' \in BOOLEAN
    <3>1. disEnd' = disEnd \/ disEnd' = TRUE
      BY <1>3
    <3> QED
      BY <3>1 DEF IInv, TypeOK
  <2>2. timer' \in {"off", "running", "expired"} /\ timerId' \in {"resend", "disnet"}
    BY <1>3 DEF IInv, TypeOK
  <2> QED
    BY <1>3, <1>4, <2>1, <2>2, <2>3 DEF IInv, TypeOK
<1>8. /\ Has(queue', Asks) <=> Has(queue, Asks)
      /\ Has(queue', Tokens) <=> Has(queue, Tokens)
      /\ Has(queue', Errors) <=> Has(queue, Errors)
      /\ One(queue, Tokens) => One(queue', Tokens)
  BY <1>1, <1>2, AnswerLemma DEF Asks, Tokens, Errors, Pages
<1>9. Orphans'
  BY <1>3, <1>4, <1>5, <1>6, <1>8 DEF IInv, Orphans
<1>10. Paging'
  BY <1>3, <1>5, <1>6 DEF IInv, TypeOK, Paging
<1>11. Retry'
  BY <1>3, <1>8 DEF IInv, Retry
<1> QED
  BY <1>7, <1>9, <1>10, <1>11 DEF IInv

-----------------------------------------------------------------------------
(* Every step keeps the invariant. *)
LEMMA NextKeeps == ASSUME IInv, [Next]_vars PROVE IInv'
<1>1. CASE UNCHANGED vars
  <2>1. UNCHANGED <<queue, pc, err, reSend, ct, staticRegTab, buf, received, disTime, disEnd,
                    timer, timerId, acked, round, hasty>>
    BY <1>1 DEF vars, osVars, disVars, timerVars, envVars, history
  <2> QED
    BY <2>1 DEF IInv, TypeOK, Orphans, Paging, Retry, Has, One
<1>2. CASE Expire
  BY <1>2, ExpireKeeps
<1>3. CASE Receive
  BY <1>3, ReceiveKeeps
<1>4. CASE Request
  BY <1>4, RequestKeeps
<1>5. CASE RfStep
  <2>1. CASE DataInd \/ NwkDataInd \/ DataRes
    BY <2>1, RelayKeeps
  <2>2. CASE RxRes
    BY <2>2, RxResKeeps
  <2>3. CASE TxUnknown
    BY <2>3, TxUnknownKeeps
  <2>4. CASE Dispatch
    BY <2>4, DispatchKeeps
  <2>5. CASE TxRequest
    BY <2>5, TxRequestKeeps
  <2>6. CASE TxOther
    BY <2>6, TxOtherKeeps
  <2>7. CASE DataReq
    BY <2>7, DataReqKeeps
  <2>8. CASE TxCfm
    BY <2>8, TxCfmKeeps
  <2>9. CASE AckOk
    BY <2>9, AckOkKeeps
  <2>10. CASE AckErr
    BY <2>10, AckErrKeeps
  <2>11. CASE TimeoutResend
    BY <2>11, TimeoutResendKeeps
  <2>12. CASE DisReq \/ TimeoutDisNet
    BY <2>12, PagingKeeps
  <2> QED
    BY <1>5, <2>1, <2>2, <2>3, <2>4, <2>5, <2>6, <2>7, <2>8, <2>9, <2>10, <2>11, <2>12
    DEF RfStep
<1> QED
  BY <1>1, <1>2, <1>3, <1>4, <1>5 DEF Next

THEOREM Invariance == Spec => []IInv
<1>1. Init => IInv
  BY IInvInit
<1>2. IInv /\ [Next]_vars => IInv'
  BY NextKeeps
<1> QED
  BY <1>1, <1>2, PTL DEF Spec

(* However many frames come in and whenever the timer expires, a request    *)
(* that waits for its acknowledgement has the resend timer or a message     *)
(* that will see to it (network_dlc.c:1090-1116, 1150-1166).                *)
THEOREM NoOrphanCorrect == Spec => []NoOrphan
<1>1. IInv => NoOrphan
  BY DEF IInv, Orphans, NoOrphan, Queued, Has, Again, Cfm, TxReq
<1> QED
  BY <1>1, Invariance, PTL

(* For every limit MaxResend, a frame goes out at most MaxResend + 1 times  *)
(* before it is let go, unless a message waited when the timer expired or a *)
(* request was made (network_dlc.c:1095-1104, 1150-1166).                   *)
THEOREM RetryBoundCorrect == Spec => []RetryBound
<1>1. IInv => RetryBound
  <2> SUFFICES ASSUME IInv, ~hasty PROVE round <= MaxResend + 1
    BY DEF RetryBound
  <2>1. round \in Nat /\ ct \in 0 .. MaxResend /\ round <= ct + 1
    BY DEF IInv, TypeOK, Retry
  <2> QED
    BY <2>1
<1> QED
  BY <1>1, Invariance, PTL
=============================================================================
