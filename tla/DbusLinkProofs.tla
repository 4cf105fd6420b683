----------------------------- MODULE DbusLinkProofs -----------------------------
(***************************************************************************)
(* Proofs about DbusLink, for any methods, lengths of answers and number   *)
(* of services: the socket is in step, and what a method has is the answer *)
(* of the service that runs, as long as every service was started because  *)
(* the D-Bus process waited for it.  Without that condition: what the      *)
(* D-Bus process waits for is there, or will be written, and a service     *)
(* comes to rest.                                                          *)
(***************************************************************************)
EXTENDS DbusLink, SequenceTheorems, TLAPS

Ended == {"none", "gone"}

\* Nobody but the last service reads or writes the socket, and it does not once
\* the supervisor is about to start the next.
LifeInv ==
    /\ \A s \in Services : s # last => helper[s] \in Ended
    /\ \A s \in Services : s > last => s \notin announced
    /\ down # "up" => \A s \in Services : helper[s] \in Ended

NoRequest == \A i \in DOMAIN requests : requests[i] \notin Methods
NoHelper  == \A s \in Services : helper[s] \notin Methods

AnswerOf(m, s) == [k \in 1..Length[m][s] |-> [of |-> m, from |-> s]]

\* While the D-Bus process waits for a ready byte, there is none but that of the
\* last service,
ByteInv ==
    /\ NoRequest /\ NoHelper
    /\ \/ answers = <<>>
       \/ answers = <<[of |-> "ready", from |-> last]>> /\ last \in announced

\* and while it is in a method, its question is in one place: on the way to the
\* service, with the service, answered, or lost.
MethodInv(m) ==
    /\ last \in announced
    /\ \/ /\ answers = <<>> /\ NoHelper
          /\ \A i, j \in DOMAIN requests :
               requests[i] \in Methods /\ requests[j] \in Methods
                   => i = j /\ requests[i] = m
       \/ /\ answers = <<>> /\ NoRequest
          /\ \A s \in Services : helper[s] \in Methods => helper[s] = m
       \/ answers = AnswerOf(m, last) /\ NoRequest /\ NoHelper

StreamInv ==
    ~surplus =>
        /\ dbus \in {"init", "reload"} => ByteInv
        /\ dbus = "idle" => ByteInv /\ answers = <<>> /\ last \in announced
        /\ \A m \in Methods : dbus = m => MethodInv(m)

IInv == TypeOK /\ LifeInv /\ StreamInv /\ FreshAnswers
-----------------------------------------------------------------------------
(* Lemmas about the names and the streams.                                 *)

LEMMA Known ==
    /\ Methods \subseteq {"Version", "GetTimeout", "DevicePath", "Identity",
                          "GetTimeleft"}
    /\ MaxStarts \in Nat \ {0} /\ MaxAlarms \in Nat /\ MaxCalls \in Nat
    /\ IntSize \in Nat \ {0} /\ \A m \in Methods : Size[m] \in Nat
    /\ \A m \in Methods, s \in Services :
         Length[m][s] \in Nat \ {0} /\ Length[m][s] <= Size[m]
BY LinkAssumption DEF Values, Strings, Unkept

\* A read takes the first bytes and leaves the others.
LEMMA TakenAndRest ==
    ASSUME answers \in Seq(Bytes), NEW n \in 0..Len(answers)
    PROVE  /\ Taken(n) \in Seq(Bytes) /\ Len(Taken(n)) = n
           /\ \A k \in 1..n : Taken(n)[k] = answers[k]
           /\ Rest(n) \in Seq(Bytes)
           /\ n = Len(answers) => Rest(n) = <<>>
<1>1. Len(answers) \in Nat /\ \A k \in 1..Len(answers) : answers[k] \in Bytes
  BY LenProperties
<1>2. /\ SubSeq(answers, 1, n) \in Seq(Bytes) /\ Len(SubSeq(answers, 1, n)) = n
      /\ \A k \in 1..n : SubSeq(answers, 1, n)[k] = answers[k]
  <2>1. \A k \in 1..n : answers[k] \in Bytes
    BY <1>1
  <2>2. 1 \in Int /\ n \in Int
    BY <1>1
  <2>3. /\ SubSeq(answers, 1, n) \in Seq(Bytes)
        /\ Len(SubSeq(answers, 1, n)) = IF 1 <= n THEN n - 1 + 1 ELSE 0
        /\ \A k \in 1..n - 1 + 1 : SubSeq(answers, 1, n)[k] = answers[1 + k - 1]
    BY <2>1, <2>2, SubSeqProperties
  <2> QED BY <1>1, <2>3
<1>3. SubSeq(answers, n + 1, Len(answers)) \in Seq(Bytes)
  <2>1. \A k \in (n + 1)..Len(answers) : answers[k] \in Bytes
    BY <1>1
  <2>2. n + 1 \in Int /\ Len(answers) \in Int
    BY <1>1
  <2> QED BY <2>1, <2>2, SubSeqProperties
<1>4. n = Len(answers) => SubSeq(answers, n + 1, Len(answers)) = <<>>
  BY <1>1, SubSeqEmpty
<1> QED BY <1>2, <1>3, <1>4 DEF Taken, Rest

\* What is read is at the front of the buffer.
LEMMA OverwrittenFront ==
    ASSUME NEW old \in Seq(Bytes), NEW new \in Seq(Bytes)
    PROVE  /\ Overwritten(old, new) \in Seq(Bytes)
           /\ \A k \in 1..Len(new) : /\ k \in DOMAIN Overwritten(old, new)
                                     /\ Overwritten(old, new)[k] = new[k]
<1> DEFINE end == SubSeq(old, Len(new) + 1, Len(old))
<1>1. /\ Len(new) \in Nat /\ Len(old) \in Nat
      /\ \A k \in 1..Len(old) : old[k] \in Bytes
  BY LenProperties
<1>2. end \in Seq(Bytes)
  <2>1. \A k \in (Len(new) + 1)..Len(old) : old[k] \in Bytes
    BY <1>1
  <2>2. Len(new) + 1 \in Int /\ Len(old) \in Int
    BY <1>1
  <2> QED BY <2>1, <2>2, SubSeqProperties
<1> HIDE DEF end
<1>3. /\ new \o end \in Seq(Bytes) /\ Len(new \o end) = Len(new) + Len(end)
      /\ \A k \in 1..Len(new) + Len(end) :
           (new \o end)[k] = IF k <= Len(new) THEN new[k] ELSE end[k - Len(new)]
  BY <1>2, ConcatProperties
<1>4. Len(end) \in Nat /\ DOMAIN (new \o end) = 1..Len(new \o end)
  BY <1>2, <1>3, LenProperties
<1>5. \A k \in 1..Len(new) : k \in DOMAIN (new \o end) /\ (new \o end)[k] = new[k]
  BY <1>1, <1>3, <1>4
<1>6. Overwritten(old, new) = new \o end
  BY DEF Overwritten, end
<1> QED BY <1>3, <1>5, <1>6

\* A request adds a command and a zero.
LEMMA RequestAdds ==
    ASSUME requests \in Seq(Commands \cup {"zero"}), NEW c \in Commands, Request(c)
    PROVE  /\ requests' \in Seq(Commands \cup {"zero"})
           /\ DOMAIN requests' = 1..(Len(requests) + 2)
           /\ \A i \in DOMAIN requests' :
                requests'[i] = IF i <= Len(requests) THEN requests[i]
                               ELSE IF i = Len(requests) + 1 THEN c ELSE "zero"
<1>1. <<c, "zero">> \in Seq(Commands \cup {"zero"}) /\ Len(<<c, "zero">>) = 2
  OBVIOUS
<1>2. Len(requests) \in Nat
  BY LenProperties
<1>3. /\ requests' \in Seq(Commands \cup {"zero"})
      /\ Len(requests') = Len(requests) + 2
      /\ \A i \in 1..Len(requests) + 2 :
           requests'[i] = IF i <= Len(requests) THEN requests[i]
                          ELSE <<c, "zero">>[i - Len(requests)]
  BY <1>1, ConcatProperties DEF Request
<1>4. DOMAIN requests' = 1..(Len(requests) + 2)
  BY <1>3, LenProperties
<1>5. ASSUME NEW i \in DOMAIN requests', ~(i <= Len(requests))
      PROVE  requests'[i] = IF i = Len(requests) + 1 THEN c ELSE "zero"
  <2>1. i - Len(requests) = 1 \/ i - Len(requests) = 2
    BY <1>2, <1>4, <1>5
  <2>2. requests'[i] = <<c, "zero">>[i - Len(requests)]
    BY <1>3, <1>4, <1>5
  <2> QED BY <1>2, <2>1, <2>2
<1> QED BY <1>3, <1>4, <1>5

\* A service takes the first of the requests.
LEMMA CommandTaken ==
    ASSUME requests \in Seq(Commands \cup {"zero"}), NEW s \in Services, ReadCommand(s)
    PROVE  /\ Head(requests) = requests[1] /\ 1 \in DOMAIN requests
           /\ Head(requests) \in Commands \cup {"zero"}
           /\ requests' \in Seq(Commands \cup {"zero"})
           /\ \A i \in DOMAIN requests' : /\ i + 1 \in DOMAIN requests /\ i \in Nat \ {0}
                                          /\ requests'[i] = requests[i + 1]
<1>1. requests # <<>> /\ requests' = Tail(requests)
  BY DEF ReadCommand
<1>2. /\ Head(requests) \in Commands \cup {"zero"}
      /\ requests' \in Seq(Commands \cup {"zero"})
      /\ Len(requests') = Len(requests) - 1
      /\ \A i \in 1..Len(requests') : requests'[i] = requests[i + 1]
  BY <1>1, HeadTailProperties
<1>3. /\ DOMAIN requests' = 1..Len(requests') /\ DOMAIN requests = 1..Len(requests)
      /\ Len(requests) \in Nat /\ Len(requests) # 0
  BY <1>1, <1>2, LenProperties, EmptySeq
<1>4. Head(requests) = requests[1]
  BY <1>1
<1> QED BY <1>2, <1>3, <1>4

\* An answer is a sequence of bytes.
LEMMA AnswerBytes ==
    ASSUME NEW m \in Methods, NEW s \in Services
    PROVE  /\ AnswerOf(m, s) \in Seq(Bytes) /\ Len(AnswerOf(m, s)) = Length[m][s]
           /\ \A k \in 1..Length[m][s] : AnswerOf(m, s)[k] = [of |-> m, from |-> s]
           /\ AnswerOf(m, s) # <<>>
<1>1. Length[m][s] \in Nat \ {0}
  BY Known
<1>2. [of |-> m, from |-> s] \in Bytes
  BY DEF Bytes
<1>3. AnswerOf(m, s) \in [1..Length[m][s] -> Bytes]
  BY <1>2 DEF AnswerOf
<1>4. AnswerOf(m, s) \in Seq(Bytes) /\ Len(AnswerOf(m, s)) = Length[m][s]
  BY <1>1, <1>3
<1> QED BY <1>1, <1>4, EmptySeq DEF AnswerOf
-----------------------------------------------------------------------------
(* The types.                                                              *)

LEMMA InitTyped == Init => TypeOK
<1> SUFFICES ASSUME Init PROVE TypeOK
  OBVIOUS
<1>1. hup \in BOOLEAN /\ detached \in BOOLEAN /\ sighup \in BOOLEAN /\ surplus \in BOOLEAN
  BY Zenon DEF Init
<1>2. /\ requests \in Seq(Commands \cup {"zero"}) /\ answers \in Seq(Bytes)
      /\ buf \in [Methods -> Seq(Bytes)]
  BY EmptySeq DEF Init
<1>3. /\ alarms \in 0..MaxAlarms /\ calls \in 0..MaxCalls /\ last \in 0..MaxStarts
  BY Known DEF Init
<1> QED BY <1>1, <1>2, <1>3 DEF Init, TypeOK

\* A step of the D-Bus process keeps them,
LEMMA BusTyped ==
    ASSUME TypeOK, DbusStep \/ AskReload \/ AskShutdown \/ \E m \in Methods : Ask(m)
    PROVE  TypeOK'
<1> USE DEF TypeOK, service, stream
<1>1. Len(answers) \in Nat
  BY LenProperties
<1>2. Methods \subseteq Commands /\ "Shutdown" \in Commands
  BY DEF Commands
<1>3. CASE DbusStarts
  <2>1. 1 \in 0..Len(answers)
    BY <1>1, <1>3, EmptySeq DEF DbusStarts
  <2> QED BY <1>3, <2>1, TakenAndRest DEF DbusStarts
<1>4. CASE TakeHup
  <2>1. buf' \in [Methods -> Seq(Bytes)]
    BY <1>4, EmptySeq DEF TakeHup
  <2> QED BY <1>4, <2>1 DEF TakeHup
<1>5. CASE ReadReady
  <2>1. Least(IntSize, Len(answers)) \in 0..Len(answers)
    BY <1>1, Known DEF Least
  <2> QED BY <1>5, <2>1, TakenAndRest DEF ReadReady
<1>6. CASE DbusEnds
  BY <1>6 DEF DbusEnds
<1>7. ASSUME NEW m \in Methods, ReadAnswer(m) PROVE TypeOK'
  <2> DEFINE n == Least(Size[m], Len(answers))
  <2>1. n \in 0..Len(answers)
    BY <1>1, Known DEF Least
  <2>2. Taken(n) \in Seq(Bytes) /\ Rest(n) \in Seq(Bytes)
    BY <2>1, TakenAndRest
  <2>3. Overwritten(buf[m], Taken(n)) \in Seq(Bytes)
    BY <2>2, OverwrittenFront
  <2>4. /\ buf' = [buf EXCEPT ![m] = Overwritten(buf[m], Taken(n))] /\ answers' = Rest(n)
        /\ has' = has \cup {m} /\ dbus' = "idle"
        /\ UNCHANGED <<hup, alarms, calls, detached, requests, service, sighup,
                       surplus>>
    BY <1>7 DEF ReadAnswer
  <2> QED BY <2>2, <2>3, <2>4
<1>8. CASE AskReload
  <2>1. sighup' \in BOOLEAN
    BY <1>8, Zenon DEF AskReload
  <2> QED BY <1>8, <2>1 DEF AskReload
<1>9. CASE AskShutdown
  <2>1. requests' \in Seq(Commands \cup {"zero"})
    BY <1>2, <1>9, RequestAdds DEF AskShutdown
  <2>2. alarms' \in 0..MaxAlarms
    BY <1>9, Known DEF AskShutdown
  <2> QED BY <1>9, <2>1, <2>2 DEF AskShutdown
<1>10. ASSUME NEW m \in Methods, Ask(m) PROVE TypeOK'
  <2>1. requests' \in Seq(Commands \cup {"zero"})
    BY <1>2, <1>10, RequestAdds DEF Ask
  <2>2. calls' \in 0..MaxCalls
    BY <1>10, Known DEF Ask
  <2> QED BY <1>10, <2>1, <2>2 DEF Ask
<1> QED BY <1>3, <1>4, <1>5, <1>6, <1>7, <1>8, <1>9, <1>10 DEF DbusStep

\* and so does one of the supervisor or of a service.
LEMMA ServicesTyped ==
    ASSUME TypeOK,
           \/ Hangup \/ StopService \/ StartService \/ ForkFails
           \/ \E s \in Services : ServiceStep(s) \/ Fails(s)
    PROVE  TypeOK'
<1> USE DEF TypeOK, bus, stream, service
<1>1. CASE Hangup
  <2>1. sighup' \in BOOLEAN
    BY <1>1 DEF Hangup
  <2> QED BY <1>1, <2>1 DEF Hangup
<1>2. CASE StopService
  <2>1. sighup' \in BOOLEAN
    BY <1>2 DEF StopService
  <2> QED BY <1>2, <2>1 DEF StopService
<1>3. CASE StartService
  <2>1. hup' \in BOOLEAN /\ surplus' \in BOOLEAN
    BY <1>3, Zenon DEF StartService
  <2>2. last' \in 0..MaxStarts
    BY <1>3, Known DEF StartService
  <2> QED BY <1>3, <2>1, <2>2 DEF StartService
<1>4. ASSUME NEW s \in Services, StartHelper(s) PROVE TypeOK'
  BY <1>4 DEF StartHelper
<1>5. ASSUME NEW s \in Services, Announce(s) PROVE TypeOK'
  <2>1. [of |-> "ready", from |-> s] \in Bytes
    BY DEF Bytes
  <2> QED BY <1>5, <2>1 DEF Announce
<1>6. ASSUME NEW s \in Services, ReadCommand(s) PROVE TypeOK'
  BY <1>6, CommandTaken DEF ReadCommand
<1>7. ASSUME NEW s \in Services, CallShutdown(s) PROVE TypeOK'
  BY <1>7 DEF CallShutdown
<1>8. ASSUME NEW s \in Services, NEW m \in Methods, Answer(s, m) PROVE TypeOK'
  <2>1. answers' = answers \o AnswerOf(m, s)
    BY <1>8 DEF Answer, AnswerOf
  <2>2. answers' \in Seq(Bytes)
    BY <2>1, AnswerBytes, ConcatProperties
  <2> QED BY <1>8, <2>2 DEF Answer
<1>9. ASSUME NEW s \in Services, Fails(s) PROVE TypeOK'
  BY <1>9 DEF Fails
<1>10. CASE ForkFails
  BY <1>10 DEF ForkFails
<1> QED BY <1>1, <1>2, <1>3, <1>4, <1>5, <1>6, <1>7, <1>8, <1>9, <1>10 DEF ServiceStep
-----------------------------------------------------------------------------
(* The steps.                                                              *)

\* Whoever lives is the last service, and the supervisor knows it.
LEMMA OneLives ==
    ASSUME LifeInv, NEW s \in Services, helper[s] \notin Ended
    PROVE  s = last /\ down = "up"
BY DEF LifeInv

LEMMA LifeKept ==
    ASSUME TypeOK, LifeInv, [Next]_vars PROVE LifeInv'
<1>1. MaxStarts \in Nat \ {0} /\ last \in 0..MaxStarts /\ Services = 1..MaxStarts
      /\ helper \in [Services -> Ended \cup {"starts", "reads"} \cup Commands]
      /\ announced \subseteq Services
  BY Known DEF TypeOK, Services, Ended
<1> USE DEF service, bus, stream
<1>2. CASE UNCHANGED <<service>> \/ UNCHANGED vars
  BY <1>2 DEF LifeInv, vars
<1>3. CASE StopService
  BY <1>1, <1>3 DEF StopService, LifeInv, Ended
<1>4. CASE StartService
  BY <1>1, <1>4 DEF StartService, LifeInv, Ended
<1>5. ASSUME NEW s \in Services,
             StartHelper(s) \/ Announce(s) \/ ReadCommand(s) \/ CallShutdown(s) \/ Fails(s)
                \/ \E m \in Methods : Answer(s, m)
      PROVE  LifeInv'
  <2>1. helper[s] \notin Ended
    BY <1>5, Known DEF StartHelper, Announce, ReadCommand, CallShutdown, Fails, Answer, Ended
  <2>2. s = last /\ down = "up"
    BY <2>1, OneLives
  <2>3. /\ last' = last /\ announced' \subseteq announced \cup {s}
        /\ \A t \in Services : t # s => helper'[t] = helper[t]
        /\ down' # "up" => helper'[s] \in Ended
    BY <1>1, <1>5, <2>2 DEF StartHelper, Announce, ReadCommand, CallShutdown, Fails, Answer, Ended
  <2> QED BY <1>1, <2>2, <2>3 DEF LifeInv
<1>6. CASE ForkFails
  BY <1>6 DEF ForkFails, LifeInv
<1> QED BY <1>2, <1>3, <1>4, <1>5, <1>6
        DEF Next, DbusStep, ServiceStep, DbusStarts, TakeHup, ReadReady, DbusEnds,
            ReadAnswer, AskReload, AskShutdown, Ask, Hangup

\* What a method has stays fresh where neither it nor the service changes.
LEMMA FreshFrame ==
    ASSUME FreshAnswers, UNCHANGED <<hup, has, buf, last>>, surplus' = surplus
    PROVE  FreshAnswers'
BY DEF FreshAnswers

\* The requests are as they were, but for a zero or a Shutdown.
LEMMA ShutdownAsked ==
    ASSUME TypeOK, NoRequest, Request("Shutdown") PROVE NoRequest'
<1>1. requests \in Seq(Commands \cup {"zero"}) /\ "Shutdown" \in Commands
  BY DEF TypeOK, Commands
<1>2. "Shutdown" \notin Methods /\ "zero" \notin Methods
  BY Known
<1>3. /\ DOMAIN requests' = 1..(Len(requests) + 2)
      /\ \A i \in DOMAIN requests' :
           requests'[i] = IF i <= Len(requests) THEN requests[i]
                          ELSE IF i = Len(requests) + 1 THEN "Shutdown" ELSE "zero"
  BY <1>1, RequestAdds
<1>4. DOMAIN requests = 1..Len(requests) /\ Len(requests) \in Nat
  BY <1>1, LenProperties
<1>5. ASSUME NEW i \in DOMAIN requests' PROVE requests'[i] \notin Methods
  <2>1. CASE i <= Len(requests)
    BY <1>3, <1>4, <2>1 DEF NoRequest
  <2>2. CASE ~(i <= Len(requests))
    BY <1>2, <1>3, <2>2
  <2> QED BY <2>1, <2>2
<1> QED BY <1>5 DEF NoRequest

\* A method that asks is the only one that does.
LEMMA MethodAsked ==
    ASSUME TypeOK, NEW m \in Methods, NoRequest, Request(m)
    PROVE  \A i, j \in DOMAIN requests' :
             requests'[i] \in Methods /\ requests'[j] \in Methods
                 => i = j /\ requests'[i] = m
<1>1. requests \in Seq(Commands \cup {"zero"}) /\ m \in Commands /\ "zero" \notin Methods
  BY Known DEF TypeOK, Commands
<1>2. /\ DOMAIN requests' = 1..(Len(requests) + 2)
      /\ \A i \in DOMAIN requests' :
           requests'[i] = IF i <= Len(requests) THEN requests[i]
                          ELSE IF i = Len(requests) + 1 THEN m ELSE "zero"
  BY <1>1, RequestAdds
<1>3. DOMAIN requests = 1..Len(requests) /\ Len(requests) \in Nat
  BY <1>1, LenProperties
<1>4. ASSUME NEW i \in DOMAIN requests', requests'[i] \in Methods
      PROVE  i = Len(requests) + 1 /\ requests'[i] = m
  <2>1. CASE i <= Len(requests)
    BY <1>2, <1>3, <1>4, <2>1 DEF NoRequest
  <2>2. CASE ~(i <= Len(requests))
    BY <1>1, <1>2, <1>4, <2>2
  <2> QED BY <2>1, <2>2
<1> QED BY <1>4

\* The read of a method that is answered takes the whole answer.
LEMMA AnswerRead ==
    ASSUME TypeOK, NEW m \in Methods, last \in Services, answers = AnswerOf(m, last),
           ReadAnswer(m)
    PROVE  /\ answers' = <<>>
           /\ \A k \in 1..Length[m][last] :
                k \in DOMAIN buf'[m] /\ buf'[m][k] = [of |-> m, from |-> last]
           /\ \A o \in Methods \ {m} : buf'[o] = buf[o]
<1> DEFINE n == Least(Size[m], Len(answers))
<1>1. /\ Len(answers) = Length[m][last] /\ Length[m][last] \in Nat
      /\ \A k \in 1..Length[m][last] : answers[k] = [of |-> m, from |-> last]
      /\ answers \in Seq(Bytes)
  BY AnswerBytes, Known
<1>2. n = Len(answers)
  BY <1>1, Known DEF Least
<1>3. /\ Taken(Len(answers)) \in Seq(Bytes) /\ Len(Taken(Len(answers))) = Len(answers)
      /\ \A k \in 1..Len(answers) : Taken(Len(answers))[k] = answers[k]
      /\ Rest(Len(answers)) = <<>>
  <2>1. Len(answers) \in 0..Len(answers)
    BY <1>1
  <2> QED BY <1>1, <2>1, TakenAndRest
<1>4. buf \in [Methods -> Seq(Bytes)]
  BY DEF TypeOK
<1>5. buf' = [buf EXCEPT ![m] = Overwritten(buf[m], Taken(n))] /\ answers' = Rest(n)
  BY DEF ReadAnswer
<1> HIDE DEF n
<1>6. \A k \in 1..Len(answers) :
        /\ k \in DOMAIN Overwritten(buf[m], Taken(Len(answers)))
        /\ Overwritten(buf[m], Taken(Len(answers)))[k] = answers[k]
  <2>1. buf[m] \in Seq(Bytes)
    BY <1>4
  <2>2. \A k \in 1..Len(Taken(Len(answers))) :
          /\ k \in DOMAIN Overwritten(buf[m], Taken(Len(answers)))
          /\ Overwritten(buf[m], Taken(Len(answers)))[k] = Taken(Len(answers))[k]
    BY <1>3, <2>1, OverwrittenFront
  <2> QED BY <1>3, <2>2
<1>7. buf'[m] = Overwritten(buf[m], Taken(Len(answers)))
  BY <1>2, <1>4, <1>5
<1> QED BY <1>1, <1>2, <1>3, <1>4, <1>5, <1>6, <1>7

\* A step of the D-Bus process.
LEMMA BusInStep ==
    ASSUME IInv, DbusStep \/ AskReload \/ AskShutdown \/ \E m \in Methods : Ask(m)
    PROVE  StreamInv' /\ FreshAnswers'
<1>1. TypeOK /\ TypeOK' /\ LifeInv /\ StreamInv /\ FreshAnswers
  BY BusTyped DEF IInv
<1> USE DEF service, stream
<1>2. /\ Methods \cap {"init", "idle", "reload", "stuck", "gone", "ready"} = {}
      /\ Services = 1..MaxStarts
  BY Known DEF Services
<1>3. last \in announced => last \in Services
  BY <1>1 DEF TypeOK
<1>4. UNCHANGED <<helper, announced, last>> /\ surplus' = surplus
  BY DEF DbusStep, DbusStarts, TakeHup, ReadReady, DbusEnds, ReadAnswer, AskReload,
         AskShutdown, Ask
<1>5. CASE surplus
  BY <1>4, <1>5 DEF StreamInv, FreshAnswers
<1> SUFFICES ASSUME ~surplus PROVE StreamInv' /\ FreshAnswers'
  BY <1>5
<1>6. CASE DbusStarts
  <2>1. /\ dbus = "init" /\ answers # <<>> /\ dbus' = "idle" /\ answers' = Rest(1)
        /\ UNCHANGED <<hup, has, buf, requests>>
    BY <1>6 DEF DbusStarts
  <2>2. ByteInv /\ last \in announced /\ Len(answers) = 1
    BY <1>1, <2>1 DEF StreamInv, ByteInv
  <2>3. answers' = <<>>
    BY <1>1, <2>1, <2>2, TakenAndRest DEF TypeOK
  <2>4. NoRequest' /\ NoHelper'
    BY <1>4, <2>1, <2>2 DEF ByteInv, NoRequest, NoHelper
  <2>5. StreamInv'
    BY <1>2, <1>4, <2>1, <2>2, <2>3, <2>4 DEF StreamInv, ByteInv
  <2> QED BY <1>1, <1>4, <2>1, <2>5, FreshFrame
<1>7. CASE TakeHup
  <2>1. dbus' = "idle" /\ dbus = "idle" /\ UNCHANGED <<requests, answers>>
    BY <1>7 DEF TakeHup
  <2>2. StreamInv'
    BY <1>1, <1>2, <1>4, <2>1 DEF StreamInv, ByteInv, NoRequest, NoHelper
  <2>3. has' \ Unkept = {}
    BY <1>7 DEF TakeHup
  <2> QED BY <2>2, <2>3 DEF FreshAnswers
<1>8. CASE ReadReady
  <2>1. /\ dbus = "reload" /\ answers # <<>> /\ dbus' = "idle"
        /\ answers' = Rest(Least(IntSize, Len(answers)))
        /\ UNCHANGED <<hup, has, buf, requests>>
    BY <1>8 DEF ReadReady
  <2>2. ByteInv /\ last \in announced /\ Len(answers) = 1
    BY <1>1, <2>1 DEF StreamInv, ByteInv
  <2>3. Least(IntSize, Len(answers)) = 1
    BY <2>2, Known DEF Least
  <2>4. answers' = <<>>
    BY <1>1, <2>1, <2>2, <2>3, TakenAndRest DEF TypeOK
  <2>5. NoRequest' /\ NoHelper'
    BY <1>4, <2>1, <2>2 DEF ByteInv, NoRequest, NoHelper
  <2>6. StreamInv'
    BY <1>2, <1>4, <2>1, <2>2, <2>4, <2>5 DEF StreamInv, ByteInv
  <2> QED BY <1>1, <1>4, <2>1, <2>6, FreshFrame
<1>9. CASE DbusEnds
  <2>1. dbus' = "gone" /\ UNCHANGED <<hup, has, buf>>
    BY <1>9 DEF DbusEnds
  <2>2. StreamInv'
    BY <1>2, <2>1 DEF StreamInv
  <2> QED BY <1>1, <1>4, <2>1, <2>2, FreshFrame
<1>10. CASE AskReload
  <2>1. /\ dbus = "idle" /\ dbus' = "reload"
        /\ UNCHANGED <<hup, has, buf, requests, answers>>
    BY <1>10 DEF AskReload
  <2>2. StreamInv'
    BY <1>1, <1>2, <1>4, <2>1 DEF StreamInv, ByteInv, NoRequest, NoHelper
  <2> QED BY <1>1, <1>4, <2>1, <2>2, FreshFrame
<1>11. CASE AskShutdown
  <2>1. /\ dbus = "idle" /\ dbus' \in {"idle", "stuck"} /\ Request("Shutdown")
        /\ UNCHANGED <<hup, has, buf, answers>>
    BY <1>11 DEF AskShutdown
  <2>2. NoRequest /\ NoHelper /\ answers = <<>> /\ last \in announced
    BY <1>1, <2>1 DEF StreamInv, ByteInv
  <2>3. NoRequest' /\ NoHelper'
    BY <1>1, <1>4, <2>1, <2>2, ShutdownAsked DEF NoHelper
  <2>4. StreamInv'
    BY <1>2, <1>4, <2>1, <2>2, <2>3 DEF StreamInv, ByteInv
  <2> QED BY <1>1, <1>4, <2>1, <2>4, FreshFrame
<1>12. ASSUME NEW m \in Methods, Ask(m) PROVE StreamInv' /\ FreshAnswers'
  <2>1. /\ dbus = "idle" /\ dbus' = m /\ Request(m)
        /\ UNCHANGED <<hup, has, buf, answers>>
    BY <1>12 DEF Ask
  <2>2. NoRequest /\ NoHelper /\ answers = <<>> /\ last \in announced
    BY <1>1, <2>1 DEF StreamInv, ByteInv
  <2>3. MethodInv(m)'
    BY <1>1, <1>4, <2>1, <2>2, MethodAsked DEF MethodInv, NoHelper
  <2>4. StreamInv'
    BY <1>2, <2>1, <2>3 DEF StreamInv
  <2> QED BY <1>1, <1>4, <2>1, <2>4, FreshFrame
<1>13. ASSUME NEW m \in Methods, ReadAnswer(m) PROVE StreamInv' /\ FreshAnswers'
  <2>1. /\ dbus = m /\ answers # <<>> /\ dbus' = "idle" /\ has' = has \cup {m}
        /\ UNCHANGED <<hup, requests>>
    BY <1>13 DEF ReadAnswer
  <2>2. /\ last \in announced /\ answers = AnswerOf(m, last) /\ NoRequest /\ NoHelper
    BY <1>1, <2>1 DEF StreamInv, MethodInv
  <2>3. /\ answers' = <<>>
        /\ \A k \in 1..Length[m][last] :
             k \in DOMAIN buf'[m] /\ buf'[m][k] = [of |-> m, from |-> last]
        /\ \A o \in Methods \ {m} : buf'[o] = buf[o]
    BY <1>1, <1>3, <1>13, <2>2, AnswerRead
  <2>4. StreamInv'
    BY <1>2, <1>4, <2>1, <2>2, <2>3 DEF StreamInv, ByteInv, NoRequest, NoHelper
  <2>5. FreshAnswers'
    BY <1>1, <1>4, <2>1, <2>3 DEF FreshAnswers, TypeOK
  <2> QED BY <2>4, <2>5
<1> QED BY <1>6, <1>7, <1>8, <1>9, <1>10, <1>11, <1>12, <1>13 DEF DbusStep

\* A step of the supervisor.
LEMMA SuperInStep ==
    ASSUME IInv, Hangup \/ StopService \/ StartService
    PROVE  StreamInv' /\ FreshAnswers'
<1>1. TypeOK /\ LifeInv /\ StreamInv /\ FreshAnswers
  BY DEF IInv
<1> USE DEF bus, service, stream
<1>2. Methods \cap {"none", "starts", "gone"} = {} /\ Methods \cap {"init", "reload"} = {}
  BY Known
<1>3. helper \in [Services -> {"none", "starts", "reads", "gone"} \cup Commands]
  BY <1>1 DEF TypeOK
<1>4. CASE Hangup
  <2>1. UNCHANGED <<dbus, hup, has, buf, requests, answers, helper, announced, last, surplus>>
    BY <1>4 DEF Hangup
  <2> QED BY <1>1, <2>1, FreshFrame
          DEF StreamInv, ByteInv, MethodInv, NoRequest, NoHelper
<1>5. CASE StopService
  <2>1. UNCHANGED <<dbus, hup, has, buf, requests, answers, announced, last, surplus>>
    BY <1>5 DEF StopService
  <2>2. \A s \in Services : helper'[s] \in Methods => helper[s] \in Methods /\ helper'[s] = helper[s]
    BY <1>2, <1>3, <1>5 DEF StopService
  <2> QED BY <1>1, <2>1, <2>2, FreshFrame
          DEF StreamInv, ByteInv, MethodInv, NoRequest, NoHelper
<1>6. CASE StartService
  <2>1. /\ hup' /\ UNCHANGED <<dbus, requests, answers, announced>>
        /\ \A s \in Services : helper'[s] \in Methods => helper[s] \in Methods
    BY <1>2, <1>3, <1>6 DEF StartService
  <2>2. FreshAnswers'
    BY <2>1 DEF FreshAnswers
  <2>3. ~surplus' => ~surplus /\ Awaited
    BY <1>6, Zenon DEF StartService
  <2>4. StreamInv'
    BY <1>1, <1>2, <2>1, <2>3 DEF StreamInv, ByteInv, NoRequest, NoHelper, Awaited
  <2> QED BY <2>2, <2>4
<1> QED BY <1>4, <1>5, <1>6

\* A step of a service.
LEMMA ServiceInStep ==
    ASSUME IInv, NEW s \in Services, ServiceStep(s) \/ Fails(s)
    PROVE  StreamInv' /\ FreshAnswers'
<1>1. TypeOK /\ LifeInv /\ StreamInv /\ FreshAnswers
  BY DEF IInv
<1> USE DEF bus, service, stream
<1>2. /\ Methods \cap {"none", "starts", "reads", "gone", "Shutdown", "zero"} = {}
      /\ Methods \cap {"init", "reload", "idle"} = {}
  BY Known
<1>3. /\ helper \in [Services -> {"none", "starts", "reads", "gone"} \cup Commands]
      /\ requests \in Seq(Commands \cup {"zero"}) /\ answers \in Seq(Bytes)
  BY <1>1 DEF TypeOK
<1>4. UNCHANGED <<dbus, hup, has, buf, last, surplus>>
  BY DEF ServiceStep, StartHelper, Announce, ReadCommand, CallShutdown, Answer, Fails
<1>5. FreshAnswers'
  BY <1>1, <1>4, FreshFrame
<1> SUFFICES ASSUME ~surplus PROVE StreamInv'
  BY <1>4, <1>5 DEF StreamInv
<1>6. CASE StartHelper(s) \/ CallShutdown(s) \/ Fails(s)
  <2>1. UNCHANGED <<requests, answers, announced>>
    BY <1>6 DEF StartHelper, CallShutdown, Fails
  <2>2. \A t \in Services : helper'[t] \in Methods => helper[t] \in Methods /\ helper'[t] = helper[t]
    BY <1>2, <1>3, <1>6 DEF StartHelper, CallShutdown, Fails
  <2> QED BY <1>1, <1>4, <2>1, <2>2
          DEF StreamInv, ByteInv, MethodInv, NoRequest, NoHelper
<1>7. CASE Announce(s)
  <2>1. /\ s \notin announced /\ announced' = announced \cup {s} /\ helper[s] \notin Ended
        /\ answers' = Append(answers, [of |-> "ready", from |-> s])
        /\ UNCHANGED <<requests, helper>>
    BY <1>7 DEF Announce, Ended
  <2>2. s = last
    BY <1>1, <2>1, OneLives
  <2>3. \A m \in Methods : dbus # m
    BY <1>1, <2>1, <2>2 DEF StreamInv, MethodInv
  <2>4. dbus # "idle"
    BY <1>1, <2>1, <2>2 DEF StreamInv
  <2>5. dbus \in {"init", "reload"} => answers = <<>>
    BY <1>1, <2>1, <2>2 DEF StreamInv, ByteInv
  <2>6. answers = <<>> => answers' = <<[of |-> "ready", from |-> last]>>
    BY <2>1, <2>2
  <2>7. dbus \in {"init", "reload"} => ByteInv'
    BY <1>1, <1>4, <2>1, <2>2, <2>5, <2>6 DEF StreamInv, ByteInv, NoRequest, NoHelper
  <2> QED BY <1>4, <2>3, <2>4, <2>7 DEF StreamInv
<1>8. CASE ReadCommand(s)
  <2> DEFINE c == Head(requests)
  <2>1. /\ helper[s] = "reads" /\ UNCHANGED <<answers, announced>>
        /\ helper' = [helper EXCEPT ![s] = IF c \in Commands THEN c ELSE @]
    BY <1>8 DEF ReadCommand
  <2>2. /\ c = requests[1] /\ 1 \in DOMAIN requests
        /\ \A i \in DOMAIN requests' : /\ i + 1 \in DOMAIN requests /\ i \in Nat \ {0}
                                       /\ requests'[i] = requests[i + 1]
    BY <1>3, <1>8, CommandTaken
  <2> HIDE DEF c
  <2>3. NoRequest => NoRequest' /\ c \notin Methods
    BY <2>2 DEF NoRequest
  <2>4. /\ \A t \in Services \ {s} : helper'[t] = helper[t]
        /\ helper'[s] \in Methods => c \in Methods /\ helper'[s] = c
    BY <1>2, <1>3, <2>1
  <2>5. NoHelper /\ c \notin Methods => NoHelper'
    BY <2>4 DEF NoHelper
  <2>6. dbus \in {"init", "reload", "idle"} => (ByteInv => ByteInv')
    BY <1>4, <2>1, <2>3, <2>5 DEF ByteInv
  <2>7. ASSUME NEW m \in Methods, dbus = m PROVE MethodInv(m)'
    <3>1. MethodInv(m)
      BY <1>1, <2>7 DEF StreamInv
    <3>2. last' \in announced' /\ UNCHANGED <<answers, last>>
      BY <1>4, <2>1, <3>1 DEF MethodInv
    <3>3. CASE /\ answers = <<>> /\ NoHelper
               /\ \A i, j \in DOMAIN requests :
                    requests[i] \in Methods /\ requests[j] \in Methods
                        => i = j /\ requests[i] = m
      <4>1. CASE c \in Methods
        <5>1. NoRequest'
          <6> SUFFICES ASSUME NEW i \in DOMAIN requests', requests'[i] \in Methods PROVE FALSE
            BY DEF NoRequest
          <6>1. i + 1 = 1
            BY <2>2, <3>3, <4>1
          <6> QED BY <2>2, <6>1
        <5>2. c = m
          BY <2>2, <3>3, <4>1
        <5>3. \A t \in Services : helper'[t] \in Methods => helper'[t] = m
          BY <2>4, <3>3, <5>2 DEF NoHelper
        <5> QED BY <3>2, <3>3, <5>1, <5>3 DEF MethodInv
      <4>2. CASE c \notin Methods
        <5>1. \A i, j \in DOMAIN requests' :
                requests'[i] \in Methods /\ requests'[j] \in Methods
                    => i = j /\ requests'[i] = m
          <6> SUFFICES ASSUME NEW i \in DOMAIN requests', NEW j \in DOMAIN requests',
                              requests'[i] \in Methods, requests'[j] \in Methods
                       PROVE  i = j /\ requests'[i] = m
            OBVIOUS
          <6>1. i + 1 = j + 1 /\ requests[i + 1] = m
            BY <2>2, <3>3
          <6> QED BY <2>2, <6>1
        <5> QED BY <2>5, <3>2, <3>3, <4>2, <5>1 DEF MethodInv
      <4> QED BY <4>1, <4>2
    <3>4. CASE /\ answers = <<>> /\ NoRequest
               /\ \A t \in Services : helper[t] \in Methods => helper[t] = m
      <4>1. \A t \in Services : helper'[t] \in Methods => helper'[t] = m
        BY <2>3, <2>4, <3>4
      <4> QED BY <2>3, <3>2, <3>4, <4>1 DEF MethodInv
    <3>5. CASE answers = AnswerOf(m, last) /\ NoRequest /\ NoHelper
      BY <2>3, <2>5, <3>2, <3>5 DEF MethodInv, AnswerOf
    <3> QED BY <3>1, <3>3, <3>4, <3>5 DEF MethodInv
  <2> QED BY <1>1, <1>4, <2>1, <2>6, <2>7 DEF StreamInv
<1>9. ASSUME NEW m \in Methods, Answer(s, m) PROVE StreamInv'
  <2>1. /\ helper[s] = m /\ helper' = [helper EXCEPT ![s] = "reads"]
        /\ answers' = answers \o AnswerOf(m, s) /\ UNCHANGED <<requests, announced>>
    BY <1>9 DEF Answer, AnswerOf
  <2>2. s = last
    BY <1>1, <1>2, <2>1, OneLives DEF Ended
  <2>3. ~NoHelper
    BY <2>1 DEF NoHelper
  <2>4. dbus \notin {"init", "reload", "idle"}
    BY <1>1, <2>3 DEF StreamInv, ByteInv
  <2>5. ASSUME NEW o \in Methods, dbus = o PROVE MethodInv(o)'
    <3>1. /\ answers = <<>> /\ NoRequest /\ last \in announced /\ m = o
      BY <1>1, <2>1, <2>3, <2>5 DEF StreamInv, MethodInv
    <3>2. answers' = AnswerOf(o, last)
      BY <2>1, <2>2, <3>1, AnswerBytes, ConcatEmptySeq
    <3>3. NoHelper'
      <4> SUFFICES ASSUME NEW t \in Services, helper'[t] \in Methods PROVE FALSE
        BY DEF NoHelper
      <4>1. t # s /\ helper[t] \in Methods
        BY <1>2, <1>3, <2>1
      <4>2. t = last
        BY <1>1, <1>2, <4>1, OneLives DEF Ended
      <4> QED BY <2>2, <4>1, <4>2
    <3> QED BY <1>4, <2>1, <3>1, <3>2, <3>3 DEF MethodInv, NoRequest, AnswerOf
  <2> QED BY <1>4, <2>4, <2>5 DEF StreamInv
<1> QED BY <1>6, <1>7, <1>8, <1>9 DEF ServiceStep
-----------------------------------------------------------------------------
(* The theorems.                                                           *)

\* Nobody but the last service is at the socket, one answer is on its way at most,
\* and what a method has is fresh.
THEOREM Invariance == Spec => []IInv
<1>1. Init => IInv
  <2> SUFFICES ASSUME Init PROVE IInv
    OBVIOUS
  <2>1. TypeOK
    BY InitTyped
  <2>2. NoRequest /\ NoHelper /\ answers = <<>>
    BY Known DEF Init, NoRequest, NoHelper
  <2>3. StreamInv
    BY <2>2, Known DEF Init, StreamInv, ByteInv
  <2>4. LifeInv /\ FreshAnswers
    BY DEF Init, LifeInv, FreshAnswers, Ended
  <2> QED BY <2>1, <2>3, <2>4 DEF IInv
<1>2. IInv /\ [Next]_vars => IInv'
  <2> SUFFICES ASSUME IInv, [Next]_vars PROVE IInv'
    OBVIOUS
  <2>1. LifeInv'
    BY LifeKept DEF IInv
  <2>2. CASE DbusStep \/ AskReload \/ AskShutdown \/ \E m \in Methods : Ask(m)
    BY <2>1, <2>2, BusTyped, BusInStep DEF IInv
  <2>3. CASE Hangup \/ StopService \/ StartService
    BY <2>1, <2>3, ServicesTyped, SuperInStep DEF IInv
  <2>4. CASE \E s \in Services : ServiceStep(s) \/ Fails(s)
    BY <2>1, <2>4, ServicesTyped, ServiceInStep DEF IInv
  <2>5. CASE UNCHANGED vars
    BY <2>1, <2>5 DEF IInv, TypeOK, StreamInv, ByteInv, MethodInv, NoRequest, NoHelper,
       AnswerOf, FreshAnswers, vars, bus, stream, service
  <2>6. CASE ForkFails
    <3>1. TypeOK'
      BY <2>6, ServicesTyped DEF IInv
    <3>2. FreshAnswers'
      BY <2>6 DEF ForkFails, FreshAnswers
    <3>3. StreamInv'
      BY <2>6 DEF ForkFails, IInv, StreamInv, ByteInv, MethodInv, NoRequest, NoHelper,
         AnswerOf, stream
    <3> QED BY <2>1, <3>1, <3>2, <3>3 DEF IInv
  <2> QED BY <2>2, <2>3, <2>4, <2>5, <2>6 DEF Next
<1> QED BY <1>1, <1>2, PTL DEF Spec

\* The stream has its types, and when no method is going on nothing is left in
\* it: dbusapi.cpp reads without looking for a frame.
THEOREM InStepKept == Spec => []StreamOK
<1>1. IInv => StreamOK
  BY DEF IInv, StreamOK, InStep, StreamInv, ByteInv, NoRequest, NoHelper
<1> QED BY <1>1, Invariance, PTL

\* What the D-Bus process hands out is what the running service has said to this
\* method, once the SIGHUP of the reload is taken.
THEOREM AnswersAreFresh == Spec => []FreshAnswers
<1>1. IInv => FreshAnswers
  BY DEF IInv
<1> QED BY <1>1, Invariance, PTL
-----------------------------------------------------------------------------
(* That who waits will be answered: the part of MethodReturns and of         *)
(* ReloadReturns that needs no fairness.                                     *)

\* The supervisor has a service to start when it is about to start one, and takes
\* another SIGHUP only when there is one left; a service that is up is at work, and
\* one that was not started has done nothing.
AbleInv ==
    /\ down = "up" => last \in Services /\ helper[last] \notin Ended
    /\ down = "restart" => last < MaxStarts
    /\ sighup => last < MaxStarts /\ (down = "restart" => last + 1 < MaxStarts)
    /\ \A s \in Services : s > last => helper[s] = "none"

\* The next bytes are there, or the service will write its first.
Coming == answers # <<>> \/ last \notin announced

\* A question is on the way, or with the service.
OnItsWay(m) == (\E i \in DOMAIN requests : requests[i] = m) \/ helper[last] = m

\* What the D-Bus process waits for will come.
Waited ==
    /\ dbus = "init" /\ down = "up" => Coming
    /\ dbus = "reload" /\ ~detached /\ down = "up" => Coming \/ sighup
    /\ \A m \in Methods : dbus = m /\ down = "up" => Coming \/ OnItsWay(m)

\* Every step of the supervisor leaves a service to start.
LEMMA AbleStep ==
    ASSUME TypeOK, LifeInv, AbleInv, [Next]_vars
    PROVE  AbleInv'
<1> USE DEF AbleInv, bus, stream, service
<1>1. /\ MaxStarts \in Nat \ {0} /\ last \in 0..MaxStarts /\ Services = 1..MaxStarts
      /\ helper \in [Services -> {"none", "starts", "reads", "gone"} \cup Commands]
      /\ Commands \cap Ended = {} /\ sighup \in BOOLEAN
  BY Known DEF TypeOK, Services, Commands, Ended
<1>2. CASE UNCHANGED <<last, down, helper, sighup>>
  BY <1>2
<1>3. CASE AskReload
  BY <1>1, <1>3 DEF AskReload, Reloads
<1>4. CASE Hangup
  BY <1>1, <1>4 DEF Hangup, Reloads
<1>5. CASE StopService
  BY <1>1, <1>5 DEF StopService
<1>6. CASE StartService
  BY <1>1, <1>6 DEF StartService, Ended
<1>7. ASSUME NEW s \in Services, ServiceStep(s) PROVE AbleInv'
  <2>1. CASE StartHelper(s)
    BY <1>1, <2>1 DEF StartHelper, Ended
  <2>2. CASE Announce(s)
    BY <2>2 DEF Announce
  <2>3. CASE ReadCommand(s)
    BY <1>1, <2>3 DEF ReadCommand, Ended
  <2>4. CASE CallShutdown(s)
    <3>1. s = last
      BY <1>1, <2>4, OneLives DEF CallShutdown, Ended
    <3> QED BY <1>1, <2>4, <3>1 DEF CallShutdown, Ended
  <2>5. ASSUME NEW m \in Methods, Answer(s, m) PROVE AbleInv'
    <3>1. s = last
      BY <1>1, <2>5, OneLives DEF Answer, Ended, Commands
    <3> QED BY <1>1, <2>5, <3>1 DEF Answer, Ended
  <2> QED BY <1>7, <2>1, <2>2, <2>3, <2>4, <2>5 DEF ServiceStep
<1>8. ASSUME NEW s \in Services, Fails(s) PROVE AbleInv'
  BY <1>1, <1>8, OneLives DEF Fails, Ended
<1>9. CASE DbusStep \/ AskShutdown \/ (\E m \in Methods : Ask(m)) \/ UNCHANGED vars
  BY <1>2, <1>9
     DEF DbusStep, DbusStarts, TakeHup, ReadReady, DbusEnds, ReadAnswer,
         AskShutdown, Ask, vars
<1>10. CASE ForkFails
  BY <1>1, <1>10 DEF ForkFails
<1> QED BY <1>3, <1>4, <1>5, <1>6, <1>7, <1>8, <1>9, <1>10 DEF Next

\* The D-Bus process begins to wait when it has asked.
LEMMA BusWaits ==
    ASSUME TypeOK, Waited,
           DbusStep \/ AskReload \/ AskShutdown \/ \E m \in Methods : Ask(m)
    PROVE  Waited'
<1> USE DEF Waited, Coming, OnItsWay, service, stream
<1>1. Methods \cap {"init", "idle", "reload", "stuck", "gone"} = {}
  BY Known
<1>2. CASE DbusStarts \/ ReadReady \/ DbusEnds \/ AskShutdown
  BY <1>1, <1>2 DEF DbusStarts, ReadReady, DbusEnds, AskShutdown
<1>3. CASE TakeHup
  BY <1>1, <1>3 DEF TakeHup
<1>4. ASSUME NEW m \in Methods, ReadAnswer(m) PROVE Waited'
  BY <1>1, <1>4 DEF ReadAnswer
<1>5. CASE AskReload
  BY <1>1, <1>5 DEF AskReload
<1>6. ASSUME NEW m \in Methods, Ask(m) PROVE Waited'
  <2>1. m \in Commands /\ requests \in Seq(Commands \cup {"zero"}) /\ Request(m)
    BY <1>6 DEF TypeOK, Commands, Ask
  <2>2. /\ DOMAIN requests' = 1..(Len(requests) + 2)
        /\ \A i \in DOMAIN requests' :
             requests'[i] = IF i <= Len(requests) THEN requests[i]
                            ELSE IF i = Len(requests) + 1 THEN m ELSE "zero"
    BY <2>1, RequestAdds
  <2>3. Len(requests) + 1 \in 1..(Len(requests) + 2) /\ Len(requests) \in Nat
    BY <2>1, LenProperties
  <2>4. \E i \in DOMAIN requests' : requests'[i] = m
    BY <2>2, <2>3
  <2> QED BY <1>1, <1>6, <2>4 DEF Ask
<1> QED BY <1>2, <1>3, <1>4, <1>5, <1>6 DEF DbusStep

\* A service that takes the question has it, and one that has it answers or ends
\* everything.
LEMMA ServiceWaited ==
    ASSUME TypeOK, LifeInv, Waited, NEW s \in Services, ServiceStep(s) \/ Fails(s)
    PROVE  Waited'
<1> USE DEF Waited, Coming, OnItsWay, bus, stream, service
<1>1. /\ Methods \cap {"none", "starts", "reads", "gone", "Shutdown", "zero"} = {}
      /\ helper \in [Services -> {"none", "starts", "reads", "gone"} \cup Commands]
      /\ requests \in Seq(Commands \cup {"zero"}) /\ answers \in Seq(Bytes)
  BY Known DEF TypeOK
<1>2. CASE StartHelper(s)
  BY <1>1, <1>2 DEF StartHelper
<1>3. CASE Announce(s)
  <2>1. answers' # <<>>
    BY <1>1, <1>3, EmptySeq, AppendProperties DEF Announce, Bytes
  <2> QED BY <1>3, <2>1 DEF Announce
<1>4. CASE ReadCommand(s)
  <2>1. s = last /\ helper[s] = "reads"
    BY <1>4, OneLives DEF ReadCommand, Ended
  <2>2. helper' = [helper EXCEPT ![s] =
                     IF requests[1] \in Commands THEN requests[1] ELSE @]
    BY <1>4, CommandTaken, <1>1 DEF ReadCommand
  <2>3. UNCHANGED <<dbus, answers, announced, last, down, sighup, detached>>
    BY <1>4 DEF ReadCommand
  <2>4. ASSUME NEW m \in Methods, OnItsWay(m) PROVE OnItsWay(m)'
    <3>1. PICK i \in DOMAIN requests : requests[i] = m
      BY <1>1, <2>1, <2>4
    <3>2. CASE i = 1
      BY <1>1, <2>1, <2>2, <2>3, <3>1, <3>2 DEF Commands
    <3>3. CASE i # 1
      <4>1. /\ requests # <<>> /\ requests' = Tail(requests)
            /\ Len(requests) \in Nat /\ DOMAIN requests = 1..Len(requests)
        BY <1>1, <1>4, LenProperties DEF ReadCommand
      <4>2. /\ Len(requests') = Len(requests) - 1 /\ DOMAIN requests' = 1..Len(requests')
            /\ \A j \in 1..Len(requests') : requests'[j] = requests[j + 1]
        BY <1>1, <4>1, HeadTailProperties, LenProperties
      <4>3. i - 1 \in 1..Len(requests') /\ (i - 1) + 1 = i
        BY <3>1, <3>3, <4>1, <4>2
      <4> QED BY <3>1, <4>2, <4>3
    <3> QED BY <3>2, <3>3
  <2> QED BY <2>3, <2>4
<1>5. CASE CallShutdown(s) \/ Fails(s)
  <2>1. s = last \/ helper' = helper
    BY <1>5, OneLives DEF CallShutdown, Fails, Ended
  <2>2. UNCHANGED <<dbus, requests, answers, announced, last, sighup, detached>>
    BY <1>5 DEF CallShutdown, Fails
  <2>3. down' = "ends" \/ (down' = down /\ helper[s] = "Shutdown")
    BY <1>5 DEF CallShutdown, Fails
  <2>4. s = last
    BY <1>5, OneLives DEF CallShutdown, Fails, Ended
  <2> QED BY <1>1, <2>2, <2>3, <2>4
<1>6. ASSUME NEW m \in Methods, Answer(s, m) PROVE Waited'
  <2>1. answers' = answers \o AnswerOf(m, s)
    BY <1>6 DEF Answer, AnswerOf
  <2>2. answers' # <<>>
    <3>1. AnswerOf(m, s) \in Seq(Bytes) /\ AnswerOf(m, s) # <<>>
      BY AnswerBytes
    <3> QED BY <1>1, <2>1, <3>1, ConcatProperties, EmptySeq
  <2> QED BY <1>6, <2>2 DEF Answer
<1> QED BY <1>2, <1>3, <1>4, <1>5, <1>6 DEF ServiceStep

LEMMA WaitedStep ==
    ASSUME TypeOK, LifeInv, Waited, [Next]_vars
    PROVE  Waited'
<1>1. CASE Hangup
  BY <1>1 DEF Hangup, Waited, Coming, OnItsWay, bus, stream, service
<1>2. CASE StopService
  BY <1>2 DEF StopService, Waited
<1>3. CASE StartService
  <2>1. last + 1 \in Services /\ last + 1 \notin announced
    BY <1>3, Known DEF StartService, LifeInv, TypeOK, Services
  <2> QED BY <1>3, <2>1 DEF StartService, Waited, Coming, stream
<1>4. CASE UNCHANGED vars
  BY <1>4 DEF vars, Waited, Coming, OnItsWay, bus, stream, service
<1>5. CASE ForkFails
  BY <1>5 DEF ForkFails, Waited
<1> QED BY <1>1, <1>2, <1>3, <1>4, <1>5, BusWaits, ServiceWaited DEF Next

\* The D-Bus process never waits for what nobody will write: while a service is up,
\* the bytes it reads are in the socket, the service is still to say that it is
\* ready, or the question is on the way or with the service; and the supervisor can
\* always start the service that replaces one it has stopped.  This holds however
\* reloads and methods overlap, with or without bytes left over.
THEOREM NobodyWaitsInVain == Spec => [](Waited /\ AbleInv)
<1>1. Init => LifeInv /\ AbleInv /\ Waited
  <2> SUFFICES ASSUME Init PROVE LifeInv /\ AbleInv /\ Waited
    OBVIOUS
  <2>1. Methods \cap {"init"} = {} /\ MaxStarts \in Nat \ {0}
    BY Known
  <2> QED BY <2>1 DEF Init, LifeInv, AbleInv, Waited, Ended
<1>2. TypeOK /\ [Next]_vars => TypeOK'
  <2>1. CASE UNCHANGED vars
    BY <2>1 DEF TypeOK, vars, bus, stream, service
  <2> QED BY <2>1, BusTyped, ServicesTyped DEF Next
<1>3. TypeOK /\ LifeInv /\ AbleInv /\ Waited /\ [Next]_vars
        => LifeInv' /\ AbleInv' /\ Waited'
  BY LifeKept, AbleStep, WaitedStep
<1> QED BY <1>1, <1>2, <1>3, InitTyped, PTL DEF Spec

\* What a service still has to do.
Stage(s) ==
    CASE helper[s] \in {"none", "starts"} -> 2
      [] helper[s] \in {"reads", "gone"}  -> 0
      [] OTHER                            -> 1

Effort(s) == 2 * Len(requests) + Stage(s) + (IF s \in announced THEN 0 ELSE 1)

WorkDone ==
    /\ \A s \in Services : ServiceStep(s) => Effort(s)' < Effort(s)
    /\ dbus # "idle" => \A s \in Services : Effort(s)' <= Effort(s)

\* A stage is a small number.
LEMMA StageRange == \A s \in Services : Stage(s) \in 0..2
BY DEF Stage

\* Each step of a service brings it nearer to its rest.
LEMMA ServiceEffort ==
    ASSUME TypeOK, NEW s \in Services, ServiceStep(s)
    PROVE  /\ Effort(s)' < Effort(s)
           /\ \A t \in Services : Effort(t)' <= Effort(t)
<1> DEFINE n   == Len(requests)
           new(t) == IF t \in announced THEN 0 ELSE 1
<1> USE DEF stream, service, bus
<1>1. /\ helper \in [Services -> {"none", "starts", "reads", "gone"} \cup Commands]
      /\ requests \in Seq(Commands \cup {"zero"}) /\ n \in Nat
      /\ Commands \cap {"none", "starts", "reads", "gone"} = {}
  BY Known, LenProperties DEF TypeOK, Commands
<1>2. \A t \in Services : Stage(t) \in 0..2 /\ new(t) \in 0..1
  BY StageRange
<1>3. \A t \in Services : Effort(t) = 2 * n + Stage(t) + new(t)
  BY DEF Effort
<1>4. CASE StartHelper(s)
  <2>1. Stage(s) = 2 /\ Stage(s)' = 0
    BY <1>1, <1>4 DEF StartHelper, Stage
  <2>2. \A t \in Services \ {s} : Stage(t)' = Stage(t)
    BY <1>1, <1>4 DEF StartHelper, Stage
  <2>3. n' = n /\ \A t \in Services : new(t)' = new(t)
    BY <1>4 DEF StartHelper
  <2>4. \A t \in Services : Effort(t)' = 2 * n + Stage(t)' + new(t)
    BY <1>3, <2>3 DEF Effort
  <2> HIDE DEF n, new
  <2> QED BY <1>1, <1>2, <1>3, <2>1, <2>2, <2>4
<1>5. CASE Announce(s)
  <2>1. new(s) = 1 /\ new(s)' = 0
    BY <1>5 DEF Announce
  <2>2. \A t \in Services \ {s} : new(t)' = new(t)
    BY <1>5 DEF Announce
  <2>3. n' = n /\ \A t \in Services : Stage(t)' = Stage(t)
    BY <1>5 DEF Announce, Stage
  <2>4. \A t \in Services : Effort(t)' = 2 * n + Stage(t) + new(t)'
    BY <2>3 DEF Effort
  <2> HIDE DEF n, new
  <2> QED BY <1>1, <1>2, <1>3, <2>1, <2>2, <2>4
<1>6. CASE ReadCommand(s)
  <2>1. Stage(s) = 0 /\ Stage(s)' \in 0..1
    BY <1>1, <1>6 DEF ReadCommand, Stage
  <2>2. \A t \in Services \ {s} : Stage(t)' = Stage(t)
    BY <1>1, <1>6 DEF ReadCommand, Stage
  <2>3. n' = n - 1 /\ n # 0
    BY <1>1, <1>6, HeadTailProperties, EmptySeq DEF ReadCommand
  <2>4. \A t \in Services : new(t)' = new(t)
    BY <1>6 DEF ReadCommand
  <2>5. \A t \in Services : Effort(t)' = 2 * (n - 1) + Stage(t)' + new(t)
    BY <2>3, <2>4 DEF Effort
  <2> HIDE DEF n, new
  <2> QED BY <1>1, <1>2, <1>3, <2>1, <2>2, <2>3, <2>5
<1>7. CASE CallShutdown(s) \/ \E m \in Methods : Answer(s, m)
  <2>1. /\ helper[s] \in Commands
        /\ \E to \in {"reads", "gone"} : helper' = [helper EXCEPT ![s] = to]
        /\ UNCHANGED <<requests, announced>>
    BY <1>7 DEF CallShutdown, Answer, Commands
  <2>2. Stage(s) = 1 /\ Stage(s)' = 0
    BY <1>1, <2>1 DEF Stage
  <2>3. \A t \in Services \ {s} : Stage(t)' = Stage(t)
    BY <1>1, <2>1 DEF Stage
  <2>4. n' = n /\ \A t \in Services : new(t)' = new(t)
    BY <2>1
  <2>5. \A t \in Services : Effort(t)' = 2 * n + Stage(t)' + new(t)
    BY <2>4 DEF Effort
  <2> HIDE DEF n, new
  <2> QED BY <1>1, <1>2, <1>3, <2>2, <2>3, <2>5
<1> QED BY <1>4, <1>5, <1>6, <1>7 DEF ServiceStep

\* Nobody but an idle D-Bus process gives a service more to do.
LEMMA OthersEffort ==
    ASSUME TypeOK, AbleInv, Next, dbus # "idle",
           \A t \in Services : ~ServiceStep(t)
    PROVE  \A t \in Services : Effort(t)' <= Effort(t)
<1> USE DEF stream, service, bus
<1>1. /\ helper \in [Services -> {"none", "starts", "reads", "gone"} \cup Commands]
      /\ Len(requests) \in Nat /\ Services = 1..MaxStarts /\ last \in 0..MaxStarts
  BY Known, LenProperties DEF TypeOK, Services
<1>2. \A t \in Services : Stage(t) \in 0..2 /\ Effort(t) \in Nat
  BY <1>1, StageRange DEF Effort
<1>3. UNCHANGED <<requests, announced>>
  BY DEF Next, DbusStep, DbusStarts, TakeHup, ReadReady, DbusEnds, ReadAnswer,
         AskReload, AskShutdown, Ask, Hangup, StopService, StartService, ForkFails,
         Fails
<1>4. \A t \in Services : Stage(t)' <= Stage(t)
  <2>1. CASE UNCHANGED helper
    BY <1>2, <2>1 DEF Stage
  <2>2. CASE \E t \in Services : helper' = [helper EXCEPT ![t] = "gone"]
    BY <1>1, <1>2, <2>2 DEF Stage
  <2>3. CASE StopService
    <3>1. helper' = [helper EXCEPT ![last] = "gone"]
      BY <2>3 DEF StopService
    <3> QED BY <1>1, <1>2, <3>1 DEF Stage
  <2>4. CASE StartService
    <3>1. last + 1 \in Services /\ last + 1 > last
      BY <1>1, <2>4, Known DEF StartService
    <3>2. helper[last + 1] = "none"
      BY <3>1 DEF AbleInv
    <3>3. helper' = [helper EXCEPT ![last + 1] = "starts"]
      BY <2>4 DEF StartService
    <3> QED BY <1>1, <1>2, <3>1, <3>2, <3>3 DEF Stage
  <2> QED
    BY <2>1, <2>2, <2>3, <2>4
       DEF Next, DbusStep, DbusStarts, TakeHup, ReadReady, DbusEnds, ReadAnswer,
           AskReload, AskShutdown, Ask, Hangup, ForkFails, Fails
<1>5. \A t \in Services : Stage(t)' \in 0..2
  BY DEF Stage
<1> QED BY <1>1, <1>2, <1>3, <1>4, <1>5 DEF Effort

\* A service never goes round in a circle: whatever it does leaves it with less to
\* do, and while the D-Bus process waits nothing is added.  With NobodyWaitsInVain
\* only fairness is missing to MethodReturns and ReloadReturns.
THEOREM ServicesRest == Spec => [][WorkDone]_vars
<1>1. TypeOK /\ AbleInv /\ [Next]_vars => [WorkDone]_vars
  BY ServiceEffort, OthersEffort DEF WorkDone
<1>2. IInv => TypeOK
  BY DEF IInv
<1> QED BY <1>1, <1>2, Invariance, NobodyWaitsInVain, PTL DEF Spec
=============================================================================
