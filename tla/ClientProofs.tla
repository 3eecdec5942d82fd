---------------------------- MODULE ClientProofs ----------------------------
(***************************************************************************)
(* Theorems about Client, for any bounds and whatever the server sends.    *)
(***************************************************************************)
EXTENDS Client, SequenceTheorems, TLAPS

LOCAL INSTANCE SequencesExt

\* The line core_thread is about to send.
Holding == IF core \in Lines THEN <<core>> ELSE << >>

\* What has been typed is what has been sent, then the line at hand, then what
\* waits in core.
Accounted == typed = Sent \o (Holding \o fromInput)

\* core_thread has nothing at hand once the client is dead, and as long as it
\* is alive no /quit has been sent.
QuitIsLast ==
  /\ ~alive => core \in {"head", "ended"}
  /\ alive => \A i \in 1 .. Len(Sent) : Sent[i] # "/quit"

LEMMA CoreLines ==
  \A p \in {"head", "blocked", "ended"} : p \notin Lines
BY DEF Lines

\* A queue, or the history of one, and a line more or less.
LEMMA LineQueue ==
  ASSUME NEW S, NEW q \in Seq(S)
  PROVE  /\ Len(q) \in Nat
         /\ \A l \in S : Append(q, l) \in Seq(S) /\ Len(Append(q, l)) = Len(q) + 1
         /\ q # << >> => /\ Head(q) \in S /\ Tail(q) \in Seq(S)
                         /\ Len(Tail(q)) = Len(q) - 1
                         /\ q = <<Head(q)>> \o Tail(q)
<1>1. \A l \in S : Append(q, l) \in Seq(S) /\ Len(Append(q, l)) = Len(q) + 1
  BY AppendProperties
<1>2. ASSUME q # << >>
      PROVE  q = <<Head(q)>> \o Tail(q)
  <2>1. Len(q) \in Nat \ {0} /\ Head(q) = q[1] /\ Head(q) \in S
    BY <1>2
  <2>2. /\ Tail(q) \in Seq(S) /\ Len(Tail(q)) = Len(q) - 1
        /\ \A i \in 1 .. Len(q) - 1 : Tail(q)[i] = q[i + 1]
    BY <1>2
  <2>3. <<Head(q)>> \in Seq(S) /\ Len(<<Head(q)>>) = 1 /\ <<Head(q)>>[1] = q[1]
    BY <2>1
  <2> QED
    BY <2>1, <2>2, <2>3
<1> QED
  BY <1>1, <1>2, HeadTailProperties, LenProperties

\* Two pieces of what the user typed, and a third.
LEMMA Regroup ==
  ASSUME NEW s \in Seq(Lines), NEW t \in Seq(Lines), NEW u \in Seq(Lines)
  PROVE  /\ s \o t \in Seq(Lines) /\ Len(s \o t) = Len(s) + Len(t)
         /\ (s \o t) \o u = s \o (t \o u)
         /\ s \o << >> = s /\ << >> \o s = s
  BY ConcatProperties, ConcatAssociative, ConcatEmptySeq

\* TypeOK and the actions, one by one.
LEMMA TypeStep == TypeOK /\ [Next]_vars => TypeOK'
<1> SUFFICES ASSUME TypeOK, [Next]_vars
             PROVE  TypeOK'
  OBVIOUS
<1> USE DEF TypeOK
<1>1. CASE InputStep \/ InputNothing \/ CloseStdin
  <2>1. /\ UNCHANGED <<alive, main, connection, core, fromInput, fromServer,
                        toServer, received, server_up, subscribed, kill, typed>>
        /\ input' \in {input, "head", "getline", "ended"}
        /\ stdin_open' \in {stdin_open, FALSE}
    BY ONLY <1>1 DEF InputStep, InputHead, InputNothing, CloseStdin, threads,
                     network, control, user
  <2>2. stdin_open' \in BOOLEAN
    BY <2>1
  <2> QED
    BY <2>1, <2>2
<1>2. ASSUME NEW l \in Lines, InputLine(l) PROVE TypeOK'
  <2>1. /\ Append(typed, l) \in Seq(Lines) /\ Len(Append(typed, l)) = Len(typed) + 1
        /\ Append(fromInput, l) \in Seq(Lines) /\ Len(typed) \in Nat
    BY LineQueue
  <2> QED
    BY <1>2, <2>1, ClientAssumption DEF InputLine, network, control
<1>3. CASE ConnectionStep \/ Subscribe
  BY <1>3 DEF ConnectionStep, ConnectionHead, ConnectionKill, Subscribe, threads,
              network, control, user
<1>4. ASSUME NEW m \in News, ConnectionNews(m) PROVE TypeOK'
  <2>1. /\ Append(fromServer, m) \in Seq(News) /\ Len(fromServer) \in Nat
        /\ Len(Append(fromServer, m)) = Len(fromServer) + 1
    BY LineQueue
  <2> QED
    BY <1>4, <2>1, ClientAssumption DEF ConnectionNews, network, control, user
<1>5. CASE CoreHead \/ CoreThrows
  BY <1>5 DEF CoreHead, CoreThrows, network, control, user
<1>6. CASE CoreNews
  <2>1. /\ Tail(fromServer) \in Seq(News) /\ Len(fromServer) \in Nat
        /\ Len(Tail(fromServer)) = Len(fromServer) - 1
    BY <1>6, LineQueue DEF CoreNews
  <2> QED
    BY <1>6, <2>1, ClientAssumption DEF CoreNews, network, control, user
<1>7. CASE CoreLine
  <2>1. Tail(fromInput) \in Seq(Lines) /\ Head(fromInput) \in Lines
    BY <1>7, LineQueue DEF CoreLine
  <2> QED
    BY <1>7, <2>1 DEF CoreLine, network, control, user
<1>8. CASE CoreSend
  <2>1. /\ Append(toServer, core) \in Seq(Lines) /\ Len(toServer) \in Nat
        /\ Len(Append(toServer, core)) = Len(toServer) + 1
    BY <1>8, LineQueue DEF CoreSend
  <2> QED
    BY <1>8, <2>1, ClientAssumption DEF CoreSend, control, user
<1>9. CASE MainStep \/ ServerGoes
  BY <1>9 DEF MainStep, SeeDeath, Join, Close, ServerGoes, threads, network,
              control, user
<1>10. CASE ServerReceives
  <2>1. /\ Head(toServer) \in Lines /\ Tail(toServer) \in Seq(Lines)
        /\ Len(Tail(toServer)) = Len(toServer) - 1 /\ Len(toServer) \in Nat
    BY <1>10, LineQueue DEF ServerReceives
  <2>2. Append(received, Head(toServer)) \in Seq(Lines)
    BY <2>1, LineQueue
  <2> QED
    BY <1>10, <2>1, <2>2, ClientAssumption DEF ServerReceives, threads, control, user
<1>11. CASE UNCHANGED vars
  BY <1>11 DEF vars
<1> QED
  BY <1>1, <1>2, <1>3, <1>4, <1>5, <1>6, <1>7, <1>8, <1>9, <1>10, <1>11
  DEF Next, CoreStep

\* Only CoreSend sends; what the server receives moves from the one to the
\* other part of Sent.
LEMMA SentStep ==
  ASSUME TypeOK, [Next]_vars
  PROVE  \/ Sent' = Sent
         \/ CoreSend /\ Sent' = Sent \o <<core>>
<1>1. received \in Seq(Lines) /\ toServer \in Seq(Lines)
  BY DEF TypeOK
<1>2. CASE CoreSend
  <2>1. core \in Lines /\ <<core>> \in Seq(Lines)
    BY <1>2 DEF CoreSend
  <2>2. received' = received /\ toServer' = toServer \o <<core>>
    BY <1>1, <1>2, <2>1, AppendIsConcat DEF CoreSend
  <2>3. (received \o toServer) \o <<core>> = received \o (toServer \o <<core>>)
    BY <1>1, <2>1, Regroup
  <2> QED
    BY <1>2, <2>2, <2>3 DEF Sent
<1>3. CASE ServerReceives
  <2> DEFINE l == Head(toServer)
  <2>1. /\ l \in Lines /\ <<l>> \in Seq(Lines) /\ Tail(toServer) \in Seq(Lines)
        /\ toServer = <<l>> \o Tail(toServer)
    BY <1>1, <1>3, LineQueue DEF ServerReceives
  <2>2. received' = received \o <<l>> /\ toServer' = Tail(toServer)
    BY <1>1, <1>3, <2>1, AppendIsConcat DEF ServerReceives
  <2>3. (received \o <<l>>) \o Tail(toServer) = received \o (<<l>> \o Tail(toServer))
    BY <1>1, <2>1, Regroup
  <2> QED
    BY <2>1, <2>2, <2>3 DEF Sent
<1>4. CASE UNCHANGED <<received, toServer>>
  BY <1>4 DEF Sent
<1> QED
  BY <1>2, <1>3, <1>4
  DEF Next, InputStep, InputHead, InputNothing, CloseStdin, InputLine,
      ConnectionStep, ConnectionHead, ConnectionKill, Subscribe, ConnectionNews,
      CoreStep, CoreHead, CoreNews, CoreLine, CoreThrows, MainStep, SeeDeath,
      Join, Close, ServerGoes, vars, network

LEMMA AccountedStep ==
  ASSUME TypeOK, Accounted, [Next]_vars
  PROVE  Accounted'
<1>1. /\ Sent \in Seq(Lines) /\ Holding \in Seq(Lines) /\ fromInput \in Seq(Lines)
      /\ typed \in Seq(Lines)
  BY Regroup DEF TypeOK, Sent, Holding
<1>2. ASSUME NEW l \in Lines, InputLine(l) PROVE Accounted'
  <2>1. <<l>> \in Seq(Lines) /\ Sent' = Sent /\ Holding' = Holding
    BY <1>2 DEF InputLine, network, Sent, Holding
  <2>2. typed' = typed \o <<l>> /\ fromInput' = fromInput \o <<l>>
    BY <1>1, <1>2, AppendIsConcat DEF InputLine
  <2>3. Holding \o fromInput \in Seq(Lines)
    BY <1>1, Regroup
  <2>4. (Sent \o (Holding \o fromInput)) \o <<l>>
             = Sent \o ((Holding \o fromInput) \o <<l>>)
    BY <1>1, <2>1, <2>3, ConcatAssociative
  <2>5. (Holding \o fromInput) \o <<l>> = Holding \o (fromInput \o <<l>>)
    BY <1>1, <2>1, ConcatAssociative
  <2> QED
    BY <2>1, <2>2, <2>4, <2>5 DEF Accounted
<1>3. CASE CoreLine
  <2>1. /\ Head(fromInput) \in Lines
        /\ fromInput = <<Head(fromInput)>> \o Tail(fromInput)
    BY <1>1, <1>3, LineQueue DEF CoreLine
  <2>2. /\ Sent' = Sent /\ typed' = typed /\ Holding = << >>
        /\ Holding' = <<Head(fromInput)>> /\ fromInput' = Tail(fromInput)
    BY <1>3, <2>1, CoreLines DEF CoreLine, network, user, Sent, Holding
  <2>3. << >> \o fromInput = fromInput
    BY <1>1, Regroup
  <2> QED
    BY <2>1, <2>2, <2>3 DEF Accounted
<1>4. CASE CoreSend
  <2>1. /\ core \in Lines /\ <<core>> \in Seq(Lines) /\ core' = "head"
        /\ typed' = typed /\ fromInput' = fromInput
    BY <1>4 DEF CoreSend, user
  <2>2. Holding = <<core>> /\ Holding' = << >>
    BY <2>1, CoreLines DEF Holding
  <2>3. Sent' = Sent \o <<core>>
    <3>1. received' = received /\ toServer' = toServer \o <<core>>
      BY <1>4, <2>1, AppendIsConcat DEF CoreSend, TypeOK
    <3>2. (received \o toServer) \o <<core>> = received \o (toServer \o <<core>>)
      BY <2>1, Regroup DEF TypeOK
    <3> QED
      BY <3>1, <3>2 DEF Sent
  <2>4. /\ Sent \o (<<core>> \o fromInput) = (Sent \o <<core>>) \o fromInput
        /\ << >> \o fromInput = fromInput
    BY <1>1, <2>1, Regroup
  <2> QED
    BY <2>1, <2>2, <2>3, <2>4 DEF Accounted
<1>5. CASE UNCHANGED <<typed, fromInput, core>> /\ ~CoreSend
  <2>1. Sent' = Sent
    BY <1>5, SentStep
  <2> QED
    BY <1>5, <2>1 DEF Accounted, Holding
<1>6. CASE CoreHead \/ CoreNews
  <2>1. Holding' = Holding /\ UNCHANGED <<typed, fromInput, received, toServer>>
    BY <1>6, CoreLines DEF CoreHead, CoreNews, Holding, network, user
  <2> QED
    BY <2>1 DEF Accounted, Sent
<1>7. \/ \E l \in Lines : InputLine(l)
      \/ CoreLine \/ CoreSend \/ CoreHead \/ CoreNews
      \/ UNCHANGED <<typed, fromInput, core>>
  BY DEF Next, InputStep, InputHead, InputNothing, CloseStdin,
         ConnectionStep, ConnectionHead, ConnectionKill, Subscribe, ConnectionNews,
         CoreStep, CoreThrows, MainStep, SeeDeath,
         Join, Close, ServerReceives, ServerGoes, vars, threads, user
<1> QED
  BY <1>2, <1>3, <1>4, <1>5, <1>6, <1>7

LEMMA QuitIsLastStep ==
  ASSUME TypeOK, QuitIsLast, NothingAfterQuit, [Next]_vars
  PROVE  QuitIsLast' /\ NothingAfterQuit'
<1>1. Sent \in Seq(Lines)
  BY Regroup DEF TypeOK, Sent
<1>2. CASE CoreSend
  <2>1. core \in Lines /\ <<core>> \in Seq(Lines)
    BY <1>2 DEF CoreSend
  <2>2. alive /\ core' = "head" /\ alive' = (alive /\ core # "/quit")
    BY <1>2, <2>1, CoreLines DEF CoreSend, QuitIsLast, TypeOK
  <2>3. \A i \in 1 .. Len(Sent) : Sent[i] # "/quit"
    BY <2>2 DEF QuitIsLast
  <2>4. Sent' = Sent \o <<core>>
    <3>0. received \in Seq(Lines) /\ toServer \in Seq(Lines)
      BY DEF TypeOK
    <3>1. received' = received /\ toServer' = toServer \o <<core>>
      BY <1>2, <2>1, <3>0, AppendIsConcat DEF CoreSend
    <3>2. (received \o toServer) \o <<core>> = received \o (toServer \o <<core>>)
      BY <2>1, <3>0, ConcatAssociative
    <3> QED
      BY <3>1, <3>2 DEF Sent
  <2>5. /\ Len(Sent') = Len(Sent) + 1 /\ Len(Sent) \in Nat
        /\ \A i \in 1 .. Len(Sent) : Sent'[i] = Sent[i]
        /\ Sent'[Len(Sent) + 1] = core
    BY <1>1, <2>1, <2>4
  <2>6. \A i \in 1 .. Len(Sent') - 1 : Sent'[i] # "/quit"
    BY <2>3, <2>5
  <2>7. alive' => \A i \in 1 .. Len(Sent') : Sent'[i] # "/quit"
    <3>1. alive' => core # "/quit"
      BY <2>2
    <3>2. core # "/quit" => \A i \in 1 .. Len(Sent') : Sent'[i] # "/quit"
      BY <2>3, <2>5
    <3> QED
      BY <3>1, <3>2
  <2> QED
    BY <2>2, <2>6, <2>7 DEF QuitIsLast, NothingAfterQuit
<1>3. CASE ~CoreSend
  <2>1. Sent' = Sent
    BY <1>3, SentStep
  <2>2. /\ alive' => alive
        /\ ~alive' => core' \in {"head", "ended"}
    BY <1>3 DEF QuitIsLast, TypeOK, Next, InputStep, InputHead, InputNothing,
      CloseStdin, InputLine, ConnectionStep, ConnectionHead, ConnectionKill,
      Subscribe, ConnectionNews, CoreStep, CoreHead, CoreNews, CoreLine,
      CoreThrows, MainStep, SeeDeath, Join, Close, ServerReceives, ServerGoes,
      vars, threads
  <2> QED
    BY <2>1, <2>2 DEF QuitIsLast, NothingAfterQuit
<1> QED
  BY <1>2, <1>3

\* TypeOK: the queues keep their bounds and a line that core_thread is about to
\* send is one that can be sent.
THEOREM ClientTypes == Spec => []TypeOK
<1>1. Init => TypeOK
  <2>1. /\ << >> \in Seq(Lines) /\ << >> \in Seq(News) /\ Len(<< >>) = 0
        /\ 0 <= MaxNews /\ 0 <= Hwm /\ 0 <= MaxLines
    BY EmptySeq, ClientAssumption
  <2> QED
    BY <2>1 DEF Init, TypeOK
<1> QED
  BY <1>1, TypeStep, PTL DEF Spec

\* SentAsTyped: however many lines are typed, and whenever a send blocks, the
\* server is sent each once and in order (handle_user_input).
THEOREM SendsAsTyped == Spec => []SentAsTyped
<1>1. Init => Accounted
  BY CoreLines, Regroup, EmptySeq DEF Init, Accounted, Sent, Holding
<1>2. TypeOK /\ Accounted => SentAsTyped
  <2> SUFFICES ASSUME TypeOK, Accounted
               PROVE  SentAsTyped
    OBVIOUS
  <2> DEFINE rest == Holding \o fromInput
  <2>1. Sent \in Seq(Lines) /\ rest \in Seq(Lines) /\ typed = Sent \o rest
    BY Regroup DEF TypeOK, Sent, Holding, Accounted
  <2>2. /\ Len(Sent) \in Nat /\ Len(rest) \in Nat /\ Len(typed) = Len(Sent) + Len(rest)
        /\ SubSeq(typed, 1, Len(Sent)) = SubSeq(Sent, 1, Len(Sent))
    BY <2>1
  <2> QED
    BY <2>2 DEF SentAsTyped, IsPrefix
<1>3. TypeOK /\ Accounted /\ [Next]_vars => Accounted'
  BY AccountedStep
<1> QED
  BY <1>1, <1>2, <1>3, ClientTypes, PTL DEF Spec

\* NothingAfterQuit: whatever is typed or arrives while the client ends, no
\* line is sent behind a /quit (core_task).
THEOREM QuitEndsSending == Spec => []NothingAfterQuit
<1>1. Init => QuitIsLast /\ NothingAfterQuit
  <2>1. Init => Len(Sent) = 0
    BY Regroup, EmptySeq DEF Init, Sent
  <2> QED
    BY <2>1 DEF Init, QuitIsLast, NothingAfterQuit
<1>2. TypeOK /\ QuitIsLast /\ NothingAfterQuit /\ [Next]_vars
        => QuitIsLast' /\ NothingAfterQuit'
  BY QuitIsLastStep
<1> QED
  BY <1>1, <1>2, ClientTypes, PTL DEF Spec
=============================================================================
