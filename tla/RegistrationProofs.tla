------------------------- MODULE RegistrationProofs -------------------------
(***************************************************************************)
(* Theorems about Registration, for every set of cabins and titles.        *)
(***************************************************************************)
EXTENDS Registration, FiniteSetTheorems, TLAPS

-----------------------------------------------------------------------------
(* Type correctness                                                        *)

\* A message appended to a queue, and the head and tail of a queue.
LEMMA QueueContent ==
  ASSUME NEW M, NEW s \in Seq(M)
  PROVE  /\ \A m \in M :
              /\ Append(s, m) \in Seq(M)
              /\ \A i \in DOMAIN Append(s, m) :
                   \/ i \in DOMAIN s /\ Append(s, m)[i] = s[i]
                   \/ Append(s, m)[i] = m
         /\ s # << >> =>
              /\ Tail(s) \in Seq(M) /\ Head(s) \in M
              /\ 1 \in DOMAIN s /\ Head(s) = s[1]
              /\ \A i \in DOMAIN Tail(s) : i + 1 \in DOMAIN s /\ Tail(s)[i] = s[i + 1]
OBVIOUS

\* The SENDs of a cabin, added to a queue.
LEMMA SendsType ==
  ASSUME NEW s \in Seq(Frames), NEW n \in Nat
  PROVE  /\ s \o [i \in 1 .. n |-> "SEND"] \in Seq(Frames)
         /\ \A j \in DOMAIN (s \o [i \in 1 .. n |-> "SEND"]) :
              \/ j \in DOMAIN s /\ (s \o [i \in 1 .. n |-> "SEND"])[j] = s[j]
              \/ (s \o [i \in 1 .. n |-> "SEND"])[j] = "SEND"
<1> DEFINE sends == [i \in 1 .. n |-> "SEND"]
<1>1. sends \in Seq(Frames) /\ Len(sends) = n
  BY DEF Frames
<1>2. \A i \in 1 .. n : sends[i] = "SEND"
  OBVIOUS
<1> HIDE DEF sends
<1>3. s \o sends \in Seq(Frames) /\ Len(s \o sends) = Len(s) + n
  BY <1>1
<1>4. ASSUME NEW j \in DOMAIN (s \o sends), j \notin DOMAIN s
      PROVE  (s \o sends)[j] = "SEND"
  <2>1. Len(s) \in Nat /\ DOMAIN s = 1 .. Len(s)
    OBVIOUS
  <2>2. j \in 1 .. Len(s) + n
    BY <1>3
  <2>3. j - Len(s) \in 1 .. n
    BY <1>4, <2>1, <2>2
  <2>4. (s \o sends)[j] = sends[j - Len(s)]
    BY <1>1, <2>1, <2>2, <2>3
  <2> QED
    BY <1>2, <2>3, <2>4
<1>5. ASSUME NEW j \in DOMAIN s PROVE (s \o sends)[j] = s[j]
  BY <1>1
<1> QED
  BY <1>3, <1>4, <1>5 DEF sends

\* A move keeps the counts and the queues of the cabins in their types.
LEMMA ChangeCabinsType ==
  ASSUME TypeOK, NEW from, NEW to, ChangeCabins(from, to)
  PROVE  /\ curr_playing' \in [Cabins -> 0 .. MaxUint]
         /\ toCabin' \in [Cabins -> Seq(CabinFrames)]
<1>1. MaxUint \in Nat
  BY RegistrationAssumption DEF RegistrationAssumption
<1>2. \A n \in 0 .. MaxUint : Increment(n) \in 0 .. MaxUint /\ Decrement(n) \in 0 .. MaxUint
  BY <1>1 DEF Increment, Decrement
<1>3. \A c \in Cabins : curr_playing[c] \in 0 .. MaxUint /\ toCabin[c] \in Seq(CabinFrames)
  BY DEF TypeOK
<1>4. \A c \in Cabins, m \in CabinFrames : Append(toCabin[c], m) \in Seq(CabinFrames)
  BY <1>3, QueueContent
<1>5. {"DISCONNECT", "JOIN"} \subseteq CabinFrames
  BY DEF CabinFrames
<1>6. curr_playing' \in [Cabins -> 0 .. MaxUint]
  BY <1>2, <1>3 DEF ChangeCabins
<1>7. toCabin' \in [Cabins -> Seq(CabinFrames)]
  BY <1>3, <1>4, <1>5 DEF ChangeCabins
<1> QED
  BY <1>6, <1>7

\* Every step keeps the types.
LEMMA TypeStep == TypeOK /\ [Next]_vars => TypeOK'
<1> SUFFICES ASSUME TypeOK, [Next]_vars PROVE TypeOK'
  OBVIOUS
<1> USE RegistrationAssumption DEF RegistrationAssumption
<1>0. /\ \A c \in Cabins : toDeck[c] \in Seq(Frames)
      /\ \A c \in Cabins : toCabin[c] \in Seq(CabinFrames)
  BY DEF TypeOK
<1>1. ASSUME NEW c \in Cabins, Start(c) PROVE TypeOK'
  <2>1. Append(toDeck[c], "REGISTRATION") \in Seq(Frames)
    BY <1>0, QueueContent DEF Frames
  <2> QED
    BY <1>1, <2>1 DEF Start, TypeOK, entryVars, crewVars
<1>2. ASSUME NEW c \in Cabins, Authenticate(c) PROVE TypeOK'
  <2>1. TitleOf[c] \in Frames
    BY DEF Frames
  <2>2. Append(toDeck[c], TitleOf[c]) \in Seq(Frames)
    BY <1>0, <2>1, QueueContent
  <2>3. Tail(toCabin[c]) \in Seq(CabinFrames)
    BY <1>0, <1>2, QueueContent DEF Authenticate
  <2>4. toDeck' \in [Cabins -> Seq(Frames)]
    <3>1. \/ toDeck' = [toDeck EXCEPT ![c] = Append(toDeck[c], TitleOf[c])]
          \/ toDeck' = toDeck
      BY <1>2 DEF Authenticate
    <3> QED
      BY <2>2, <3>1 DEF TypeOK
  <2>5. toCabin' \in [Cabins -> Seq(CabinFrames)]
    <3>1. toCabin' = [toCabin EXCEPT ![c] = Tail(toCabin[c])]
      BY <1>2 DEF Authenticate
    <3> QED
      BY <2>3, <3>1 DEF TypeOK
  <2>6. phase' \in [Cabins -> {"new", "waiting", "alive", "dead"}]
    BY <1>2 DEF Authenticate, TypeOK
  <2> QED
    BY <1>2, <2>4, <2>5, <2>6 DEF Authenticate, TypeOK, entryVars, crewVars
<1>3. ASSUME NEW c \in Cabins, Listen(c) PROVE TypeOK'
  <2>1. Tail(toCabin[c]) \in Seq(CabinFrames)
    BY <1>0, <1>3, QueueContent DEF Listen
  <2>2. toDeck' \in [Cabins -> Seq(Frames)]
    <3>1. CASE Head(toCabin[c]) = "TEXT"
      <4>1. PICK n \in 1 .. Cardinality(Crew) :
              toDeck' = [toDeck EXCEPT ![c] = toDeck[c] \o [i \in 1 .. n |-> "SEND"]]
        BY <1>3, <3>1 DEF Listen
      <4>2. Cardinality(Crew) \in Nat
        BY FS_CardinalityType
      <4>3. n \in Nat
        BY <4>2
      <4>4. toDeck[c] \o [i \in 1 .. n |-> "SEND"] \in Seq(Frames)
        BY <1>0, <4>3, SendsType
      <4> QED
        BY <4>1, <4>4 DEF TypeOK
    <3>2. CASE Head(toCabin[c]) # "TEXT"
      BY <1>3, <3>2 DEF Listen, TypeOK
    <3> QED
      BY <3>1, <3>2
  <2> QED
    BY <1>3, <2>1, <2>2 DEF Listen, TypeOK, entryVars, crewVars
<1>4. ASSUME NEW c \in Cabins, Ignore(c) PROVE TypeOK'
  <2>1. Tail(toDeck[c]) \in Seq(Frames)
    BY <1>0, <1>4, QueueContent DEF Ignore
  <2> QED
    BY <1>4, <2>1 DEF Ignore, TypeOK, entryVars, crewVars
<1>5. ASSUME NEW c \in Cabins, Answer(c) PROVE TypeOK'
  <2>1. Tail(toDeck[c]) \in Seq(Frames)
    BY <1>0, <1>5, QueueContent DEF Answer
  <2>2. Append(toCabin[c], "SHIP") \in Seq(CabinFrames)
    BY <1>0, QueueContent DEF CabinFrames
  <2> QED
    BY <1>5, <2>1, <2>2 DEF Answer, TypeOK, entryVars, crewVars
<1>6. ASSUME NEW c \in Cabins, TakeTitle(c) PROVE TypeOK'
  <2>1. Tail(toDeck[c]) \in Seq(Frames) /\ Head(toDeck[c]) \in Frames
    BY <1>0, <1>6, QueueContent DEF TakeTitle
  <2> QED
    BY <1>6, <2>1 DEF TakeTitle, Enter, TypeOK, crewVars
<1>7. ASSUME NEW k \in Crew, CrewInput(k) PROVE TypeOK'
  <2>1. told' \in 0 .. MaxTold
    BY <1>7 DEF CrewInput, Login, JoinCabin, Talk, Quit, Tells, TypeOK
  <2>2. CASE Login(k)
    <3>1. CASE DefaultId \in Entered
      BY <2>1, <2>2, <3>1, ChangeCabinsType DEF Login, Entered, TypeOK, entryVars
    <3>2. CASE DefaultId \notin Entered
      BY <2>1, <2>2, <3>2 DEF Login, TypeOK, entryVars
    <3> QED
      BY <3>1, <3>2
  <2>3. ASSUME NEW t \in Frames, JoinCabin(k, t) PROVE TypeOK'
    BY <2>1, <2>3, ChangeCabinsType DEF JoinCabin, Entered, TypeOK, entryVars
  <2>4. CASE Talk(k)
    <3>1. Append(toCabin[place[k]], "TEXT") \in Seq(CabinFrames)
      BY <1>0, <2>4, QueueContent DEF Talk, CabinFrames
    <3> QED
      BY <2>1, <2>4, <3>1 DEF Talk, TypeOK, entryVars
  <2>5. CASE Quit(k)
    BY <2>1, <2>5, ChangeCabinsType DEF Quit, TypeOK, entryVars
  <2> QED
    BY <1>7, <2>2, <2>3, <2>4, <2>5 DEF CrewInput
<1>8. ASSUME GiveUp PROVE TypeOK'
  BY <1>8 DEF GiveUp, TypeOK, entryVars, crewVars
<1>9. CASE UNCHANGED vars
  BY <1>9 DEF vars, entryVars, crewVars, TypeOK
<1> QED
  BY <1>1, <1>2, <1>3, <1>4, <1>5, <1>6, <1>7, <1>8, <1>9 DEF Next, CabinStep, DeckStep

\* TypeOK: the maps, the queues and the phases keep their types.
THEOREM RegistrationTypes == Spec => []TypeOK
<1>1. Init => TypeOK
  BY RegistrationAssumption DEF RegistrationAssumption, Init, TypeOK
<1> QED
  BY <1>1, TypeStep, PTL DEF Spec
-----------------------------------------------------------------------------
(* The default cabin                                                       *)

\* A step enters at most one cabin, under the frame it is entered by, and
\* leaves the default cabin's name with a cabin that is entered.
LEMMA DefaultStep == TypeOK /\ DefaultIsEntered /\ [Next]_vars => DefaultIsEntered'
<1> SUFFICES ASSUME TypeOK, DefaultIsEntered, [Next]_vars PROVE DefaultIsEntered'
  OBVIOUS
<1>q. ASSUME UNCHANGED <<title, cabin_name_to_id, default_cabin>>
      PROVE  DefaultIsEntered'
  BY <1>q DEF DefaultIsEntered, Entered
<1>1. ASSUME NEW c \in Cabins, TakeTitle(c) PROVE DefaultIsEntered'
  <2> DEFINE t == Head(toDeck[c])
  <2>1. toDeck[c] \in Seq(Frames) /\ toDeck[c] # << >>
    BY <1>1 DEF TakeTitle, TypeOK
  <2>2. t \in Frames
    BY <2>1, QueueContent
  <2>3. t # NoTitle
    BY <2>2, RegistrationAssumption DEF RegistrationAssumption, Frames
  <2>4. c \in Entered' /\ Entered \subseteq Entered'
    BY <1>1, <2>3 DEF TakeTitle, Enter, Entered, TypeOK
  <2>5. cabin_name_to_id' = [cabin_name_to_id EXCEPT ![t] = c]
    BY <1>1 DEF TakeTitle, Enter
  <2>6. CASE default_cabin = NoTitle
    <3>1. default_cabin' = t
      BY <1>1, <2>6 DEF TakeTitle, Enter
    <3> QED
      BY <2>2, <2>4, <2>5, <3>1 DEF DefaultIsEntered, TypeOK
  <2>7. CASE default_cabin # NoTitle
    <3>1. default_cabin' = default_cabin /\ default_cabin \in Frames
      BY <1>1, <2>7 DEF TakeTitle, Enter, TypeOK
    <3>2. cabin_name_to_id'[default_cabin] \in {c, cabin_name_to_id[default_cabin]}
      BY <2>2, <2>5, <3>1 DEF TypeOK
    <3> QED
      BY <2>4, <2>7, <3>1, <3>2 DEF DefaultIsEntered
  <2> QED
    BY <2>6, <2>7
<1>2. ASSUME NEW c \in Cabins, Start(c) \/ CabinStep(c) \/ Ignore(c) \/ Answer(c)
      PROVE  DefaultIsEntered'
  BY <1>2, <1>q DEF Start, CabinStep, Authenticate, Listen, Ignore, Answer, entryVars
<1>3. ASSUME NEW k \in Crew, CrewInput(k) PROVE DefaultIsEntered'
  BY <1>3, <1>q DEF CrewInput, Login, JoinCabin, Talk, Quit, entryVars
<1>4. CASE GiveUp \/ UNCHANGED vars
  BY <1>4, <1>q DEF GiveUp, vars, entryVars
<1> QED
  BY <1>1, <1>2, <1>3, <1>4 DEF Next, DeckStep

\* DefaultIsEntered: a default cabin, once configured, has an entry for good.
THEOREM DefaultEntered == Spec => []DefaultIsEntered
<1>1. Init => DefaultIsEntered
  BY DEF Init, DefaultIsEntered
<1> QED
  BY <1>1, DefaultStep, RegistrationTypes, PTL DEF Spec
-----------------------------------------------------------------------------
(* The handshake                                                           *)

OnlySends(s) == \A i \in DOMAIN s : s[i] = "SEND"
NoShip(s)    == \A i \in DOMAIN s : s[i] # "SHIP"

\* How far cabin c has got: the one message of its handshake that is on its
\* way, and whether the deck has entered it, under what.
Stage(c) ==
  /\ phase[c] = "new" => toDeck[c] = << >> /\ toCabin[c] = << >> /\ c \notin Entered
  /\ phase[c] = "waiting" =>
       \/ toDeck[c] = <<"REGISTRATION">> /\ toCabin[c] = << >> /\ c \notin Entered
       \/ toDeck[c] = << >> /\ toCabin[c] = <<"SHIP">> /\ c \notin Entered
       \/ toDeck[c] = << >> /\ NoShip(toCabin[c]) /\ title[c] = "REGISTRATION"
  /\ phase[c] = "dead" => toDeck[c] = << >> /\ title[c] = "REGISTRATION"
  /\ phase[c] = "alive" =>
       \/ c \notin Entered /\ toCabin[c] = << >> /\ toDeck[c] \in {<< >>, <<TitleOf[c]>>}
       \/ c \in Entered /\ OnlySends(toDeck[c])

\* Crewmates are in cabins that have an entry.
Housed == \A k \in Crew : place[k] \in Cabins => place[k] \in Entered

Handshake == (\A c \in Cabins : Stage(c)) /\ Housed

\* What a step does to the crew: nobody is where there is no entry.
LEMMA HousedStep == TypeOK /\ Housed /\ [Next]_vars => Housed'
<1> SUFFICES ASSUME TypeOK, Housed, [Next]_vars PROVE Housed'
  OBVIOUS
<1> USE RegistrationAssumption DEF RegistrationAssumption
<1>q. ASSUME place' = place, Entered \subseteq Entered' PROVE Housed'
  BY <1>q DEF Housed
<1>1. ASSUME NEW c \in Cabins, TakeTitle(c) PROVE Housed'
  <2>1. toDeck[c] \in Seq(Frames) /\ toDeck[c] # << >>
    BY <1>1 DEF TakeTitle, TypeOK
  <2>2. Head(toDeck[c]) # NoTitle
    BY <2>1, QueueContent DEF Frames
  <2> QED
    BY <1>1, <1>q, <2>2 DEF TakeTitle, Enter, Entered, TypeOK, crewVars
<1>2. ASSUME title' = title, place' = place PROVE Housed'
  BY <1>2, <1>q DEF Entered
<1>3. ASSUME NEW c \in Cabins, Start(c) \/ CabinStep(c) \/ Ignore(c) \/ Answer(c)
      PROVE  Housed'
  BY <1>2, <1>3 DEF Start, CabinStep, Authenticate, Listen, Ignore, Answer, entryVars, crewVars
<1>4. ASSUME NEW k \in Crew, CrewInput(k) PROVE Housed'
  <2>1. title' = title
    BY <1>4 DEF CrewInput, Login, JoinCabin, Talk, Quit, entryVars
  <2>2. \/ place' = place
        \/ \E p \in Entered \cup {NoCabin, "gone"} : place' = [place EXCEPT ![k] = p]
    BY <1>4 DEF CrewInput, Login, JoinCabin, Talk, Quit
  <2>3. Entered' = Entered
    BY <2>1 DEF Entered
  <2>4. CASE place' = place
    BY <2>3, <2>4 DEF Housed
  <2>5. ASSUME NEW p \in Entered \cup {NoCabin, "gone"}, place' = [place EXCEPT ![k] = p]
        PROVE  Housed'
    <3>1. p \in Cabins => p \in Entered
      OBVIOUS
    <3>2. place'[k] = p /\ \A j \in Crew \ {k} : place'[j] = place[j]
      BY <2>5 DEF TypeOK
    <3> QED
      BY <2>3, <3>1, <3>2 DEF Housed
  <2> QED
    BY <2>2, <2>4, <2>5
<1>5. CASE GiveUp \/ UNCHANGED vars
  BY <1>2, <1>5 DEF GiveUp, vars, entryVars, crewVars
<1> QED
  BY <1>1, <1>3, <1>4, <1>5 DEF Next, DeckStep

\* A message of the crew's doing comes to a cabin with an entry, and is no
\* answer to a REGISTRATION.
LEMMA CrewTraffic ==
  ASSUME TypeOK, Housed, NEW k \in Crew, CrewInput(k), NEW b \in Cabins
  PROVE  \/ toCabin'[b] = toCabin[b]
         \/ b \in Entered /\ \E m \in CabinFrames \ {"SHIP"} : toCabin'[b] = Append(toCabin[b], m)
<1> USE RegistrationAssumption DEF RegistrationAssumption
<1>0. {"TEXT", "JOIN", "DISCONNECT"} \subseteq CabinFrames \ {"SHIP"}
  BY DEF CabinFrames
<1>1. place[k] \in Cabins => place[k] \in Entered
  BY DEF Housed
<1>2. ASSUME NEW from, NEW to, ChangeCabins(from, to),
             from \in Cabins => from \in Entered, to \in Cabins => to \in Entered
      PROVE  \/ toCabin'[b] = toCabin[b]
             \/ b \in Entered /\ \E m \in CabinFrames \ {"SHIP"} :
                                   toCabin'[b] = Append(toCabin[b], m)
  BY <1>0, <1>2 DEF ChangeCabins
<1>3. CASE Login(k)
  BY <1>2, <1>3 DEF Login
<1>4. ASSUME NEW t \in Frames, JoinCabin(k, t)
      PROVE  \/ toCabin'[b] = toCabin[b]
             \/ b \in Entered /\ \E m \in CabinFrames \ {"SHIP"} :
                                   toCabin'[b] = Append(toCabin[b], m)
  BY <1>1, <1>2, <1>4 DEF JoinCabin
<1>5. CASE Talk(k)
  BY <1>0, <1>1, <1>5 DEF Talk, TypeOK
<1>6. CASE Quit(k)
  BY <1>1, <1>2, <1>6 DEF Quit
<1> QED
  BY <1>3, <1>4, <1>5, <1>6 DEF CrewInput

\* Every step takes a cabin's handshake one message on, or leaves it alone.
LEMMA StageStep ==
  ASSUME TypeOK, Housed, [Next]_vars, NEW b \in Cabins, Stage(b)
  PROVE  Stage(b)'
<1> USE RegistrationAssumption DEF RegistrationAssumption
<1>0. /\ toDeck[b] \in Seq(Frames) /\ toCabin[b] \in Seq(CabinFrames)
      /\ phase[b] \in {"new", "waiting", "alive", "dead"}
      /\ "REGISTRATION" # NoTitle
      /\ TitleOf[b] \notin {"REGISTRATION", "SEND", NoTitle}
  BY DEF TypeOK
<1>e. b \in Entered <=> title[b] # NoTitle
  BY DEF Entered
<1>f. b \in Entered' <=> title'[b] # NoTitle
  BY DEF Entered
<1>q. ASSUME phase'[b] = phase[b], toDeck'[b] = toDeck[b], title'[b] = title[b],
             \/ toCabin'[b] = toCabin[b]
             \/ b \in Entered /\ \E m \in CabinFrames \ {"SHIP"} :
                                   toCabin'[b] = Append(toCabin[b], m)
      PROVE  Stage(b)'
  <2>0. \A m \in CabinFrames : \A i \in DOMAIN Append(toCabin[b], m) :
          \/ i \in DOMAIN toCabin[b] /\ Append(toCabin[b], m)[i] = toCabin[b][i]
          \/ Append(toCabin[b], m)[i] = m
    BY ONLY <1>0, QueueContent
  <2>1. NoShip(toCabin[b]) /\ b \in Entered => NoShip(toCabin'[b])
    BY ONLY <1>q, <2>0 DEF NoShip
  <2> QED
    BY <1>0, <1>e, <1>f, <1>q, <2>1 DEF Stage
<1>1. ASSUME NEW c \in Cabins, Start(c) PROVE Stage(b)'
  <2>1. CASE c = b
    <3>1. /\ phase'[b] = "waiting" /\ title'[b] = title[b] /\ b \notin Entered
          /\ toDeck'[b] = Append(<< >>, "REGISTRATION")
          /\ toCabin'[b] = << >>
      BY <1>1, <2>1 DEF Start, Stage, TypeOK, entryVars
    <3>2. toDeck'[b] = <<"REGISTRATION">>
      BY <3>1
    <3> QED
      BY <1>e, <1>f, <3>1, <3>2 DEF Stage
  <2>2. CASE c # b
    BY <1>1, <1>q, <2>2 DEF Start, TypeOK, entryVars
  <2> QED
    BY <2>1, <2>2
<1>2. ASSUME NEW c \in Cabins, Authenticate(c) PROVE Stage(b)'
  <2>1. CASE c = b /\ Head(toCabin[c]) = "SHIP"
    <3>1. toDeck[b] = << >> /\ toCabin[b] = <<"SHIP">> /\ b \notin Entered
      <4>1. ~(NoShip(toCabin[b]))
        BY <1>0, <1>2, <2>1, QueueContent DEF Authenticate, NoShip
      <4> QED
        BY <1>2, <2>1, <4>1 DEF Authenticate, Stage
    <3>2. /\ phase'[b] = "alive" /\ title'[b] = title[b]
          /\ toDeck'[b] = Append(<< >>, TitleOf[b]) /\ toCabin'[b] = Tail(<<"SHIP">>)
      BY <1>2, <2>1, <3>1 DEF Authenticate, TypeOK, entryVars
    <3>3. toDeck'[b] = <<TitleOf[b]>> /\ toCabin'[b] = << >>
      BY <3>2
    <3> QED
      BY <1>e, <1>f, <3>1, <3>2, <3>3 DEF Stage
  <2>2. CASE c = b /\ Head(toCabin[c]) # "SHIP"
    <3>1. toDeck[b] = << >> /\ title[b] = "REGISTRATION"
      BY <1>2, <2>2 DEF Authenticate, Stage
    <3>2. phase'[b] = "dead" /\ toDeck'[b] = toDeck[b] /\ title'[b] = title[b]
      BY <1>2, <2>2 DEF Authenticate, TypeOK, entryVars
    <3> QED
      BY <3>1, <3>2 DEF Stage
  <2>3. CASE c # b
    BY <1>2, <1>q, <2>3 DEF Authenticate, TypeOK, entryVars
  <2> QED
    BY <2>1, <2>2, <2>3
<1>3. ASSUME NEW c \in Cabins, Listen(c) PROVE Stage(b)'
  <2>1. CASE c = b
    <3>1. /\ phase'[b] = "alive" /\ title'[b] = title[b]
          /\ b \in Entered /\ OnlySends(toDeck[b])
      BY <1>3, <2>1 DEF Listen, Stage, entryVars
    <3>2. CASE Head(toCabin[b]) = "TEXT"
      <4>1. PICK n \in 1 .. Cardinality(Crew) :
              toDeck' = [toDeck EXCEPT ![b] = toDeck[b] \o [i \in 1 .. n |-> "SEND"]]
        BY <1>3, <2>1, <3>2 DEF Listen
      <4>2. n \in Nat
        BY FS_CardinalityType
      <4>3. toDeck'[b] = toDeck[b] \o [i \in 1 .. n |-> "SEND"]
        BY <4>1 DEF TypeOK
      <4>4. OnlySends(toDeck'[b])
        BY <1>0, <3>1, <4>2, <4>3, SendsType DEF OnlySends
      <4> QED
        BY <1>e, <1>f, <3>1, <4>4 DEF Stage
    <3>3. CASE Head(toCabin[b]) # "TEXT"
      <4>1. toDeck'[b] = toDeck[b]
        BY <1>3, <2>1, <3>3 DEF Listen
      <4> QED
        BY <1>e, <1>f, <3>1, <4>1 DEF Stage
    <3> QED
      BY <3>2, <3>3
  <2>2. CASE c # b
    BY <1>3, <1>q, <2>2 DEF Listen, TypeOK, entryVars
  <2> QED
    BY <2>1, <2>2
<1>t. ASSUME phase'[b] = phase[b], toDeck[b] # << >>, toDeck'[b] = Tail(toDeck[b]),
             toCabin'[b] = toCabin[b],
             \/ title'[b] = title[b] /\ (Head(toDeck[b]) # "REGISTRATION" \/ b \in Entered)
             \/ title'[b] = Head(toDeck[b])
      PROVE  Stage(b)'
  <2>1. Head(toDeck[b]) # NoTitle
    BY <1>0, <1>t, QueueContent DEF Frames
  <2>2. CASE phase[b] = "waiting"
    <3>1. toDeck[b] = <<"REGISTRATION">> /\ toCabin[b] = << >> /\ b \notin Entered
      BY <1>t, <2>2 DEF Stage
    <3>2. toDeck'[b] = << >> /\ Head(toDeck[b]) = "REGISTRATION"
      BY <1>t, <3>1
    <3>3. title'[b] = "REGISTRATION" /\ NoShip(toCabin'[b])
      BY <1>t, <3>1, <3>2 DEF NoShip
    <3> QED
      BY <1>t, <2>2, <3>2, <3>3 DEF Stage
  <2>3. CASE phase[b] = "alive" /\ b \notin Entered
    <3>1. toDeck[b] = <<TitleOf[b]>> /\ toCabin[b] = << >>
      BY <1>t, <2>3 DEF Stage
    <3>2. toDeck'[b] = << >>
      BY <1>t, <3>1
    <3>3. OnlySends(toDeck'[b])
      BY <3>2 DEF OnlySends
    <3> QED
      BY <1>f, <1>t, <2>3, <3>1, <3>2, <3>3 DEF Stage
  <2>4. CASE phase[b] = "alive" /\ b \in Entered
    <3>1. OnlySends(toDeck[b])
      BY <2>4 DEF Stage
    <3>2. OnlySends(Tail(toDeck[b]))
      BY <1>0, <1>t, <3>1, QueueContent DEF OnlySends
    <3>3. title'[b] # NoTitle
      BY <1>e, <1>t, <2>1, <2>4
    <3> QED
      BY <1>f, <1>t, <2>4, <3>2, <3>3 DEF Stage
  <2> QED
    BY <1>0, <1>t, <2>2, <2>3, <2>4 DEF Stage
<1>4. ASSUME NEW c \in Cabins, Ignore(c) PROVE Stage(b)'
  <2>1. /\ toDeck[c] # << >> /\ toDeck' = [toDeck EXCEPT ![c] = Tail(toDeck[c])]
        /\ Head(toDeck[c]) # "REGISTRATION" \/ c \in Entered
        /\ UNCHANGED <<phase, title, toCabin>>
    BY <1>4 DEF Ignore, entryVars
  <2>2. CASE c = b
    BY <1>t, <2>1, <2>2 DEF TypeOK
  <2>3. CASE c # b
    BY <1>q, <2>1, <2>3 DEF TypeOK
  <2> QED
    BY <2>2, <2>3
<1>5. ASSUME NEW c \in Cabins, Answer(c) PROVE Stage(b)'
  <2>1. CASE c = b
    <3>1. /\ toDeck[b] = <<"REGISTRATION">> /\ toCabin[b] = << >>
          /\ b \notin Entered /\ phase[b] = "waiting"
      <4>1. Head(toDeck[b]) = "REGISTRATION" /\ toDeck[b] # << >> /\ b \notin Entered
        BY <1>5, <2>1 DEF Answer
      <4>2. toDeck[b] # <<TitleOf[b]>>
        BY <1>0, <4>1
      <4>3. phase[b] = "waiting"
        BY <1>0, <1>e, <4>1, <4>2 DEF Stage
      <4> QED
        BY <4>1, <4>3 DEF Stage
    <3>2. /\ toDeck'[b] = Tail(<<"REGISTRATION">>) /\ toCabin'[b] = Append(<< >>, "SHIP")
          /\ phase'[b] = phase[b] /\ title'[b] = title[b]
      BY <1>5, <2>1, <3>1 DEF Answer, TypeOK, entryVars
    <3>3. toDeck'[b] = << >> /\ toCabin'[b] = <<"SHIP">>
      BY <3>2
    <3> QED
      BY <1>e, <1>f, <3>1, <3>2, <3>3 DEF Stage
  <2>2. CASE c # b
    BY <1>5, <1>q, <2>2 DEF Answer, TypeOK, entryVars
  <2> QED
    BY <2>1, <2>2
<1>6. ASSUME NEW c \in Cabins, TakeTitle(c) PROVE Stage(b)'
  <2>1. /\ toDeck[c] # << >> /\ toDeck' = [toDeck EXCEPT ![c] = Tail(toDeck[c])]
        /\ title' = [title EXCEPT ![c] = Head(toDeck[c])]
        /\ UNCHANGED <<phase, toCabin>>
    BY <1>6 DEF TakeTitle, Enter
  <2>2. CASE c = b
    BY <1>t, <2>1, <2>2 DEF TypeOK
  <2>3. CASE c # b
    BY <1>q, <2>1, <2>3 DEF TypeOK
  <2> QED
    BY <2>2, <2>3
<1>7. ASSUME NEW k \in Crew, CrewInput(k) PROVE Stage(b)'
  <2>1. phase' = phase /\ toDeck' = toDeck /\ title' = title
    BY <1>7 DEF CrewInput, Login, JoinCabin, Talk, Quit, entryVars
  <2> QED
    BY <1>7, <1>q, <2>1, CrewTraffic
<1>8. CASE GiveUp \/ UNCHANGED vars
  BY <1>8, <1>q DEF GiveUp, vars, entryVars
<1> QED
  BY <1>1, <1>2, <1>3, <1>4, <1>5, <1>6, <1>7, <1>8 DEF Next, CabinStep, DeckStep

\* Where every cabin's handshake stands, always.
THEOREM HandshakeHolds == Spec => []Handshake
<1>1. Init => Handshake
  BY RegistrationAssumption DEF RegistrationAssumption, Init, Handshake, Stage, Housed, Entered
<1>2. TypeOK /\ Handshake /\ [Next]_vars => Handshake'
  BY StageStep, HousedStep DEF Handshake
<1> QED
  BY <1>1, <1>2, RegistrationTypes, PTL DEF Spec

\* EnteredMeansListening: crewmates are only moved to cabins that read their
\* messages, or whose REGISTRATION was taken for a title.
THEOREM EnteredIsListening == Spec => []EnteredMeansListening
<1>1. TypeOK /\ Handshake => EnteredMeansListening
  BY DEF TypeOK, Handshake, Stage, EnteredMeansListening, Entered
<1> QED
  BY <1>1, HandshakeHolds, RegistrationTypes, PTL
-----------------------------------------------------------------------------
(* The counts                                                              *)

Aboard(where, c) == {k \in Crew : where[k] = c}

\* Crewmate k goes to p, which is not where it is: one less there, one more
\* here.
LEMMA CountMove ==
  ASSUME TypeOK, NEW k \in Crew, NEW p, p # place[k],
         place' = [place EXCEPT ![k] = p]
  PROVE  /\ Cardinality(Aboard(place', place[k])) = Cardinality(Aboard(place, place[k])) - 1
         /\ Cardinality(Aboard(place, place[k])) \in Nat \ {0}
         /\ Cardinality(Aboard(place', p)) = Cardinality(Aboard(place, p)) + 1
         /\ Cardinality(Aboard(place, p)) \in 0 .. (MaxUint - 1)
<1> DEFINE old == place[k]
<1>1. place'[k] = p /\ \A j \in Crew \ {k} : place'[j] = place[j]
  BY DEF TypeOK
<1>2. IsFiniteSet(Crew) /\ MaxUint \in Nat /\ Cardinality(Crew) <= MaxUint
  BY RegistrationAssumption DEF RegistrationAssumption
<1>3. \A where, c : IsFiniteSet(Aboard(where, c)) /\ Aboard(where, c) \subseteq Crew
  BY <1>2, FS_Subset DEF Aboard
<1>4. Aboard(place', old) = Aboard(place, old) \ {k} /\ k \in Aboard(place, old)
  BY <1>1 DEF Aboard
<1>5. Aboard(place', p) = Aboard(place, p) \cup {k} /\ k \notin Aboard(place, p)
  BY <1>1 DEF Aboard
<1>7. Cardinality(Aboard(place', old)) = Cardinality(Aboard(place, old)) - 1
  BY <1>3, <1>4, FS_RemoveElement
<1>8. Cardinality(Aboard(place, old)) \in Nat \ {0}
  BY <1>3, <1>4, FS_EmptySet, FS_CardinalityType
<1>9. Cardinality(Aboard(place', p)) = Cardinality(Aboard(place, p)) + 1
  BY <1>3, <1>5, FS_AddElement
<1>10. Cardinality(Aboard(place', p)) <= Cardinality(Crew)
  BY <1>2, <1>3, FS_Subset
<1>11. Cardinality(Aboard(place, p)) \in Nat /\ Cardinality(Crew) \in Nat
  BY <1>2, <1>3, FS_CardinalityType
<1>12. Cardinality(Aboard(place, p)) \in 0 .. (MaxUint - 1)
  BY <1>2, <1>9, <1>10, <1>11
<1> QED
  BY <1>7, <1>8, <1>9, <1>12

\* A move keeps the counts right.
LEMMA CountsAfterMove ==
  ASSUME TypeOK, CountsUnlessOverwritten, NEW k \in Crew, NEW p, p # place[k],
         place' = [place EXCEPT ![k] = p], title' = title,
         \A c \in Cabins :
           /\ c = place[k] => curr_playing'[c] = Decrement(curr_playing[c])
           /\ c = p => curr_playing'[c] = Increment(curr_playing[c])
           /\ c # place[k] /\ c # p => curr_playing'[c] = curr_playing[c]
  PROVE  CountsUnlessOverwritten'
<1>1. SUFFICES ASSUME NEW c \in Cabins, title[c] # "SEND"
               PROVE  curr_playing'[c] = Cardinality(Aboard(place', c))
  BY DEF CountsUnlessOverwritten, Aboard
<1>2. curr_playing[c] = Cardinality(Aboard(place, c))
  BY <1>1 DEF CountsUnlessOverwritten, Aboard
<1>3. CASE c = place[k]
  <2>1. /\ Cardinality(Aboard(place', c)) = Cardinality(Aboard(place, c)) - 1
        /\ Cardinality(Aboard(place, c)) \in Nat \ {0}
    BY <1>3, CountMove
  <2> QED
    BY <1>2, <1>3, <2>1 DEF Decrement
<1>4. CASE c # place[k] /\ c = p
  <2>1. /\ Cardinality(Aboard(place', c)) = Cardinality(Aboard(place, c)) + 1
        /\ Cardinality(Aboard(place, c)) \in 0 .. (MaxUint - 1)
    BY <1>4, CountMove
  <2>2. MaxUint \in Nat
    BY RegistrationAssumption DEF RegistrationAssumption
  <2> QED
    BY <1>2, <1>4, <2>1, <2>2 DEF Increment
<1>5. CASE c # place[k] /\ c # p
  <2>1. Aboard(place', c) = Aboard(place, c)
    BY <1>5 DEF Aboard, TypeOK
  <2> QED
    BY <1>2, <1>5, <2>1
<1> QED
  BY <1>3, <1>4, <1>5

\* Every step keeps the counts right.
LEMMA CountsStep ==
  ASSUME TypeOK, Handshake, CountsUnlessOverwritten, [Next]_vars
  PROVE  CountsUnlessOverwritten'
<1> USE RegistrationAssumption DEF RegistrationAssumption
<1>q. ASSUME UNCHANGED <<title, curr_playing, place>> PROVE CountsUnlessOverwritten'
  BY <1>q DEF CountsUnlessOverwritten
<1>1. ASSUME NEW c \in Cabins, TakeTitle(c) PROVE CountsUnlessOverwritten'
  <2>1. /\ title' = [title EXCEPT ![c] = Head(toDeck[c])]
        /\ curr_playing' = [curr_playing EXCEPT ![c] = 0]
        /\ toDeck[c] # << >> /\ place' = place
    BY <1>1 DEF TakeTitle, Enter, crewVars
  <2>2. ASSUME NEW b \in Cabins, title'[b] # "SEND"
        PROVE  curr_playing'[b] = Cardinality(Aboard(place, b))
    <3>1. CASE b = c
      <4>1. toDeck[b] \in Seq(Frames) /\ toDeck[b] # << >> /\ Head(toDeck[b]) # "SEND"
        BY <2>1, <2>2, <3>1 DEF TypeOK
      <4>2. ~OnlySends(toDeck[b])
        BY <4>1, QueueContent DEF OnlySends
      <4>3. b \notin Entered
        BY <4>1, <4>2 DEF Handshake, Stage, TypeOK, Entered
      <4>4. Aboard(place, b) = {}
        BY <4>3 DEF Handshake, Housed, Aboard
      <4> QED
        BY <2>1, <3>1, <4>4, FS_EmptySet DEF TypeOK
    <3>2. CASE b # c
      BY <2>1, <2>2, <3>2 DEF CountsUnlessOverwritten, TypeOK, Aboard
    <3> QED
      BY <3>1, <3>2
  <2> QED
    BY <2>1, <2>2 DEF CountsUnlessOverwritten, Aboard
<1>2. ASSUME NEW c \in Cabins, Start(c) \/ CabinStep(c) \/ Ignore(c) \/ Answer(c)
      PROVE  CountsUnlessOverwritten'
  BY <1>2, <1>q DEF Start, CabinStep, Authenticate, Listen, Ignore, Answer, entryVars, crewVars
<1>3. ASSUME NEW k \in Crew, Login(k) PROVE CountsUnlessOverwritten'
  <2>1. place[k] \notin Cabins /\ place[k] # NoCabin /\ title' = title
    BY <1>3 DEF Login, entryVars
  <2>2. CASE DefaultId \in Entered
    <3>1. /\ ChangeCabins(NoCabin, DefaultId)
          /\ place' = [place EXCEPT ![k] = DefaultId] /\ DefaultId \in Cabins
      BY <1>3, <2>2 DEF Login, Entered
    <3>2. DefaultId # place[k]
      BY <2>1, <3>1
    <3>3. \A c \in Cabins :
            /\ c = place[k] => curr_playing'[c] = Decrement(curr_playing[c])
            /\ c = DefaultId => curr_playing'[c] = Increment(curr_playing[c])
            /\ c # place[k] /\ c # DefaultId => curr_playing'[c] = curr_playing[c]
      BY <2>1, <3>1 DEF ChangeCabins
    <3> QED
      BY <2>1, <3>1, <3>2, <3>3, CountsAfterMove
  <2>3. CASE DefaultId \notin Entered
    <3>1. place' = [place EXCEPT ![k] = NoCabin] /\ curr_playing' = curr_playing
      BY <1>3, <2>3 DEF Login
    <3>2. \A c \in Cabins : Aboard(place', c) = Aboard(place, c)
      BY <2>1, <3>1 DEF Aboard, TypeOK
    <3> QED
      BY <2>1, <3>1, <3>2 DEF CountsUnlessOverwritten, Aboard
  <2> QED
    BY <2>2, <2>3
<1>4. ASSUME NEW k \in Crew, NEW t \in Frames, JoinCabin(k, t)
      PROVE  CountsUnlessOverwritten'
  <2>1. PICK p \in Entered :
          /\ p # place[k] /\ ChangeCabins(place[k], p)
          /\ place' = [place EXCEPT ![k] = p]
    BY <1>4 DEF JoinCabin
  <2>2. place[k] \in Cabins \cup {NoCabin} /\ title' = title
    BY <1>4 DEF JoinCabin, entryVars
  <2>3. \A c \in Cabins :
          /\ c = place[k] => curr_playing'[c] = Decrement(curr_playing[c])
          /\ c = p => curr_playing'[c] = Increment(curr_playing[c])
          /\ c # place[k] /\ c # p => curr_playing'[c] = curr_playing[c]
    BY <2>1 DEF ChangeCabins
  <2> QED
    BY <2>1, <2>2, <2>3, CountsAfterMove
<1>5. ASSUME NEW k \in Crew, Talk(k) PROVE CountsUnlessOverwritten'
  BY <1>5, <1>q DEF Talk, entryVars
<1>6. ASSUME NEW k \in Crew, Quit(k) PROVE CountsUnlessOverwritten'
  <2>1. /\ ChangeCabins(place[k], NoCabin) /\ place' = [place EXCEPT ![k] = "gone"]
        /\ place[k] \in Cabins \cup {NoCabin} /\ title' = title
    BY <1>6 DEF Quit, entryVars
  <2>2. "gone" # place[k] /\ "gone" \notin Cabins
    BY <2>1
  <2>3. \A c \in Cabins :
          /\ c = place[k] => curr_playing'[c] = Decrement(curr_playing[c])
          /\ c = "gone" => curr_playing'[c] = Increment(curr_playing[c])
          /\ c # place[k] /\ c # "gone" => curr_playing'[c] = curr_playing[c]
    BY <2>1, <2>2 DEF ChangeCabins
  <2> QED
    BY <2>1, <2>2, <2>3, CountsAfterMove
<1>7. CASE GiveUp \/ UNCHANGED vars
  BY <1>7, <1>q DEF GiveUp, vars, entryVars, crewVars
<1> QED
  BY <1>1, <1>2, <1>3, <1>4, <1>5, <1>6, <1>7 DEF Next, DeckStep, CrewInput

\* CountsUnlessOverwritten: cabins that register while crewmates come and go
\* show the right number, unless a SEND was read as a title.
THEOREM CountsHold == Spec => []CountsUnlessOverwritten
<1>1. Init => CountsUnlessOverwritten
  <2> SUFFICES ASSUME Init, NEW c \in Cabins
               PROVE  curr_playing[c] = Cardinality(Aboard(place, c))
    BY DEF CountsUnlessOverwritten, Aboard
  <2>1. Aboard(place, c) = {}
    BY RegistrationAssumption DEF RegistrationAssumption, Init, Aboard
  <2> QED
    BY <2>1, FS_EmptySet DEF Init
<1>2. TypeOK /\ Handshake /\ CountsUnlessOverwritten /\ [Next]_vars => CountsUnlessOverwritten'
  BY CountsStep
<1> QED
  BY <1>1, <1>2, RegistrationTypes, HandshakeHolds, PTL DEF Spec
=============================================================================
