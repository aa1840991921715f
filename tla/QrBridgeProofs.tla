--------------------------- MODULE QrBridgeProofs ---------------------------
(***************************************************************************)
(* Theorems about QrBridge, for any number of posts and pages.             *)
(***************************************************************************)
EXTENDS QrBridge, TLAPS

\* Who has stored an assertion, and whose answer it may still be.
Accepted == {"setting", "answering", "ok"}
Dead == {"refused", "cut"}

\* Whoever was woken, or is about to be, finds an assertion.
StoredFirst ==
  /\ event \/ got \/ main = "reading" => stored # NoPost
  /\ \A k \in Post : post[k] \in {"setting", "answering"} => stored # NoPost
  /\ WokenFindsAssertion

\* What passed the checks is sound, and so is all that is stored or read of it.
OnlySound ==
  /\ \A k \in Post : post[k] = "body" => PassesGuards(k)
  /\ \A k \in Post : post[k] \in {"storing", "setting", "answering"} => defect[k] = "none"
  /\ stored # NoPost => post[stored] # "none" /\ defect[stored] = "none"
  /\ \A f \in Fields : read[f] # NoPost => post[read[f]] # "none" /\ defect[read[f]] = "none"

\* While the main thread goes on, nothing that was stored is taken back.
StaysAccepted ==
  main \notin MainEnded =>
    /\ stored # NoPost => post[stored] \in Accepted
    /\ \A f \in Fields : read[f] # NoPost => post[read[f]] \in Accepted

\* A page waits for one answer at a time, and posts again only after a refusal or a loss.
OneAnswerOpen ==
  /\ \A k \in Post : post[k] = "none" => word[k] = "none" /\ sender[k] = NoPage
  /\ \A k \in Post : sender[k] # NoPage =>
       /\ word[k] = "none" => page[sender[k]] = "posting"
       /\ word[k] = "heard" => post[k] \in Answers
       /\ word[k] = "heard" /\ page[sender[k]] # "signed" => post[k] \in Dead
  /\ \A j, k \in Post : sender[j] = sender[k] /\ sender[k] # NoPage /\ j # k =>
       /\ ~(word[j] = "none" /\ word[k] = "none")
       /\ word[j] # "lost" /\ word[k] # "lost" => post[j] \in Dead \/ post[k] \in Dead

\* Send takes a post that was not sent yet.
LEMMA Choice == \A k \in Post : \A p, d : Send(k, p, d) => post[k] = "none"
<1> SUFFICES ASSUME NEW k \in Post, NEW p, NEW d, Send(k, p, d) PROVE k \in Unsent
  BY DEF Unsent
<1>1. Unsent # {} /\ k = CHOOSE j \in Unsent : TRUE
  BY DEF Send
<1> QED BY <1>1

\* Sending a post changes nothing that was sent, stored or read before.
LEMMA SendOne ==
  ASSUME TypeOK, NEW k \in Post, NEW p, NEW d, Send(k, p, d)
  PROVE  /\ post[k] = "none" /\ post'[k] = "sent"
         /\ \A j \in Post : j # k =>
              post'[j] = post[j] /\ defect'[j] = defect[j] /\ sender'[j] = sender[j]
         /\ main' = main /\ stored' = stored /\ read' = read
<1>1. post[k] = "none"
  BY Choice
<1> QED
  BY <1>1 DEF TypeOK, Send, GotoPost, shared

LEMMA TypeStep == TypeOK /\ [Next]_vars => TypeOK'
<1> SUFFICES ASSUME TypeOK, [Next]_vars PROVE TypeOK'
  OBVIOUS
<1> USE NoPostAssumption, NoPageAssumption DEF TypeOK, Fields,
  MainEnded, InServer, Answers, Defects, shared, phones
<1>1. CASE StartServer \/ Woken \/ GiveUp \/ Joined \/ Decide
  BY <1>1 DEF StartServer, Woken, GiveUp, Joined, Decide, Stop, GotoMain
<1>2. ASSUME NEW f \in Fields, Read(f) PROVE TypeOK'
  BY <1>2 DEF Read, ReadFrom, Decodes, GotoMain
<1>3. CASE Listen \/ Exit
  BY <1>3 DEF Listen, Exit
<1>4. CASE ProcessExits
  BY <1>4 DEF ProcessExits, InHandler
<1>5. ASSUME NEW k \in Post, Receive(k) \/ NoServer(k) \/ Body(k) \/ Answer(k) PROVE TypeOK'
  BY <1>5 DEF Receive, NoServer, Body, Answer, GotoPost
<1>6. ASSUME NEW k \in Post, SetAssertion(k) PROVE TypeOK'
  BY <1>6 DEF SetAssertion, StoreFirst, GotoPost
<1>7. ASSUME NEW p \in Page, Open(p) \/ Tap(p) \/ SignFails(p) PROVE TypeOK'
  BY <1>7 DEF Open, Tap, SignFails
<1>8. ASSUME NEW p \in Page, NEW k \in Post, PostAssertion(p, k) PROVE TypeOK'
  BY <1>8 DEF PostAssertion, Send, GotoPost
<1>9. ASSUME NEW k \in Post, PostByOther(k) PROVE TypeOK'
  BY <1>9 DEF PostByOther, Send, GotoPost
<1>10. ASSUME NEW k \in Post, HearAnswer(k) \/ LoseAnswer(k) PROVE TypeOK'
  BY <1>10 DEF HearAnswer, LoseAnswer
<1>11. CASE UNCHANGED vars
  BY <1>11 DEF vars
<1> HIDE DEF TypeOK, Fields,
  MainEnded, InServer, Answers, Defects, shared, phones
<1>12. CASE MainStep
  BY <1>1, <1>2, <1>12 DEF MainStep
<1>13. CASE ServerStep
  BY <1>3, <1>4, <1>5, <1>6, <1>13 DEF ServerStep
<1>14. CASE PhoneStep
  BY <1>7, <1>8, <1>9, <1>10, <1>14 DEF PhoneStep
<1> QED
  BY <1>11, <1>12, <1>13, <1>14 DEF Next

LEMMA TypeInit == Init => TypeOK
<1> SUFFICES ASSUME Init PROVE TypeOK
  OBVIOUS
<1>1. main \in {"start"} /\ server \in {"off"} /\ post \in [Post -> {"none"}]
  BY DEF Init
<1>2. defect \in [Post -> {"none"}] /\ sender \in [Post -> {NoPage}] /\ word \in [Post -> {"none"}]
  BY DEF Init
<1>3. page \in [Page -> {"closed"}] /\ read \in [Fields -> {NoPost}]
  BY DEF Init
<1> QED BY <1>1, <1>2, <1>3 DEF Init, TypeOK

LEMMA StoredStep == TypeOK /\ StoredFirst /\ [Next]_vars => StoredFirst'
<1> SUFFICES ASSUME TypeOK, StoredFirst, [Next]_vars PROVE StoredFirst'
  OBVIOUS
<1> USE NoPostAssumption, NoPageAssumption DEF TypeOK, StoredFirst, Fields,
  MainEnded, InServer, Answers, Defects, shared, phones, WokenFindsAssertion
<1>1. CASE StartServer \/ Woken \/ GiveUp \/ Joined \/ Decide
  BY <1>1 DEF StartServer, Woken, GiveUp, Joined, Decide, Stop, GotoMain
<1>2. ASSUME NEW f \in Fields, Read(f) PROVE StoredFirst'
  BY <1>2 DEF Read, ReadFrom, Decodes, GotoMain
<1>3. CASE Listen \/ Exit
  BY <1>3 DEF Listen, Exit
<1>4. CASE ProcessExits
  BY <1>4 DEF ProcessExits, InHandler
<1>5. ASSUME NEW k \in Post, Receive(k) \/ NoServer(k) \/ Body(k) \/ Answer(k) PROVE StoredFirst'
  BY <1>5 DEF Receive, NoServer, Body, Answer, GotoPost
<1>6. ASSUME NEW k \in Post, SetAssertion(k) PROVE StoredFirst'
  BY <1>6 DEF SetAssertion, StoreFirst, GotoPost
<1>7. ASSUME NEW p \in Page, Open(p) \/ Tap(p) \/ SignFails(p) PROVE StoredFirst'
  BY <1>7 DEF Open, Tap, SignFails
<1> HIDE DEF TypeOK, StoredFirst, Fields, MainEnded, WokenFindsAssertion
<1>8. ASSUME NEW k \in Post, NEW p, NEW d, Send(k, p, d) PROVE StoredFirst'
  <2>1. event' = event /\ got' = got
    BY <1>8 DEF Send
  <2> QED
    BY <1>8, <2>1, SendOne DEF StoredFirst, WokenFindsAssertion
<1> USE DEF TypeOK, StoredFirst, Fields, MainEnded, WokenFindsAssertion
<1>10. ASSUME NEW k \in Post, HearAnswer(k) \/ LoseAnswer(k) PROVE StoredFirst'
  BY <1>10 DEF HearAnswer, LoseAnswer
<1>11. CASE UNCHANGED vars
  BY <1>11 DEF vars
<1> HIDE DEF TypeOK, StoredFirst, Fields,
  MainEnded, InServer, Answers, Defects, shared, phones, WokenFindsAssertion
<1>12. CASE MainStep
  BY <1>1, <1>2, <1>12 DEF MainStep
<1>13. CASE ServerStep
  BY <1>3, <1>4, <1>5, <1>6, <1>13 DEF ServerStep
<1>14. CASE PhoneStep
  BY <1>7, <1>8, <1>10, <1>14 DEF PhoneStep, PostAssertion, PostByOther
<1> QED
  BY <1>11, <1>12, <1>13, <1>14 DEF Next

LEMMA SoundStep == TypeOK /\ OnlySound /\ [Next]_vars => OnlySound'
<1> SUFFICES ASSUME TypeOK, OnlySound, [Next]_vars PROVE OnlySound'
  OBVIOUS
<1> USE NoPostAssumption, NoPageAssumption DEF TypeOK, OnlySound, Fields,
  MainEnded, InServer, Answers, Defects, shared, phones, PassesGuards, HasFields
<1>1. CASE StartServer \/ Woken \/ GiveUp \/ Joined \/ Decide
  BY <1>1 DEF StartServer, Woken, GiveUp, Joined, Decide, Stop, GotoMain
<1>2. ASSUME NEW f \in Fields, Read(f) PROVE OnlySound'
  BY <1>2 DEF Read, ReadFrom, Decodes, GotoMain
<1>3. CASE Listen \/ Exit
  BY <1>3 DEF Listen, Exit
<1>4. CASE ProcessExits
  BY <1>4 DEF ProcessExits, InHandler
<1>5. ASSUME NEW k \in Post, Receive(k) \/ NoServer(k) \/ Body(k) \/ Answer(k) PROVE OnlySound'
  BY <1>5 DEF Receive, NoServer, Body, Answer, GotoPost
<1>6. ASSUME NEW k \in Post, SetAssertion(k) PROVE OnlySound'
  BY <1>6 DEF SetAssertion, StoreFirst, GotoPost
<1>7. ASSUME NEW p \in Page, Open(p) \/ Tap(p) \/ SignFails(p) PROVE OnlySound'
  BY <1>7 DEF Open, Tap, SignFails
<1> HIDE DEF TypeOK, OnlySound, Fields, PassesGuards, HasFields
<1>8. ASSUME NEW k \in Post, NEW p, NEW d, Send(k, p, d) PROVE OnlySound'
  <2> USE <1>8, SendOne
  <2>1. (\A j \in Post : post[j] = "body" => PassesGuards(j))'
    BY DEF OnlySound, PassesGuards
  <2>2. (\A j \in Post : post[j] \in {"storing", "setting", "answering"} => defect[j] = "none")'
    BY DEF OnlySound
  <2>3. stored # NoPost => stored \in Post /\ stored # k /\ defect[stored] = "none"
    BY DEF OnlySound, TypeOK
  <2>4. (stored # NoPost => post[stored] # "none" /\ defect[stored] = "none")'
    BY <2>3 DEF OnlySound
  <2>5. \A f \in Fields : read[f] # NoPost =>
          read[f] \in Post /\ read[f] # k /\ post[read[f]] # "none" /\ defect[read[f]] = "none"
    BY DEF OnlySound, TypeOK
  <2>6. (\A f \in Fields : read[f] # NoPost => post[read[f]] # "none" /\ defect[read[f]] = "none")'
    BY <2>5
  <2> QED
    BY <2>1, <2>2, <2>4, <2>6 DEF OnlySound
<1> USE DEF TypeOK, OnlySound, Fields, PassesGuards, HasFields
<1>10. ASSUME NEW k \in Post, HearAnswer(k) \/ LoseAnswer(k) PROVE OnlySound'
  BY <1>10 DEF HearAnswer, LoseAnswer
<1>11. CASE UNCHANGED vars
  BY <1>11 DEF vars
<1> HIDE DEF TypeOK, OnlySound, Fields,
  MainEnded, InServer, Answers, Defects, shared, phones, PassesGuards, HasFields
<1>12. CASE MainStep
  BY <1>1, <1>2, <1>12 DEF MainStep
<1>13. CASE ServerStep
  BY <1>3, <1>4, <1>5, <1>6, <1>13 DEF ServerStep
<1>14. CASE PhoneStep
  BY <1>7, <1>8, <1>10, <1>14 DEF PhoneStep, PostAssertion, PostByOther
<1> QED
  BY <1>11, <1>12, <1>13, <1>14 DEF Next

LEMMA AcceptedStep ==
  TypeOK /\ OnlySound /\ StoredFirst /\ StaysAccepted /\ [Next]_vars => StaysAccepted'
<1> SUFFICES ASSUME TypeOK, OnlySound, StoredFirst, StaysAccepted, [Next]_vars PROVE StaysAccepted'
  OBVIOUS
<1> USE NoPostAssumption, NoPageAssumption DEF TypeOK, StaysAccepted, Fields,
  MainEnded, InServer, Answers, Defects, shared, phones, Accepted
<1>1. CASE StartServer \/ Woken \/ GiveUp \/ Joined \/ Decide
  BY <1>1 DEF StartServer, Woken, GiveUp, Joined, Decide, Stop, GotoMain
<1>2. ASSUME NEW f \in Fields, Read(f) PROVE StaysAccepted'
  BY <1>2 DEF Read, ReadFrom, Decodes, GotoMain
<1>3. CASE Listen \/ Exit
  BY <1>3 DEF Listen, Exit
<1>4. CASE ProcessExits
  BY <1>4 DEF ProcessExits, InHandler
<1>5. ASSUME NEW k \in Post, Receive(k) \/ NoServer(k) \/ Body(k) \/ Answer(k) PROVE StaysAccepted'
  BY <1>5 DEF Receive, NoServer, Body, Answer, GotoPost
<1>6. ASSUME NEW k \in Post, SetAssertion(k) PROVE StaysAccepted'
  BY <1>6 DEF SetAssertion, StoreFirst, GotoPost
<1>7. ASSUME NEW p \in Page, Open(p) \/ Tap(p) \/ SignFails(p) PROVE StaysAccepted'
  BY <1>7 DEF Open, Tap, SignFails
<1> HIDE DEF TypeOK, StaysAccepted, Fields, MainEnded, Accepted
<1>8. ASSUME NEW k \in Post, NEW p, NEW d, Send(k, p, d) PROVE StaysAccepted'
  <2> USE <1>8, SendOne
  <2> SUFFICES ASSUME main \notin MainEnded
               PROVE  /\ (stored # NoPost => post[stored] \in Accepted)'
                      /\ (\A f \in Fields : read[f] # NoPost => post[read[f]] \in Accepted)'
    BY DEF StaysAccepted
  <2>1. stored # NoPost => stored \in Post /\ stored # k /\ post[stored] \in Accepted
    BY DEF StaysAccepted, TypeOK, Accepted
  <2>2. \A f \in Fields : read[f] # NoPost =>
          read[f] \in Post /\ read[f] # k /\ post[read[f]] \in Accepted
    BY DEF StaysAccepted, TypeOK, Accepted
  <2> QED
    BY <2>1, <2>2
<1> USE DEF TypeOK, StaysAccepted, Fields, MainEnded, Accepted
<1>10. ASSUME NEW k \in Post, HearAnswer(k) \/ LoseAnswer(k) PROVE StaysAccepted'
  BY <1>10 DEF HearAnswer, LoseAnswer
<1>11. CASE UNCHANGED vars
  BY <1>11 DEF vars
<1> HIDE DEF TypeOK, StaysAccepted, Fields,
  MainEnded, InServer, Answers, Defects, shared, phones, Accepted
<1>12. CASE MainStep
  BY <1>1, <1>2, <1>12 DEF MainStep
<1>13. CASE ServerStep
  BY <1>3, <1>4, <1>5, <1>6, <1>13 DEF ServerStep
<1>14. CASE PhoneStep
  BY <1>7, <1>8, <1>10, <1>14 DEF PhoneStep, PostAssertion, PostByOther
<1> QED
  BY <1>11, <1>12, <1>13, <1>14 DEF Next

LEMMA AnswerStep == TypeOK /\ OneAnswerOpen /\ [Next]_vars => OneAnswerOpen'
<1> SUFFICES ASSUME TypeOK, OneAnswerOpen, [Next]_vars PROVE OneAnswerOpen'
  OBVIOUS
<1> USE NoPostAssumption, NoPageAssumption DEF TypeOK, OneAnswerOpen, Fields,
  MainEnded, InServer, Answers, Defects, shared, phones, Dead, ButtonEnabled
<1>1. CASE StartServer \/ Woken \/ GiveUp \/ Joined \/ Decide
  BY <1>1 DEF StartServer, Woken, GiveUp, Joined, Decide, Stop, GotoMain
<1>2. ASSUME NEW f \in Fields, Read(f) PROVE OneAnswerOpen'
  BY <1>2 DEF Read, ReadFrom, Decodes, GotoMain
<1>3. CASE Listen \/ Exit
  BY <1>3 DEF Listen, Exit
<1>4. CASE ProcessExits
  BY <1>4 DEF ProcessExits, InHandler
<1>5. ASSUME NEW k \in Post, Receive(k) \/ NoServer(k) \/ Body(k) \/ Answer(k) PROVE OneAnswerOpen'
  BY <1>5 DEF Receive, NoServer, Body, Answer, GotoPost
<1>6. ASSUME NEW k \in Post, SetAssertion(k) PROVE OneAnswerOpen'
  BY <1>6 DEF SetAssertion, StoreFirst, GotoPost
<1>7. ASSUME NEW p \in Page, Open(p) \/ Tap(p) \/ SignFails(p) PROVE OneAnswerOpen'
  BY <1>7 DEF Open, Tap, SignFails
<1>8. ASSUME NEW p \in Page, NEW k \in Post, PostAssertion(p, k) PROVE OneAnswerOpen'
  <2>1. PICK d \in {"none", "address"} : Send(k, p, d)
    BY <1>8 DEF PostAssertion
  <2>2. post[k] = "none"
    BY <2>1, Choice
  <2>3. page[p] = "signing" /\ page' = [page EXCEPT ![p] = "posting"]
    BY <1>8 DEF PostAssertion
  <2>4. /\ post' = [post EXCEPT ![k] = "sent"]
        /\ sender' = [sender EXCEPT ![k] = p]
        /\ word' = word /\ word[k] = "none"
    BY <2>1, <2>2 DEF Send, GotoPost
  <2>5. ASSUME NEW j \in Post, sender[j] = p
        PROVE  /\ word[j] \in {"heard", "lost"}
               /\ word[j] = "heard" => post[j] \in Dead
    <3>1. sender[j] # NoPage /\ page[sender[j]] = "signing"
      BY <2>3, <2>5
    <3>2. word[j] \in {"heard", "lost"}
      BY <3>1
    <3>3. word[j] = "heard" => post[j] \in Dead
      BY <3>1
    <3> QED
      BY <3>2, <3>3
  <2>6. ASSUME NEW j \in Post, post'[j] = "none" PROVE word'[j] = "none" /\ sender'[j] = NoPage
    BY <2>4, <2>6
  <2>7. ASSUME NEW j \in Post, sender'[j] # NoPage
        PROVE  /\ word'[j] = "none" => page'[sender'[j]] = "posting"
               /\ word'[j] = "heard" => post'[j] \in Answers
               /\ word'[j] = "heard" /\ page'[sender'[j]] # "signed" => post'[j] \in Dead
    <3>1. CASE j = k
      BY <2>2, <2>3, <2>4, <3>1
    <3>2. CASE j # k /\ sender[j] = p
      BY <2>3, <2>4, <2>5, <2>7, <3>2
    <3>3. CASE j # k /\ sender[j] # p
      BY <2>3, <2>4, <2>7, <3>3
    <3> QED
      BY <3>1, <3>2, <3>3
  <2>8. ASSUME NEW i \in Post, NEW j \in Post, sender'[i] = sender'[j], sender'[j] # NoPage, i # j
        PROVE  /\ ~(word'[i] = "none" /\ word'[j] = "none")
               /\ word'[i] # "lost" /\ word'[j] # "lost" => post'[i] \in Dead \/ post'[j] \in Dead
    <3>1. CASE i = k
      <4>1. sender[j] = p /\ word'[j] = word[j] /\ post'[j] = post[j] /\ word'[i] = "none"
        BY <2>4, <2>8, <3>1
      <4> QED
        BY <2>5, <4>1
    <3>2. CASE j = k
      <4>1. sender[i] = p /\ word'[i] = word[i] /\ post'[i] = post[i] /\ word'[j] = "none"
        BY <2>4, <2>8, <3>2
      <4> QED
        BY <2>5, <4>1
    <3>3. CASE i # k /\ j # k
      <4>1. /\ sender'[i] = sender[i] /\ sender'[j] = sender[j]
            /\ post'[i] = post[i] /\ post'[j] = post[j]
        BY <2>4, <3>3
      <4> QED
        BY <2>4, <2>8, <4>1
    <3> QED
      BY <3>1, <3>2, <3>3
  <2> QED
    BY <2>6, <2>7, <2>8
<1>9. ASSUME NEW k \in Post, PostByOther(k) PROVE OneAnswerOpen'
  <2>1. PICK d \in Defects \cup {"none"} : Send(k, NoPage, d) /\ UNCHANGED page
    BY <1>9 DEF PostByOther
  <2>2. post[k] = "none"
    BY <2>1, Choice
  <2> QED
    BY <2>1, <2>2 DEF Send, GotoPost
<1>10. ASSUME NEW k \in Post, HearAnswer(k) \/ LoseAnswer(k) PROVE OneAnswerOpen'
  BY <1>10 DEF HearAnswer, LoseAnswer
<1>11. CASE UNCHANGED vars
  BY <1>11 DEF vars
<1> HIDE DEF TypeOK, OneAnswerOpen, Fields,
  MainEnded, InServer, Answers, Defects, shared, phones, Dead, ButtonEnabled
<1>12. CASE MainStep
  BY <1>1, <1>2, <1>12 DEF MainStep
<1>13. CASE ServerStep
  BY <1>3, <1>4, <1>5, <1>6, <1>13 DEF ServerStep
<1>14. CASE PhoneStep
  BY <1>7, <1>8, <1>9, <1>10, <1>14 DEF PhoneStep
<1> QED
  BY <1>11, <1>12, <1>13, <1>14 DEF Next

\* While the main thread reads, two assertions of one page that may be among the fields are
\* there because an answer was lost.
LEMMA NoMixOfOne ==
  ASSUME TypeOK, StaysAccepted, OneAnswerOpen, main \notin MainEnded,
         NEW j \in Post, NEW k \in Post, j # k, sender[j] = sender[k], sender[j] # NoPage,
         j = stored \/ \E f \in Fields : j = read[f],
         k = stored \/ \E f \in Fields : k = read[f]
  PROVE  "lost" \in {word[j], word[k]}
<1>1. post[j] \in Accepted /\ post[k] \in Accepted
  BY NoPostAssumption DEF TypeOK, StaysAccepted
<1>2. post[j] \notin Dead /\ post[k] \notin Dead
  BY <1>1 DEF Accepted, Dead
<1> QED
  BY <1>2 DEF OneAnswerOpen

LEMMA MixedStep ==
  TypeOK /\ OnlySound /\ StaysAccepted /\ OneAnswerOpen /\ MixedOnlyByTwo /\ [Next]_vars
    => MixedOnlyByTwo'
<1> SUFFICES ASSUME TypeOK, OnlySound, StaysAccepted, OneAnswerOpen, MixedOnlyByTwo, [Next]_vars,
                    NEW f \in Fields, NEW g \in Fields,
                    read'[f] # NoPost, read'[g] # NoPost, read'[f] # read'[g],
                    sender'[read'[f]] = sender'[read'[g]], sender'[read'[f]] # NoPage
             PROVE  "lost" \in {word'[read'[f]], word'[read'[g]]}
  BY DEF MixedOnlyByTwo
<1> DEFINE Goal == "lost" \in {word'[read'[f]], word'[read'[g]]}
<1>1. CASE \E h \in Fields : Read(h)
  <2>1. PICK h \in Fields : Read(h)
    BY <1>1
  <2>2. main = "reading" /\ read' = [read EXCEPT ![h] = stored]
        /\ sender' = sender /\ word' = word
    BY <2>1 DEF Read, ReadFrom, phones
  <2>3. \A e \in Fields : read'[e] = stored \/ read'[e] = read[e]
    BY <2>2 DEF TypeOK
  <2>4. read'[f] \in Post /\ read'[g] \in Post
    BY <2>3 DEF TypeOK
  <2>5. main \notin MainEnded
    BY <2>2 DEF MainEnded
  <2>6. sender[read'[f]] = sender[read'[g]] /\ sender[read'[f]] # NoPage
    BY <2>2
  <2>7. "lost" \in {word[read'[f]], word[read'[g]]}
    BY <2>3, <2>4, <2>5, <2>6, NoMixOfOne
  <2> QED
    BY <2>2, <2>7
<1>2. ASSUME read' = read 
      PROVE  /\ read[f] \in Post /\ read[g] \in Post
             /\ post[read[f]] # "none" /\ post[read[g]] # "none"
  BY <1>2 DEF TypeOK, OnlySound
<1>3. ASSUME read' = read, sender' = sender, word' = word PROVE Goal
  BY <1>3 DEF MixedOnlyByTwo
<1>4. CASE StartServer \/ Woken \/ GiveUp \/ Joined \/ Decide
  BY <1>3, <1>4 DEF StartServer, Woken, GiveUp, Joined, Decide, Stop, phones
<1>5. CASE Listen \/ Exit \/ ProcessExits
  BY <1>3, <1>5 DEF Listen, Exit, ProcessExits, phones
<1>6. ASSUME NEW k \in Post,
             Receive(k) \/ NoServer(k) \/ Body(k) \/ SetAssertion(k) \/ Answer(k)
      PROVE  Goal
  BY <1>3, <1>6 DEF Receive, NoServer, Body, SetAssertion, Answer, phones
<1>7. ASSUME NEW p \in Page, Open(p) \/ Tap(p) \/ SignFails(p) PROVE Goal
  BY <1>3, <1>7 DEF Open, Tap, SignFails
<1>8. ASSUME NEW k \in Post, NEW p, NEW d, Send(k, p, d) PROVE Goal
  <2>1. post[k] = "none" /\ read' = read /\ word' = word /\ sender' = [sender EXCEPT ![k] = p]
    BY <1>8, Choice DEF Send
  <2>2. sender'[read[f]] = sender[read[f]] /\ sender'[read[g]] = sender[read[g]]
    BY <1>2, <2>1 DEF TypeOK
  <2> QED
    BY <2>1, <2>2 DEF MixedOnlyByTwo
<1>9. ASSUME NEW k \in Post, HearAnswer(k) \/ LoseAnswer(k) PROVE Goal
  <2>1. /\ read' = read /\ sender' = sender
        /\ \A j \in Post : word[j] = "lost" => word'[j] = "lost"
    BY <1>9 DEF HearAnswer, LoseAnswer, TypeOK
  <2>2. "lost" \in {word[read[f]], word[read[g]]}
    BY <2>1 DEF MixedOnlyByTwo
  <2> QED
    BY <1>2, <2>1, <2>2
<1>10. CASE UNCHANGED vars
  BY <1>3, <1>10 DEF vars, phones
<1> HIDE DEF Goal
<1>11. CASE MainStep
  BY <1>1, <1>4, <1>11 DEF MainStep, Goal
<1>12. CASE ServerStep
  BY <1>5, <1>6, <1>12 DEF ServerStep, Goal
<1>13. CASE PhoneStep
  BY <1>7, <1>8, <1>9, <1>13 DEF PhoneStep, PostAssertion, PostByOther, Goal
<1> QED
  BY <1>10, <1>11, <1>12, <1>13 DEF Next, Goal

\* Only a field of another program's post makes b64decode raise.
RaisedByOther == main = "raised" => StoppedByOther

LEMMA RaisedStep == TypeOK /\ OnlySound /\ StoredFirst /\ RaisedByOther /\ [Next]_vars => RaisedByOther'
<1> SUFFICES ASSUME TypeOK, OnlySound, StoredFirst, RaisedByOther, [Next]_vars, main' = "raised"
             PROVE  StoppedByOther'
  BY DEF RaisedByOther
<1>1. ASSUME main' = main, read' = read, sender' = sender PROVE StoppedByOther'
  BY <1>1 DEF RaisedByOther, StoppedByOther
<1>2. CASE StartServer \/ Woken \/ GiveUp \/ Joined \/ Decide
  BY <1>2 DEF StartServer, Woken, GiveUp, Joined, Decide, Stop, GotoMain
<1>3. ASSUME NEW f \in Fields, Read(f) PROVE StoppedByOther'
  <2>1. stored # NoPost /\ sender[stored] = NoPage /\ sender' = sender
    BY <1>3 DEF Read, Decodes, ReadFrom, GotoMain, StoredFirst, phones
  <2>2. read'[f] = stored
    BY <1>3 DEF Read, ReadFrom, TypeOK
  <2> QED
    BY <2>1, <2>2 DEF StoppedByOther
<1>4. CASE ServerStep
  <2>1. main' = main /\ read' = read /\ sender' = sender
    BY <1>4 DEF ServerStep, Listen, Exit, ProcessExits, Receive, NoServer, Body, SetAssertion,
       Answer, phones
  <2> QED
    BY <1>1, <2>1
<1>5. ASSUME NEW p \in Page, Open(p) \/ Tap(p) \/ SignFails(p) PROVE StoppedByOther'
  BY <1>1, <1>5 DEF Open, Tap, SignFails
<1>6. ASSUME NEW k \in Post, HearAnswer(k) \/ LoseAnswer(k) PROVE StoppedByOther'
  BY <1>1, <1>6 DEF HearAnswer, LoseAnswer
<1>7. ASSUME NEW k \in Post, NEW p, NEW d, Send(k, p, d) PROVE StoppedByOther'
  <2>1. post[k] = "none" /\ main' = main /\ read' = read /\ \A j \in Post : j # k => sender'[j] = sender[j]
    BY <1>7, SendOne
  <2>2. PICK f \in Fields : read[f] # NoPost /\ sender[read[f]] = NoPage
    BY <2>1 DEF RaisedByOther, StoppedByOther
  <2>3. read[f] \in Post /\ read[f] # k
    BY <2>1, <2>2 DEF TypeOK, OnlySound
  <2> QED
    BY <2>1, <2>2, <2>3 DEF StoppedByOther
<1>8. CASE UNCHANGED vars
  BY <1>1, <1>8 DEF vars, phones
<1>9. CASE MainStep
  BY <1>2, <1>3, <1>9 DEF MainStep
<1>10. CASE PhoneStep
  BY <1>5, <1>6, <1>7, <1>10 DEF PhoneStep, PostAssertion, PostByOther
<1> QED
  BY <1>4, <1>8, <1>9, <1>10 DEF Next

\* The inductive invariant.
IInv ==
  /\ TypeOK /\ StoredFirst /\ OnlySound /\ StaysAccepted /\ OneAnswerOpen /\ MixedOnlyByTwo
  /\ RaisedByOther

LEMMA InitInv == Init => IInv
<1> SUFFICES ASSUME Init PROVE IInv
  OBVIOUS
<1> USE NoPostAssumption, NoPageAssumption
<1>1. TypeOK
  BY TypeInit
<1>2. StoredFirst /\ OnlySound
  BY DEF Init, StoredFirst, OnlySound, WokenFindsAssertion
<1>3. StaysAccepted /\ OneAnswerOpen /\ MixedOnlyByTwo
  BY DEF Init, StaysAccepted, OneAnswerOpen, MixedOnlyByTwo
<1>4. RaisedByOther
  BY DEF Init, RaisedByOther
<1> QED
  BY <1>1, <1>2, <1>3, <1>4 DEF IInv

LEMMA StepInv == IInv /\ [Next]_vars => IInv'
BY TypeStep, StoredStep, SoundStep, AcceptedStep, AnswerStep, MixedStep, RaisedStep DEF IInv

LEMMA Invariant == Spec => []IInv
BY InitInv, StepInv, PTL DEF Spec

\* Every variable of the bridge keeps its type: each post is at one place of its handler, and
\* each field is read from nothing or from one post.
THEOREM BridgeTypes == Spec => []TypeOK
BY Invariant, PTL DEF IInv

\* The assert of request_signature_via_qr never fails, for any number of posts and however
\* the two threads interleave in set_assertion: the event is set after the assertion, and
\* nothing removes an assertion.
THEOREM WokenFinds == Spec => []WokenFindsAssertion
<1>1. IInv => WokenFindsAssertion
  BY DEF IInv, StoredFirst
<1> QED
  BY Invariant, <1>1, PTL

\* Whatever post a field is read from passed _check_private, _check_token and the look at
\* its fields, also when another post replaced the assertion between two look-ups.
THEOREM SoundReturned == Spec => []OnlyWellFormedReturned
<1>1. IInv => OnlyWellFormedReturned
  BY DEF IInv, OnlySound, OnlyWellFormedReturned
<1> QED
  BY Invariant, <1>1, PTL

\* One page whose answers all arrive never mixes two of its assertions in what is returned,
\* for any number of pages and posts: its button stays disabled until an answer, and the
\* answer to a stored assertion is never a refusal while the command still reads.
THEOREM OnePhoneNeverMixes == Spec => []MixedOnlyByTwo
BY Invariant, PTL DEF IInv
-----------------------------------------------------------------------------
\* No page hears that it was accepted before the event is set.
Announced ==
  /\ \A k \in Post : post[k] \in {"answering", "ok"} => event
  /\ \A p \in Page : page[p] = "signed" => event

LEMMA AnnouncedInit == Init => Announced
  BY DEF Init, Announced

LEMMA AnnouncedStep ==
  ASSUME TypeOK, Announced, [Next]_vars
  PROVE  Announced' /\ (event => event')
<1> USE DEF TypeOK, Announced, InServer, Answers, shared, phones
<1> DEFINE Goal == Announced' /\ (event => event')
<1>1. CASE MainStep
  BY <1>1 DEF MainStep, StartServer, Woken, GiveUp, Joined, Decide, Stop, Read
<1>2. CASE Listen \/ Exit \/ ProcessExits
  BY <1>2 DEF Listen, Exit, ProcessExits
<1>3. ASSUME NEW k \in Post, Receive(k) \/ NoServer(k) \/ Body(k) \/ Answer(k) PROVE Goal
  BY <1>3 DEF Receive, NoServer, Body, Answer, GotoPost
<1>4. ASSUME NEW k \in Post, SetAssertion(k) PROVE Goal
  BY <1>4 DEF SetAssertion, StoreFirst, GotoPost
<1>5. ASSUME NEW p \in Page, Open(p) \/ Tap(p) \/ SignFails(p) PROVE Goal
  BY <1>5 DEF Open, Tap, SignFails
<1>6. ASSUME NEW k \in Post, NEW p, NEW d, Send(k, p, d),
             UNCHANGED page \/ \E q \in Page : page' = [page EXCEPT ![q] = "posting"]
      PROVE  Goal
  BY <1>6, SendOne DEF Send
<1>7. ASSUME NEW k \in Post, HearAnswer(k) \/ LoseAnswer(k) PROVE Goal
  BY <1>7 DEF HearAnswer, LoseAnswer
<1>8. CASE UNCHANGED vars
  BY <1>8 DEF vars
<1>9. CASE ServerStep
  BY <1>2, <1>3, <1>4, <1>9 DEF ServerStep
<1>10. CASE PhoneStep
  BY <1>5, <1>6, <1>7, <1>10 DEF PhoneStep, PostAssertion, PostByOther
<1> QED
  BY <1>1, <1>8, <1>9, <1>10 DEF Next

LEMMA AlwaysAnnounced == Spec => []Announced
<1>1. IInv => TypeOK
  BY DEF IInv
<1>2. TypeOK /\ Announced /\ [Next]_vars => Announced'
  BY AnnouncedStep
<1> QED
  BY <1>1, <1>2, AnnouncedInit, Invariant, PTL DEF Spec

\* The wait is over, or ends, with an assertion: it cannot end by the time-out any more.
Answered ==
  \/ main = "waiting" /\ event
  \/ main \in {"joining", "checking"} /\ got
  \/ main \in {"reading", "returned", "raised"}

LEMMA AnsweredStays == ASSUME TypeOK, StoredFirst, Announced, Answered, [Next]_vars PROVE Answered'
<1> USE DEF Answered, StoredFirst, WokenFindsAssertion, MainEnded
<1>1. CASE MainStep
  BY <1>1 DEF MainStep, StartServer, Woken, GiveUp, Joined, Decide, Stop, Read, Decodes, GotoMain
<1>2. ASSUME ~MainStep PROVE main' = main /\ got' = got
  BY <1>2 DEF Next, ServerStep, Listen, Exit, ProcessExits, Receive, NoServer, Body, SetAssertion, Answer,
     PhoneStep, Open, Tap, SignFails, PostAssertion, PostByOther, Send, HearAnswer, LoseAnswer, vars
<1> QED
  BY <1>1, <1>2, AnnouncedStep

\* If the main thread always ends, a page that says "Signed!" while it waits has told the
\* truth: the time-out that races with the answer, a second post and a lost server thread
\* leave two ways to an end, the return of an assertion and an exception of b64decode at a
\* field of another program's post (set_assertion, wait, request_signature_via_qr).
THEOREM SignedThenReturned == Spec /\ BridgeEnds => SignedIsReturned
<1>1. ASSUME NEW p \in Page
      PROVE  Spec /\ BridgeEnds => (main = "waiting" /\ page[p] = "signed" ~> main = "returned" \/ StoppedByOther)
  <2>1. Announced => (main = "waiting" /\ page[p] = "signed" => Answered)
    BY <1>1 DEF Announced, Answered
  <2>2. IInv /\ Announced /\ Answered /\ [Next]_vars => Answered'
    BY AnsweredStays DEF IInv
  <2>3. IInv /\ Answered /\ main \in MainEnded => main = "returned" \/ StoppedByOther
    BY DEF Answered, MainEnded, IInv, RaisedByOther
  <2> QED
    BY <2>1, <2>2, <2>3, Invariant, AlwaysAnnounced, PTL DEF Spec, BridgeEnds
<1> QED
  BY <1>1 DEF SignedIsReturned
=============================================================================
