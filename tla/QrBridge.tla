------------------------------- MODULE QrBridge -------------------------------
(***************************************************************************)
(* auth/qr_bridge.py: the main thread of one uon command starts a uvicorn  *)
(* thread, waits for a phone to post a signed assertion, and reads the     *)
(* four fields of what it finds in the shared QrBridgeResult.  Several     *)
(* posts may arrive: two phones may scan the code, a page whose answer was *)
(* lost gives its button back, and anybody may call the port.              *)
(***************************************************************************)
EXTENDS Naturals

CONSTANTS
  Post,    \* requests to /callback, each with an assertion of its own
  NoPost,  \* nothing stored, or nothing read
  Page,    \* browsers that may open the link of the QR code
  NoPage   \* another program

ASSUME NoPageAssumption == NoPage \notin Page
ASSUME NoPostAssumption == NoPost \notin Post

\* The order in which request_signature_via_qr reads them.
Fields == 1..4   \* credentialId, authenticatorData, clientDataJSON, signature

VARIABLES
  main,       \* where the main thread is
  server,     \* the uvicorn thread
  stopping,   \* server.should_exit
  post,       \* where the handler of each post is
  defect,     \* what a check of the server finds wrong with each post, once it is sent
  sender,     \* the page that sent each post
  word,       \* whether the page heard the answer to its post
  page,       \* what each page shows
  stored,     \* result.assertion_json
  event,      \* result._event
  got,        \* what wait() returned
  read        \* the assertion each field was read from

shared == <<stored, event>>
phones == <<defect, sender, word, page>>
vars == <<main, server, stopping, post, phones, shared, got, read>>

MainEnded == {"returned", "timeout", "failed", "raised"}
Answers == {"ok", "refused", "cut"}
InServer == {"body", "storing", "setting", "answering"}
\* A source address that is not private, another token, a body without the four fields.
Defects == {"address", "token", "fields"}

TypeOK ==
  /\ main \in {"start", "waiting", "joining", "checking", "reading"} \cup MainEnded
  /\ server \in {"off", "up", "exited"}
  /\ stopping \in BOOLEAN
  /\ post \in [Post -> {"none", "sent"} \cup InServer \cup Answers]
  /\ defect \in [Post -> Defects \cup {"none"}]
  /\ sender \in [Post -> Page \cup {NoPage}]
  /\ word \in [Post -> {"none", "heard", "lost"}]
  /\ page \in [Page -> {"closed", "ready", "signing", "posting", "signed"}]
  /\ stored \in Post \cup {NoPost}
  /\ event \in BOOLEAN /\ got \in BOOLEAN
  /\ read \in [Fields -> Post \cup {NoPost}]

Init ==
  /\ main = "start"
  /\ server = "off"
  /\ stopping = FALSE
  /\ post = [k \in Post |-> "none"]
  /\ defect = [k \in Post |-> "none"]
  /\ sender = [k \in Post |-> NoPage]
  /\ word = [k \in Post |-> "none"]
  /\ page = [p \in Page |-> "closed"]
  /\ stored = NoPost
  /\ event = FALSE
  /\ got = FALSE
  /\ read = [f \in Fields |-> NoPost]

GotoMain(s) == main' = s
GotoPost(k, s) == post' = [post EXCEPT ![k] = s]

(***************************************************************************)
(* The main thread: request_signature_via_qr.                              *)
(***************************************************************************)
\* server_thread.start, the 0.4 s pause and the QR code.
StartServer ==
  /\ main = "start"
  /\ GotoMain("waiting")
  /\ UNCHANGED <<server, stopping, post, phones, shared, got, read>>

Stop(result) ==
  /\ got' = result
  /\ stopping' = TRUE
  /\ GotoMain("joining")
  /\ UNCHANGED <<server, post, phones, shared, read>>

Woken == main = "waiting" /\ event /\ Stop(TRUE)

\* Mutants: the wait has no time-out; it ends without another look at the event.
NeverGiveUp == FALSE
GiveUpAnyway == main = "waiting" /\ Stop(FALSE)
\* wait() gives up; an event set after this is not seen.
GiveUp == main = "waiting" /\ ~event /\ Stop(FALSE)

\* join(timeout=3): the thread has ended, or the main thread goes on without it.
Joined ==
  /\ main = "joining"
  /\ GotoMain("checking")
  /\ UNCHANGED <<server, stopping, post, phones, shared, got, read>>

\* No post sets result.error: only the time-out and the assertion are left.
Decide ==
  /\ main = "checking"
  /\ GotoMain(IF ~got THEN "timeout" ELSE IF stored = NoPost THEN "failed" ELSE "reading")
  /\ UNCHANGED <<server, stopping, post, phones, shared, got, read>>

\* Each field is looked up in result.assertion_json anew.
ReadFrom(f) == stored

\* b64decode takes what btoa in the page wrote; of what another program sent under a field's
\* name nothing was checked.
Decodes(f) ==
  \/ GotoMain(IF f = 4 THEN "returned" ELSE "reading")
  \/ sender[ReadFrom(f)] = NoPage /\ GotoMain("raised")

Read(f) ==
  /\ main = "reading"
  /\ \A g \in Fields : read[g] = NoPost <=> g >= f
  /\ read' = [read EXCEPT ![f] = ReadFrom(f)]
  /\ Decodes(f)
  /\ UNCHANGED <<server, stopping, post, phones, shared, got>>

(***************************************************************************)
(* The uvicorn thread.  It finishes what it accepted before should_exit    *)
(* was seen, also when join has given up on it.                            *)
(***************************************************************************)
\* The port is bound, or it is taken and the thread ends without a word.
Listen ==
  /\ server = "off" /\ main # "start"
  /\ server' \in {"up", "exited"}
  /\ UNCHANGED <<main, stopping, post, phones, shared, got, read>>

InHandler(k) == post[k] \in InServer

Exit ==
  /\ server = "up" /\ stopping
  /\ \A k \in Post : ~InHandler(k)
  /\ server' = "exited"
  /\ UNCHANGED <<main, stopping, post, phones, shared, got, read>>

\* Mutants: no guard; a body without a look at its fields.
AcceptsAll(k) == TRUE
\* _check_private, _check_token.
PassesGuards(k) == defect[k] \notin {"address", "token"}
HasFields(k) == defect[k] # "fields"

Receive(k) ==
  /\ post[k] = "sent"
  /\ server = "up"
  /\ GotoPost(k, IF PassesGuards(k) THEN "body" ELSE "refused")
  /\ UNCHANGED <<main, server, stopping, phones, shared, got, read>>

NoServer(k) ==
  /\ post[k] = "sent"
  /\ server # "up"
  /\ GotoPost(k, "cut")
  /\ UNCHANGED <<main, server, stopping, phones, shared, got, read>>

\* await request.json(): the event loop may serve other posts meanwhile.
Body(k) ==
  /\ post[k] = "body"
  /\ \A j \in Post : post[j] \notin {"storing", "setting"}
  /\ GotoPost(k, IF HasFields(k) THEN "storing" ELSE "refused")
  /\ UNCHANGED <<main, server, stopping, phones, shared, got, read>>

\* Mutants: the bodies are collected; the event is set before the assertion is there.
CollectFirst(k) ==
  \/ post[k] = "storing" /\ stored' = {k} /\ GotoPost(k, "setting") /\ UNCHANGED event
  \/ post[k] = "setting" /\ event' = TRUE /\ GotoPost(k, "answering") /\ UNCHANGED stored
EventFirst(k) ==
  \/ post[k] = "storing" /\ event' = TRUE /\ GotoPost(k, "setting") /\ UNCHANGED stored
  \/ post[k] = "setting" /\ stored' = k /\ GotoPost(k, "answering") /\ UNCHANGED event
\* set_assertion: the main thread may run between its two statements.
StoreFirst(k) ==
  \/ post[k] = "storing" /\ stored' = k /\ GotoPost(k, "setting") /\ UNCHANGED event
  \/ post[k] = "setting" /\ event' = TRUE /\ GotoPost(k, "answering") /\ UNCHANGED stored

SetAssertion(k) ==
  /\ StoreFirst(k)
  /\ UNCHANGED <<main, server, stopping, phones, got, read>>

Answer(k) ==
  /\ post[k] = "answering"
  /\ GotoPost(k, "ok")
  /\ UNCHANGED <<main, server, stopping, phones, shared, got, read>>

\* The command ends some time after its bridge, and the daemon thread with it.
ProcessExits ==
  /\ main \in MainEnded
  /\ server # "exited"
  /\ server' = "exited"
  /\ post' = [k \in Post |-> IF InHandler(k) THEN "cut" ELSE post[k]]
  /\ UNCHANGED <<main, stopping, phones, shared, got, read>>

(***************************************************************************)
(* The phones: the page that GET /sign serves, and other programs.         *)
(***************************************************************************)
Open(p) ==
  /\ page[p] = "closed" /\ server = "up"
  /\ page' = [page EXCEPT ![p] = "ready"]
  /\ UNCHANGED <<main, server, stopping, post, defect, sender, word, shared, got, read>>

\* Mutant: the button stays enabled.
AnyPage(p) == page[p] \in {"ready", "posting"}
ButtonEnabled(p) == page[p] = "ready"

\* The button is disabled while the person is asked.
Tap(p) ==
  /\ ButtonEnabled(p)
  /\ page' = [page EXCEPT ![p] = "signing"]
  /\ UNCHANGED <<main, server, stopping, post, defect, sender, word, shared, got, read>>

\* navigator.credentials.get() is cancelled or times out.
SignFails(p) ==
  /\ page[p] = "signing"
  /\ page' = [page EXCEPT ![p] = "ready"]
  /\ UNCHANGED <<main, server, stopping, post, defect, sender, word, shared, got, read>>

\* Which of the posts to come this one is makes no difference.
Unsent == {k \in Post : post[k] = "none"}

Send(k, p, d) ==
  /\ Unsent # {} /\ k = CHOOSE j \in Unsent : TRUE
  /\ GotoPost(k, "sent")
  /\ sender' = [sender EXCEPT ![k] = p]
  /\ defect' = [defect EXCEPT ![k] = d]
  /\ UNCHANGED <<main, server, stopping, word, shared, got, read>>

\* fetch("/callback"): the page has the token and all fields, its address may have changed.
PostAssertion(p, k) ==
  /\ page[p] = "signing"
  /\ \E d \in {"none", "address"} : Send(k, p, d)
  /\ page' = [page EXCEPT ![p] = "posting"]

PostByOther(k) == \E d \in Defects \cup {"none"} : Send(k, NoPage, d) /\ UNCHANGED page

\* The page says "Signed!" and keeps its button disabled, or gives it back.
HearAnswer(k) ==
  /\ sender[k] # NoPage /\ word[k] = "none" /\ post[k] \in Answers
  /\ word' = [word EXCEPT ![k] = "heard"]
  /\ page' = [page EXCEPT ![sender[k]] = IF post[k] = "ok" THEN "signed" ELSE "ready"]
  /\ UNCHANGED <<main, server, stopping, post, defect, sender, shared, got, read>>

\* fetch throws: the request, or its answer, is lost or still on its way.
LoseAnswer(k) ==
  /\ sender[k] # NoPage /\ word[k] = "none" /\ post[k] # "none"
  /\ word' = [word EXCEPT ![k] = "lost"]
  /\ page' = [page EXCEPT ![sender[k]] = "ready"]
  /\ UNCHANGED <<main, server, stopping, post, defect, sender, shared, got, read>>

MainStep == StartServer \/ Woken \/ GiveUp \/ Joined \/ Decide \/ \E f \in Fields : Read(f)

ServerStep ==
  \/ Listen \/ Exit \/ ProcessExits
  \/ \E k \in Post : Receive(k) \/ NoServer(k) \/ Body(k) \/ SetAssertion(k) \/ Answer(k)

PhoneStep ==
  \/ \E p \in Page : Open(p) \/ Tap(p) \/ SignFails(p) \/ \E k \in Post : PostAssertion(p, k)
  \/ \E k \in Post : PostByOther(k) \/ HearAnswer(k) \/ LoseAnswer(k)

Next == MainStep \/ ServerStep \/ PhoneStep

Spec == Init /\ [][Next]_vars

\* The main thread is scheduled, and its wait and its join have time-outs.
FairSpec == Spec /\ WF_vars(MainStep)

-----------------------------------------------------------------------------
\* A main thread that was woken finds an assertion: the assert in request_signature_via_qr
\* never fails, however the two threads interleave in set_assertion.
WokenFindsAssertion == main # "failed"

\* Everything that is returned was posted with all its fields, a valid token and from a
\* private address.
OnlyWellFormedReturned ==
  \A f \in Fields : read[f] # NoPost => defect[read[f]] = "none"

\* The four fields that are returned come from one assertion, unless two parties posted one
\* each or a page signed again after an answer was lost: no single phone whose answers
\* arrive can mix two of its own (QrBridgeResult, and the page's button).
MixedOnlyByTwo ==
  \A f, g \in Fields : read[f] # NoPost /\ read[g] # NoPost /\ read[f] # read[g] =>
    \/ sender[read[f]] # sender[read[g]]
    \/ sender[read[f]] = NoPage
    \/ "lost" \in {word[read[f]], word[read[g]]}

\* The command always gets an answer or a time-out, also when the server never listens.
BridgeEnds == main = "waiting" ~> main \in MainEnded

\* The bridge stopped at a field that another program had sent.
StoppedByOther ==
  main = "raised" /\ \E f \in Fields : read[f] # NoPost /\ sender[read[f]] = NoPage

\* A page that says "Signed!" while the command still waits has told the truth: the command
\* does not time out, and it returns an assertion unless another program that has the token
\* replaced the page's by one whose fields do not decode.
SignedIsReturned ==
  \A p \in Page :
    main = "waiting" /\ page[p] = "signed" ~> main = "returned" \/ StoppedByOther
=============================================================================
