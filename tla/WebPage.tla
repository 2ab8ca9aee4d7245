------------------------------- MODULE WebPage -------------------------------
(***************************************************************************)
(* The page the web gateway serves: a script whose event handlers run one  *)
(* at a time, and wait for the answers of requests that may come in any    *)
(* order.  What a handler reads after an await may have changed since.     *)
(*                                                                         *)
(* The gateway (WebGateway) and the server behind it are external here: a  *)
(* request takes effect at once, at some time, and is answered.  The       *)
(* terminal, which shares nothing with the rest of the page, the progress  *)
(* bars and the toasts are left out.                                       *)
(***************************************************************************)
EXTENDS Naturals, Sequences

CONSTANTS Root, Sub,    \* a directory, and one in it
          Names,        \* the other entries they may have
          Batches,      \* the sequences of names a user may upload at once
          NoName,
          Slots, Polls, \* bounds: requests in flight, and the timer's besides
          MaxClicks,    \* bound: what the user does
          MaxMishaps    \* bound: failed requests, and what other browsers do

AllSlots == 1..Slots
NoSlot == 0

ASSUME PageAssumption ==
  /\ Root # Sub /\ NoName \notin Names /\ Batches \subseteq Seq(Names) \ {<< >>}
  /\ Slots \in Nat \ {0} /\ Polls \in Nat \ {0} /\ MaxClicks \in Nat /\ MaxMishaps \in Nat

VARIABLES content, connected,   \* what the server holds; whether the gateway's client is connected
          flight,               \* the requests under way, or answered and not yet handled
          polls,                \* the timer's: how many are sent, and answered what
          currentPath, shown,   \* the page: its directory and the entries on it
          btConnected, label,   \* the page: the connection and the button
          disabled,             \* btn.disabled
          overlay,              \* the transfer card covers the page
          transfer, batch,      \* what the card is for, and the files still to send
          clicks, mishaps,
          awaited,              \* the slot of the last listing asked for, until it is answered,
                                \* or a change has failed, perhaps after it took effect
          current,              \* the page shows the answer to that listing
          start, alone          \* where a batch began, and that no listing was under way

gateway == <<content, connected>>
button == <<btConnected, label, disabled>>
card == <<overlay, transfer, batch, start, alone>>
listing == <<currentPath, shown, awaited, current>>
pageVars == <<gateway, flight, polls, listing, button, card, clicks, mishaps>>

Ask(k, d, n) == [kind |-> k, path |-> d, name |-> n, step |-> "sent", got |-> {}, on |-> FALSE]
Idle == Ask("none", Root, NoName)
Is(i, kinds, step) == flight[i].kind \in kinds /\ flight[i].step = step
Put(i, r) == flight' = [flight EXCEPT ![i] = r]

(* loadDir(d), until its await. *)
LoadDir(i, d) ==
  /\ Put(i, Ask("ls", d, NoName)) /\ awaited' = i /\ current' = FALSE
  /\ UNCHANGED <<currentPath, shown>>

(* The end of the script: checkStatus(), the timer, loadDir('/'). *)
PageInit ==
  /\ content \in [{Root, Sub} -> SUBSET Names] /\ connected = TRUE
  /\ flight = [i \in AllSlots |-> IF i = 1 THEN Ask("ls", Root, NoName) ELSE Idle]
  /\ polls = [sent |-> 1, on |-> 0, off |-> 0]
  /\ currentPath = Root /\ shown = {} /\ awaited = 1 /\ current = FALSE
  /\ btConnected = TRUE /\ label = "..." /\ disabled = FALSE
  /\ overlay = FALSE /\ transfer = "none" /\ batch = << >> /\ start = Root /\ alone = FALSE
  /\ clicks = 0 /\ mishaps = 0

-----------------------------------------------------------------------------
(* The gateway.                                                            *)

(* What a request does to the directory it names. *)
Effect(r) ==
  CASE r.kind = "rm" -> [content EXCEPT ![r.path] = @ \ {r.name}]
    [] r.kind \in {"mkdir", "upload"} -> [content EXCEPT ![r.path] = @ \cup {r.name}]
    [] OTHER -> content

Process(i) ==
  LET r == flight[i] IN
  /\ r.kind # "none" /\ r.step = "sent"
  /\ r.kind \in {"ls", "rm", "mkdir", "upload", "download"} => connected
  /\ Put(i, [r EXCEPT !.step = "ok", !.got = IF r.kind = "ls" THEN content[r.path] ELSE {}, !.on = r.kind = "status" /\ connected])
  /\ content' = Effect(r)
  /\ connected' = CASE r.kind = "connect" -> TRUE [] r.kind = "disconnect" -> FALSE [] OTHER -> connected
  /\ UNCHANGED <<listing, button, card, polls, clicks, mishaps>>

(* "not connected", for nothing. *)
Refuse(i) ==
  /\ flight[i].kind \in {"ls", "rm", "mkdir", "upload", "download"} /\ flight[i].step = "sent"
  /\ ~connected /\ Put(i, [flight[i] EXCEPT !.step = "failed"])
  /\ UNCHANGED <<gateway, listing, button, card, polls, clicks, mishaps>>

(* A request fails at the server, on its link or on the way to the page; it *)
(* may have taken effect.                                                  *)
Fails(i) ==
  LET r == flight[i] IN
  /\ r.kind # "none" /\ r.step = "sent" /\ mishaps < MaxMishaps /\ mishaps' = mishaps + 1
  /\ Put(i, [r EXCEPT !.step = "failed"])
  /\ content' \in {content, Effect(r)}
  /\ UNCHANGED <<connected, listing, button, card, polls, clicks>>

(* Another browser connects or disconnects. *)
Other ==
  /\ mishaps < MaxMishaps /\ mishaps' = mishaps + 1 /\ connected' = ~connected
  /\ UNCHANGED <<content, flight, listing, button, card, polls, clicks>>

-----------------------------------------------------------------------------
(* The user, who reaches the page when the card does not cover it.         *)

Click(i) ==
  /\ ~overlay /\ clicks < MaxClicks /\ clicks' = clicks + 1
  /\ flight[i] = Idle /\ \A j \in 1..(i - 1) : flight[j] # Idle
  /\ UNCHANGED <<gateway, polls, mishaps>>

(* A directory on the page, goUp and refresh. *)
Open(i, d) ==
  /\ Click(i) /\ LoadDir(i, d) /\ UNCHANGED <<button, card>>

(* doRm of an entry on the page, doMkdir. *)
Remove(i, n) ==
  /\ Click(i) /\ n \in shown /\ Put(i, Ask("rm", currentPath, n))
  /\ UNCHANGED <<listing, button, card>>

Mkdir(i, n) ==
  /\ Click(i) /\ Put(i, Ask("mkdir", currentPath, n))
  /\ UNCHANGED <<listing, button, card>>

(* doDownload: showTransfer, fetch. *)
Download(i, n) ==
  /\ Click(i) /\ n \in shown /\ Put(i, Ask("download", currentPath, n))
  /\ overlay' = TRUE /\ transfer' = "download"
  /\ UNCHANGED <<listing, button, batch, start, alone>>

(* The loop of uploadFiles: the next file, to the directory the page shows *)
(* now, or the end of it.                                                  *)
NextFile(i, files) ==
  IF files = << >>
  THEN /\ overlay' = FALSE /\ transfer' = "none" /\ batch' = << >>
       /\ LoadDir(i, currentPath)
  ELSE /\ overlay' = TRUE /\ transfer' = "upload" /\ batch' = Tail(files)
       /\ Put(i, Ask("upload", currentPath, Head(files))) /\ UNCHANGED listing

Upload(i, files) ==
  /\ Click(i) /\ NextFile(i, files)
  /\ start' = currentPath /\ alone' = \A j \in AllSlots : flight[j].kind # "ls"
  /\ UNCHANGED button

(* toggleConnection, until its await. *)
Toggle(i) ==
  /\ Click(i) /\ ~disabled /\ disabled' = TRUE /\ label' = "..."
  /\ Put(i, Ask(IF btConnected THEN "disconnect" ELSE "connect", Root, NoName))
  /\ UNCHANGED <<btConnected, listing, card>>

-----------------------------------------------------------------------------
(* Delays.                                                                 *)

(* The pause after an upload; setTimeout(hideTransfer, 1000) after a       *)
(* download.                                                               *)
PauseOver(i) ==
  /\ transfer = "pause" /\ flight[i] = Idle /\ NextFile(i, batch)
  /\ UNCHANGED <<gateway, button, start, alone, polls, clicks, mishaps>>

HideTransfer ==
  /\ transfer = "saved" /\ overlay' = FALSE /\ transfer' = "none"
  /\ UNCHANGED <<gateway, flight, listing, button, batch, start, alone, polls, clicks, mishaps>>

-----------------------------------------------------------------------------
(* What follows an await.                                                  *)

Listed(i) ==
  /\ Is(i, {"ls"}, "ok") /\ Put(i, Idle)
  /\ currentPath' = flight[i].path /\ shown' = flight[i].got
  /\ current' = (awaited = i) /\ awaited' = IF awaited = i THEN NoSlot ELSE awaited
  /\ UNCHANGED <<gateway, button, card, polls, clicks, mishaps>>

ListFailed(i) ==
  /\ Is(i, {"ls"}, "failed") /\ Put(i, Idle)
  /\ awaited' = IF awaited = i THEN NoSlot ELSE awaited
  /\ UNCHANGED <<gateway, currentPath, shown, current, button, card, polls, clicks, mishaps>>

\* a seeded fault: no refresh after a change
ChangedUnseen(i) ==
  /\ Is(i, {"rm", "mkdir"}, "ok") /\ Put(i, Idle)
  /\ UNCHANGED <<gateway, listing, button, card, polls, clicks, mishaps>>

(* doRm and doMkdir: refresh() reads currentPath now. *)
Changed(i) ==
  /\ Is(i, {"rm", "mkdir"}, "ok") /\ LoadDir(i, currentPath)
  /\ UNCHANGED <<gateway, button, card, polls, clicks, mishaps>>

ChangeFailed(i) ==
  /\ Is(i, {"rm", "mkdir"}, "failed") /\ Put(i, Idle) /\ current' = FALSE /\ awaited' = NoSlot
  /\ UNCHANGED <<gateway, currentPath, shown, button, card, polls, clicks, mishaps>>

Downloaded(i) ==
  /\ Is(i, {"download"}, "ok") /\ Put(i, Idle) /\ transfer' = "saved"
  /\ UNCHANGED <<gateway, listing, button, overlay, batch, start, alone, polls, clicks, mishaps>>

\* a seeded fault: only the success hides the card
DownloadFailedCovered(i) ==
  /\ Is(i, {"download"}, "failed") /\ Put(i, Idle) /\ transfer' = "none"
  /\ UNCHANGED <<gateway, listing, button, overlay, batch, start, alone, polls, clicks, mishaps>>

DownloadFailed(i) ==
  /\ Is(i, {"download"}, "failed") /\ Put(i, Idle) /\ transfer' = "none" /\ overlay' = FALSE
  /\ UNCHANGED <<gateway, listing, button, batch, start, alone, polls, clicks, mishaps>>

\* a seeded fault: the card is hidden after each file
UploadedUncovered(i) ==
  /\ Is(i, {"upload"}, "ok") /\ Put(i, Idle) /\ transfer' = "pause" /\ overlay' = FALSE
  /\ UNCHANGED <<gateway, listing, button, batch, start, alone, polls, clicks, mishaps>>

Uploaded(i) ==
  /\ Is(i, {"upload"}, "ok") /\ Put(i, Idle) /\ transfer' = "pause"
  /\ UNCHANGED <<gateway, listing, button, overlay, batch, start, alone, polls, clicks, mishaps>>

UploadFailed(i) ==
  /\ Is(i, {"upload"}, "failed") /\ NextFile(i, batch)
  /\ UNCHANGED <<gateway, button, start, alone, polls, clicks, mishaps>>

(* The end of toggleConnection begins: the button works again, before the  *)
(* state it stands for is known.                                           *)
Toggled(i) ==
  /\ Is(i, {"connect", "disconnect"}, "ok") \/ Is(i, {"connect", "disconnect"}, "failed")
  /\ disabled' = FALSE /\ Put(i, Ask("status", Root, NoName))
  /\ UNCHANGED <<gateway, listing, btConnected, label, card, polls, clicks, mishaps>>

LabelFor(on) == IF on THEN "Disconnect" ELSE "Connect"

\* a seeded fault: the button is redrawn only when the state is new
LearnIfNew(on) ==
  /\ btConnected' = on /\ label' = IF btConnected = on THEN label ELSE LabelFor(on)
  /\ UNCHANGED disabled

(* checkStatus: updateConnUI. *)
Learn(on) == btConnected' = on /\ label' = LabelFor(on) /\ UNCHANGED disabled

(* if (btConnected) refresh() *)
ThenRefresh(i, on) ==
  IF on THEN LoadDir(i, currentPath) ELSE Put(i, Idle) /\ UNCHANGED listing

Checked(i) ==
  /\ Is(i, {"status"}, "ok") /\ Learn(flight[i].on) /\ ThenRefresh(i, flight[i].on)
  /\ UNCHANGED <<gateway, card, polls, clicks, mishaps>>

CheckFailed(i) ==
  /\ Is(i, {"status"}, "failed") /\ ThenRefresh(i, btConnected)
  /\ UNCHANGED <<gateway, button, card, polls, clicks, mishaps>>

-----------------------------------------------------------------------------
(* setInterval(checkStatus, 5000): the next is sent whether or not the last *)
(* was answered.  They are all alike, so that they are counted.            *)

State(on) == IF on THEN "on" ELSE "off"

Tick ==
  /\ polls.sent + polls.on + polls.off < Polls
  /\ polls' = [polls EXCEPT !.sent = @ + 1]
  /\ UNCHANGED <<gateway, flight, listing, button, card, clicks, mishaps>>

PollServed ==
  /\ polls.sent > 0
  /\ polls' = [polls EXCEPT !.sent = @ - 1, ![State(connected)] = @ + 1]
  /\ UNCHANGED <<gateway, flight, listing, button, card, clicks, mishaps>>

(* Its failure changes nothing on the page. *)
PollFails ==
  /\ polls.sent > 0 /\ mishaps < MaxMishaps /\ mishaps' = mishaps + 1
  /\ polls' = [polls EXCEPT !.sent = @ - 1]
  /\ UNCHANGED <<gateway, flight, listing, button, card, clicks>>

PollAnswered(on) ==
  /\ polls[State(on)] > 0 /\ polls' = [polls EXCEPT ![State(on)] = @ - 1]
  /\ Learn(on)
  /\ UNCHANGED <<gateway, flight, listing, card, clicks, mishaps>>

-----------------------------------------------------------------------------
Resume(i) ==
  \/ Listed(i) \/ ListFailed(i) \/ Changed(i) \/ ChangeFailed(i)
  \/ Downloaded(i) \/ DownloadFailed(i) \/ Uploaded(i) \/ UploadFailed(i)
  \/ Toggled(i) \/ Checked(i) \/ CheckFailed(i)

User(i) ==
  \/ \E d \in {Root, Sub, currentPath} : Open(i, d)
  \/ \E n \in Names : Remove(i, n) \/ Mkdir(i, n) \/ Download(i, n)
  \/ \E files \in Batches : Upload(i, files)
  \/ Toggle(i)

PageNext ==
  \/ Other \/ HideTransfer \/ Tick \/ PollServed \/ PollFails
  \/ \E on \in BOOLEAN : PollAnswered(on)
  \/ \E i \in AllSlots : Process(i) \/ Refuse(i) \/ Fails(i) \/ User(i) \/ PauseOver(i) \/ Resume(i)

(* The browser fires its timers and runs what an answer resumes; the       *)
(* gateway answers.  Nobody has to click.                                  *)
PageSpec ==
  /\ PageInit /\ [][PageNext]_pageVars
  /\ WF_pageVars(Tick) /\ WF_pageVars(PollServed)
  /\ \A on \in BOOLEAN : WF_pageVars(PollAnswered(on))
  /\ WF_pageVars(HideTransfer) /\ WF_pageVars(\E i \in AllSlots : PauseOver(i))
  /\ \A i \in AllSlots : WF_pageVars(Process(i) \/ Refuse(i)) /\ WF_pageVars(Resume(i))

-----------------------------------------------------------------------------
(* Properties.                                                             *)

(* All files of a batch go to the directory the user dropped them on, if   *)
(* no listing was under way then: nothing that runs between two of them    *)
(* changes currentPath (uploadFiles reads it anew for each).               *)
UploadTogether ==
  \A i \in AllSlots : flight[i].kind = "upload" /\ alone => flight[i].path = start

(* When nothing that changes the server or the page is under way, and the  *)
(* page has the answer to the last listing it asked for, it shows what the *)
(* server holds: every change is followed by a listing asked for after it. *)
ListingFresh ==
  current /\ transfer = "none" /\ (\A i \in AllSlots : flight[i].kind \notin {"ls", "rm", "mkdir", "upload"})
    => shown = content[currentPath]

(* The page learns whether the gateway is connected, and the button says   *)
(* so, whatever order toggles, polls and other browsers take (checkStatus, *)
(* updateConnUI).                                                          *)
StatusConverges ==
  \A on \in BOOLEAN :
    <>[](connected = on) => <>[](btConnected = on /\ label = LabelFor(on))

(* The card that covers the page goes away, after any number of files and  *)
(* failures (uploadFiles, doDownload).                                     *)
TransferEnds == overlay ~> ~overlay
=============================================================================
