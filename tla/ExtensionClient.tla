---------------------------- MODULE ExtensionClient ----------------------------
(***************************************************************************)
(* The browser extension: a content script in every tab of a broadcasting  *)
(* site samples the video and sends its state and its features; the        *)
(* service worker paints the badge and posts the features; the popup       *)
(* listens too.  Of the browser it is used that the messages of one tab,   *)
(* the calls of its API and their answers come in the order they were      *)
(* made, and that a message reaches the worker and the popup at once.  The  *)
(* posts are left out: they are always refused, their body having no ts_ms, *)
(* and nothing remembers them.                                             *)
(***************************************************************************)
EXTENDS Integers, Sequences

CONSTANTS
    Tabs,
    Pictures,       \* what a sample may look like
    Dark,           \* those of them that are almost black
    MaxTicks        \* bound on the samples

VARIABLES
    prevGray,    \* per tab: the sample before, or 0
    outbox,      \* per tab: messages sent and not yet delivered
    calls,       \* calls of chrome.action under way
    replies,     \* calls that are done and whose handler waits to go on
    badge,
    popup,       \* "closed", "-" before it has heard of a state, or a state
    ticks,
    told         \* the state of the last LG_STATE that was delivered

extensionVars == <<prevGray, outbox, calls, replies, badge, popup, ticks, told>>
------------------------------------------------------------------------------
Samples == [gray : Pictures, paused : BOOLEAN]

(* A picture that does not move is away, however dark; nothing is known of  *)
(* the motion of the first.                                                 *)
ClassifyState(sample, before) ==
    CASE sample.paused -> "IDLE"
      [] ~sample.paused /\ before \in {0, sample.gray} -> "BRIEF_AWAY"
      [] ~sample.paused /\ before \notin {0, sample.gray} ->
            IF sample.gray \in Dark THEN "LONG_AWAY" ELSE "ON_DUTY"

ColorFromState(s) ==
    CASE s = "ON_DUTY" -> "green"
      [] s = "BRIEF_AWAY" -> "amber"
      [] s = "LONG_AWAY" -> "orange"
      [] s = "CHEAT_FLAGGED" -> "red"
      [] OTHER -> "grey"

(* A tick without a video, or whose frame cannot be read, does nothing; one *)
(* of a paused video remembers its picture.                                 *)
Tick(tab) ==
    /\ ticks < MaxTicks
    /\ \E sample \in Samples :
          /\ outbox' = [outbox EXCEPT ![tab] = @ \o
                <<[type |-> "LG_STATE", state |-> ClassifyState(sample, prevGray[tab])],
                  [type |-> "LG_SIGNAL", state |-> ClassifyState(sample, prevGray[tab])]>>]
          /\ prevGray' = [prevGray EXCEPT ![tab] = sample.gray]
    /\ ticks' = ticks + 1
    /\ UNCHANGED <<calls, replies, badge, popup, told>>

Reload(tab) ==
    /\ prevGray[tab] # 0
    /\ prevGray' = [prevGray EXCEPT ![tab] = 0]
    /\ UNCHANGED <<outbox, calls, replies, badge, popup, ticks, told>>

MutantUpdateBadge(s) == IF calls = << >> THEN <<[set |-> "color", of |-> s]>> ELSE calls

(* The first half of updateBadge. *)
UpdateBadge(s) == Append(calls, [set |-> "color", of |-> s])

StateArrives(s) ==
    /\ calls' = UpdateBadge(s)
    /\ popup' = IF popup = "closed" THEN "closed" ELSE s
    /\ told' = s

(* The popup shows the features, which are left out here. *)
SignalArrives == UNCHANGED <<calls, popup, told>>

DeliverMessage(tab) ==
    /\ outbox[tab] # << >>
    /\ LET msg == Head(outbox[tab])
       IN IF msg.type = "LG_STATE" THEN StateArrives(msg.state) ELSE SignalArrives
    /\ outbox' = [outbox EXCEPT ![tab] = Tail(@)]
    /\ UNCHANGED <<prevGray, replies, badge, ticks>>

PerformCall ==
    /\ calls # << >>
    /\ badge' = IF Head(calls).set = "color"
                THEN [badge EXCEPT !.color = ColorFromState(Head(calls).of)]
                ELSE [badge EXCEPT !.text = Head(calls).of]
    /\ replies' = Append(replies, Head(calls))
    /\ calls' = Tail(calls)
    /\ UNCHANGED <<prevGray, outbox, popup, ticks, told>>

(* A handler goes on after its await; after the text it has ended. *)
Resume ==
    /\ replies # << >>
    /\ calls' = IF Head(replies).set = "color" THEN Append(calls, [Head(replies) EXCEPT !.set = "text"]) ELSE calls
    /\ replies' = Tail(replies)
    /\ UNCHANGED <<prevGray, outbox, badge, popup, ticks, told>>

OpenOrClosePopup ==
    /\ popup' = IF popup = "closed" THEN "-" ELSE "closed"
    /\ UNCHANGED <<prevGray, outbox, calls, replies, badge, ticks, told>>

ExtensionInit ==
    /\ prevGray = [tab \in Tabs |-> 0] /\ outbox = [tab \in Tabs |-> << >>]
    /\ calls = << >> /\ replies = << >> /\ badge = [color |-> "none", text |-> ""]
    /\ popup = "closed" /\ ticks = 0 /\ told = "nothing"

ExtensionNext ==
    \/ \E tab \in Tabs : Tick(tab) \/ Reload(tab) \/ DeliverMessage(tab)
    \/ PerformCall \/ Resume \/ OpenOrClosePopup

ExtensionSpec == ExtensionInit /\ [][ExtensionNext]_extensionVars
------------------------------------------------------------------------------
(* When no call is under way the badge shows one state, colour and text,    *)
(* and it is the one the worker was told last, although the handlers of     *)
(* several tabs paint it in two steps each and overlap; and an open popup   *)
(* that has heard of a state shows the same.                                *)
BadgeOfLastMessage ==
    /\ told # "nothing" /\ calls = << >> /\ replies = << >> =>
          badge = [color |-> ColorFromState(told), text |-> told]
    /\ popup \notin {"closed", "-"} => popup = told
==============================================================================
