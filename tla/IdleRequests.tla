----------------------------- MODULE IdleRequests -----------------------------
(***************************************************************************)
(* Two model requests that Pi Core makes on the side: the idle recap        *)
(* (extensions/recap/index.ts) and the title of the session                 *)
(* (extensions/session-title/index.ts).  Each is answered at any later      *)
(* time, when the conversation it is about may be gone.  A clear or cancel   *)
(* also aborts the request, which then fails or is answered all the same;    *)
(* either way it belongs to an older generation.                           *)
(***************************************************************************)
EXTENDS Naturals

CONSTANT MaxGenerations  \* bound: clears, and cancels

VARIABLES
  busy,             \* the agent is at work
  conversation,     \* its versions, counted
  branch,           \* sessions and branches visited, counted
  recapGeneration,  \* generation of the recap
  armed,            \* timer
  recaps,           \* requests for a recap: their generation, and what they are about
  widget,           \* the version whose recap is shown, or 0
  titleGeneration,  \* generation of the title
  titles,           \* requests for a title
  sessionName       \* whether it has one, and of which branch

idleVars == <<busy, conversation, branch, recapGeneration, armed, recaps, widget,
              titleGeneration, titles, sessionName>>

Unnamed == [given |-> "none", of |-> 0]
Manual == [given |-> "manual", of |-> 0]

Init ==
  /\ busy = FALSE /\ conversation = 1 /\ branch = 1
  /\ recapGeneration = 1 /\ armed = FALSE /\ recaps = {} /\ widget = 0
  /\ titleGeneration = 1 /\ titles = {} /\ sessionName \in {Unnamed, Manual}

------------------------------------------------------------------------------
Bounded == recapGeneration < MaxGenerations /\ titleGeneration < MaxGenerations

Clear == recapGeneration' = recapGeneration + 1 /\ armed' = FALSE /\ widget' = 0
Schedule == recapGeneration' = recapGeneration + 1 /\ armed' = TRUE /\ widget' = 0
Cancel == titleGeneration' = titleGeneration + 1

(* request, of the recap and of the title *)
Recapping == \E r \in recaps : r.at = recapGeneration
Titling(at) == \E t \in titles : t.at = at

(* generate, of the title, unless the exchange has no text yet *)
Generate(at, of) ==
  \/ UNCHANGED titles
  \/ /\ sessionName = Unnamed /\ ~Titling(at)
     /\ titles' = titles \cup {[at |-> at, about |-> of]}

(* A turn begins: with a prompt, or because an extension asked for one. *)
TurnBegins ==
  /\ ~busy /\ Bounded /\ busy' = TRUE
  /\ conversation' = conversation + 1 /\ Clear
  /\ Cancel \/ UNCHANGED titleGeneration
  /\ UNCHANGED <<branch, recaps, titles, sessionName>>

(* agent_settled *)
Settles ==
  /\ busy /\ Bounded /\ busy' = FALSE
  /\ \/ Clear /\ Cancel /\ UNCHANGED titles
     \/ Schedule /\ Generate(titleGeneration, branch) /\ UNCHANGED titleGeneration
  /\ UNCHANGED <<conversation, branch, recaps, sessionName>>

(* The user types: an idle recap is postponed, a shown one goes. *)
Types ==
  /\ Bounded
  /\ IF ~busy /\ (armed \/ Recapping) THEN Schedule ELSE Clear
  /\ UNCHANGED <<busy, conversation, branch, recaps, titleGeneration, titles, sessionName>>

(* A prompt is sent; the agent may start on it later. *)
Prompts ==
  /\ Bounded /\ Clear /\ Cancel
  /\ UNCHANGED <<busy, conversation, branch, recaps, titles, sessionName>>

(* session_before_tree and session_tree *)
Tree ==
  /\ ~busy /\ Bounded /\ Cancel
  /\ \/ UNCHANGED <<conversation, branch, recapGeneration, armed, widget, titles>>
     \/ /\ conversation' = conversation + 1 /\ branch' = branch + 1
        /\ Schedule /\ Generate(titleGeneration', branch')
  /\ UNCHANGED <<busy, recaps, sessionName>>

(* session_before_switch or session_before_fork, session_shutdown and         *)
(* session_start, of a session that may have a name                        *)
Switch ==
  /\ ~busy /\ Bounded /\ Cancel /\ Clear
  /\ conversation' = conversation + 1 /\ branch' = branch + 1
  /\ sessionName' \in {Unnamed, Manual}
  /\ UNCHANGED <<busy, recaps, titles>>

(* /name: session_info_changed *)
Named ==
  /\ Bounded /\ Cancel /\ sessionName' = Manual
  /\ UNCHANGED <<busy, conversation, branch, recapGeneration, armed, recaps, widget, titles>>

------------------------------------------------------------------------------
(* generate, of the recap, unless there is too little to recap *)
TimerFires ==
  /\ armed /\ armed' = FALSE
  /\ \/ UNCHANGED recaps
     \/ ~busy /\ recaps' = recaps \cup {[at |-> recapGeneration, about |-> conversation]}
  /\ UNCHANGED <<busy, conversation, branch, recapGeneration, widget, titleGeneration,
                 titles, sessionName>>

(* Mutant: a late answer is shown if the agent is idle again. *)
FreshIfIdle(r) == ~busy

Fresh(r) == r.at = recapGeneration /\ ~busy

RecapAnswered(r) ==
  /\ recaps' = recaps \ {r}
  /\ UNCHANGED widget \/ (Fresh(r) /\ widget' = r.about)
  /\ UNCHANGED <<busy, conversation, branch, recapGeneration, armed, titleGeneration,
                 titles, sessionName>>

Wanted(t) == t.at = titleGeneration /\ sessionName = Unnamed

(* To set a name is a change of the session's info: it cancels. *)
TitleAnswered(t) ==
  /\ titles' = titles \ {t}
  /\ \/ UNCHANGED <<titleGeneration, sessionName>>
     \/ /\ Wanted(t) /\ Bounded /\ Cancel
        /\ sessionName' = [given |-> "title", of |-> t.about]
  /\ UNCHANGED <<busy, conversation, branch, recapGeneration, armed, recaps, widget>>

Next ==
  \/ TurnBegins \/ Settles \/ Types \/ Prompts \/ Tree \/ Switch \/ Named \/ TimerFires
  \/ \E r \in recaps : RecapAnswered(r)
  \/ \E t \in titles : TitleAnswered(t)

Spec == Init /\ [][Next]_idleVars

------------------------------------------------------------------------------
TypeOK ==
  /\ busy \in BOOLEAN /\ armed \in BOOLEAN /\ widget \in 0 .. conversation
  /\ \A r \in recaps : r.at <= recapGeneration /\ r.about <= conversation
  /\ \A t \in titles : t.at <= titleGeneration /\ t.about <= branch
  /\ sessionName \in [given : {"none", "manual", "title"}, of : 0 .. branch]

(* A recap on the screen is about the conversation as it stands, and the      *)
(* agent is idle: stale results are discarded (README.md, 347).             *)
RecapIsCurrent == widget # 0 => widget = conversation /\ ~busy

(* A stale result is discarded (README.md, 347 and 351): a recap is about     *)
(* what is on the screen, and a title is only given to a session without a   *)
(* name and is about the branch it names, although either was left, named or *)
(* taken up again while the request was under way.                           *)
NoStaleResult ==
  [][/\ RecapIsCurrent'
     /\ sessionName' # sessionName /\ sessionName'.given = "title"
        => sessionName = Unnamed /\ sessionName'.of = branch]_idleVars

=============================================================================
