-------------------------------- MODULE Panel --------------------------------
(* The keys and the display of the gateway (panel/gateway_panel.c) and the   *)
(* browser (web/web_gateway.c) change one configuration.  Whoever changes it *)
(* holds the revision that he saw; the application advances the revision     *)
(* with every change (app/gateway_application.c), and who holds an old one   *)
(* is refused.                                                               *)
(*                                                                           *)
(* A configuration is a number, new with every edit.  Pages, rows and fields *)
(* of one view are not told apart: the user may be on any.  What a key in    *)
(* the queue will be is open until it is read; when it was pressed is not.   *)
(* What no later step reads before it is written is forgotten.               *)
EXTENDS Integers, Sequences

CONSTANTS MaxEdits, MaxRevision, KeysMax

VARIABLES
    app,     \* gateway_application_t: the revision, the transaction, the prompt
    panel,   \* gateway_panel_t
    keys,    \* pressed and not read: was the browser's prompt on the display?
    shown,   \* the browser's prompt is on the display
    meant,   \* the configuration that the panel's token stands for
    blind    \* a recovery was confirmed by a key from before its prompt

panelVars == <<app, panel, keys, shown, meant, blind>>

NoToken == 0 - 1
NoTransaction == [state |-> "idle", candidate |-> 0, accepted |-> NoToken, result |-> NoToken]
Failures == {"failed", "rollbackFailed"}
Busy(tx) == tx.state = "applying"
Checked(a, token) == a.revision = token
Advanced(a) == [a EXCEPT !.revision = @ + 1]
Room == app.revision < MaxRevision
Fresh == app.edits + 1

WebViews == {"web", "url", "recover", "code"}
DraftViews == {"configPorts", "configFields", "editField", "applyConfirm", "applyResult",
               "network", "networkEdit", "networkConfirm", "networkResult",
               "ntpEdit", "ntpConfirm", "ntpResult"}
TokenViews == WebViews \cup DraftViews \cup {"backlight", "shutdown", "timeEdit", "timeConfirm"}

-----------------------------------------------------------------------------
(* The state after a step, without what is read no more.                     *)

Reads(p) == p.pending \/ p.view = "applyResult"

KeptApp(a, p) ==
    CASE p.pending -> a
      [] ~p.pending /\ (Busy(a.tx) \/ Reads(p)) ->
             [a EXCEPT !.tx.accepted = NoToken, !.tx.result = NoToken]
      [] OTHER -> [a EXCEPT !.tx = NoTransaction]

KeptPanel(p) ==
    [p EXCEPT !.draft = IF p.view \in DraftViews THEN @ ELSE 0,
              !.original = IF p.view = "editField" THEN @ ELSE 0,
              !.conflict = @ /\ Reads(p),
              !.token = IF p.view \in TokenViews THEN @ ELSE NoToken,
              !.webToken = IF p.pending THEN @ ELSE NoToken,
              !.ready = @ /\ p.remote,
              !.back = IF p.remote THEN @ ELSE "home"]

Becomes(a, p, m) ==
    /\ app' = KeptApp(a, p) /\ panel' = KeptPanel(p)
    /\ meant' = IF p.view \in TokenViews THEN m ELSE 0

-----------------------------------------------------------------------------
(* gateway_application_request_configuration: refused without a trace,       *)
(* nothing to change, failed before it began, or accepted.                   *)

Refused(a) == Busy(a.tx) \/ a.network # "idle"

Transaction(state, content, revision) ==
    [state |-> state, candidate |-> content, accepted |-> revision, result |-> revision]

Requests(a, content) ==
    CASE Refused(a) -> {<<a, FALSE>>}
      [] ~Refused(a) /\ content = a.selected ->
             {<<[a EXCEPT !.tx = Transaction("unchanged", 0, NoToken)], TRUE>>}
      [] OTHER ->
             {<<[a EXCEPT !.tx = Transaction("failed", 0, NoToken)], FALSE>>,
              <<[Advanced(a) EXCEPT !.tx = Transaction("applying", content, a.revision + 1)],
                TRUE>>}

-----------------------------------------------------------------------------
(* Between two steps of the panel.                                           *)

Others(a) ==
    /\ panel.phase = "idle" /\ Becomes(a, panel, meant)
    /\ UNCHANGED <<keys, shown, blind>>

\* Fault: the revision is not advanced when the change is made.
EndsUnnoticed(state) ==
    /\ Busy(app.tx) /\ Room
    /\ Others(IF state \in Failures THEN [app EXCEPT !.tx.state = state]
              ELSE [app EXCEPT !.tx.state = state, !.selected = app.tx.candidate])

\* config_transaction_step to its end, and observe_revision: what the request
\* itself changed renews its receipt, if nothing else had.
TransactionEnds(state) ==
    LET a == [Advanced(app) EXCEPT !.tx.state = state, !.selected = app.tx.candidate]
    IN  /\ Busy(app.tx) /\ Room
        /\ Others(CASE state \in Failures -> [app EXCEPT !.tx.state = state]
                    [] state \notin Failures /\ Checked(app, app.tx.result) ->
                         [a EXCEPT !.tx.result = a.revision]
                    [] OTHER -> a)

\* gateway_application_network_step: a state of the network change, from the
\* browser or from the panel, is a change.
NetworkMoves ==
    /\ Room /\ ~Busy(app.tx)
    /\ Others([Advanced(app) EXCEPT !.network = IF @ = "idle" THEN "trying" ELSE "idle"])

\* web_gateway_request: the page holds the revision just read.
BrowserWrites ==
    /\ Room /\ app.edits < MaxEdits
    /\ \E r \in Requests([app EXCEPT !.edits = @ + 1], Fresh) : r[2] /\ Others(r[1])

\* Only for an administrator, whom the first code has made.
BrowserRecovers ==
    app.prompt = 0 /\ app.available /\ ~app.code /\ Others([app EXCEPT !.prompt = 1])
PromptExpires == app.prompt # 0 /\ Others([app EXCEPT !.prompt = 0])

Press ==
    /\ Len(keys) < KeysMax /\ panel.works # "noKeys"
    /\ keys' = Append(keys, shown)
    /\ UNCHANGED <<app, panel, shown, meant, blind>>

-----------------------------------------------------------------------------
(* gateway_panel_step, first part: what became of the page's own change, and *)
(* the prompt that the browser asks for.                                     *)

\* web_transaction_result: <<panel, the token was renewed>>
WebResult(p) ==
    LET done == [p EXCEPT !.pending = FALSE]
    IN  CASE ~p.pending -> <<p, FALSE>>
          [] p.pending /\ p.view \notin WebViews -> <<done, FALSE>>
          [] p.pending /\ p.view \in WebViews /\ p.webToken # app.tx.accepted ->
                 <<[done EXCEPT !.conflict = TRUE], FALSE>>
          [] p.pending /\ p.view \in WebViews /\ p.webToken = app.tx.accepted /\ Busy(app.tx) ->
                 <<p, FALSE>>
          [] OTHER ->
                 IF app.tx.state \in {"uncertain", "rollbackFailed"} \/ ~Checked(app, app.tx.result)
                 THEN <<[done EXCEPT !.conflict = TRUE], FALSE>>
                 ELSE <<[done EXCEPT !.token = app.tx.result], TRUE>>

\* Keys pressed up to now are discarded; more than the barrier reads, or a
\* broken keypad, and there is no prompt.
Drains == {TRUE} \cup (IF keys # <<>> THEN {FALSE} ELSE {})

\* web_prompt: the browser's prompt, or the first code, which needs no prompt.
Begin ==
    LET result == WebResult(panel)
        p == result[1]
        safe == /\ p.view \in {"home", "menu", "system", "web"} /\ p.works = "both"
                /\ app.network = "idle" /\ ~Busy(app.tx)
        q == [p EXCEPT !.phase = "key", !.remote = @ /\ app.prompt # 0,
                       !.view = IF p.remote /\ app.prompt = 0 THEN p.back ELSE @]
        a == [app EXCEPT !.available = safe]
        m == IF result[2] /\ app.tx.state = "succeeded" THEN app.tx.candidate ELSE meant
    IN  /\ panel.phase = "idle"
        /\ \/ app.prompt # 1 /\ Becomes(a, q, m) /\ UNCHANGED keys
           \/ /\ app.prompt = 1 /\ safe /\ TRUE \in Drains /\ keys' = <<>>
              /\ Becomes([a EXCEPT !.prompt = 2],
                         [q EXCEPT !.back = q.view, !.view = "recover", !.remote = TRUE,
                                   !.ready = FALSE], m)
           \/ /\ app.prompt = 1 /\ (~safe \/ FALSE \in Drains)
              /\ keys' = IF safe THEN <<>> ELSE keys
              /\ Becomes([a EXCEPT !.prompt = 0], q, m)
           \/ /\ app.code /\ safe /\ UNCHANGED keys
              /\ Becomes([a EXCEPT !.code = FALSE], [q EXCEPT !.view = "code"], m)
        /\ UNCHANGED <<shown, blind>>

-----------------------------------------------------------------------------
(* Third part: the display, drawn after the key.                             *)

\* Fault: the prompt counts as answered to by keys from before it was drawn.
DrawnAtOnce(p, a, m, rest, drawn, drained) ==
    /\ Becomes(a, [p EXCEPT !.phase = "idle", !.ready = @ \/ (p.remote /\ drawn)], m)
    /\ shown' = IF drawn THEN p.remote ELSE shown
    /\ keys' = rest

\* A prompt drawn for the first time may be answered from now on: web_drain.
Drawn(p, a, m, rest, drawn, drained) ==
    LET first == drawn /\ p.remote /\ ~p.ready
    IN  /\ Becomes(IF first /\ ~drained THEN [a EXCEPT !.prompt = 0] ELSE a,
                   [p EXCEPT !.phase = "idle", !.ready = @ \/ (first /\ drained)], m)
        /\ shown' = IF drawn THEN p.remote ELSE shown
        /\ keys' = IF first THEN <<>> ELSE rest

\* The display may fail, and is closed then.
Draws(p, a, m, rest) ==
    \/ \E drained \in Drains : p.works # "noDisplay" /\ Drawn(p, a, m, rest, TRUE, drained)
    \/ Drawn([p EXCEPT !.works = IF @ = "both" THEN "noDisplay" ELSE @], a, m, rest, FALSE, FALSE)

-----------------------------------------------------------------------------
(* Second part: a key.                                                       *)

\* Where a key only leads to another view.
Navigation ==
    {<<"home", "menu">>, <<"menu", "home">>, <<"home", "page">>, <<"page", "home">>,
     <<"menu", "page">>, <<"page", "menu">>, <<"menu", "system">>, <<"system", "menu">>,
     <<"menu", "shutdown">>, <<"shutdown", "menu">>, <<"system", "backlight">>,
     <<"backlight", "system">>, <<"system", "timeEdit">>, <<"timeEdit", "system">>,
     <<"timeEdit", "timeConfirm">>, <<"timeConfirm", "timeEdit">>,
     <<"configPorts", "menu">>, <<"configPorts", "configFields">>,
     <<"configFields", "configPorts">>, <<"configFields", "applyConfirm">>,
     <<"applyConfirm", "configFields">>, <<"applyResult", "menu">>,
     <<"editField", "configFields">>, <<"configPorts", "network">>,
     <<"network", "configPorts">>, <<"networkEdit", "network">>,
     <<"networkEdit", "networkConfirm">>, <<"networkConfirm", "networkEdit">>,
     <<"networkResult", "network">>, <<"ntpEdit", "system">>, <<"ntpEdit", "ntpConfirm">>,
     <<"ntpConfirm", "ntpEdit">>, <<"ntpResult", "system">>,
     <<"system", "web">>, <<"web", "system">>, <<"web", "recover">>, <<"web", "url">>,
     <<"url", "web">>, <<"code", "web">>, <<"stopFailed", "menu">>}

\* What gateway_panel_step does after the key: these views begin with the
\* revision of the moment.
Renews(old, new) ==
    \/ old # new /\ new \in {"backlight", "web", "shutdown"}
    \/ old = "system" /\ new = "timeEdit"
    \/ old = "network" /\ new = "networkEdit"

Answerable == panel.phase = "key" /\ keys # <<>> /\ ~(panel.remote /\ ~panel.ready)

\* The key is read and leaves the panel and the application like this; a draft is
\* loaded with the revision of the moment.
Acts(p, a, loads) ==
    LET renewed == loads \/ Renews(panel.view, p.view)
    IN  /\ Answerable
        /\ Draws(IF renewed THEN [p EXCEPT !.token = a.revision] ELSE p, a,
                 IF renewed THEN a.selected ELSE meant, Tail(keys))

Loaded(view) == [panel EXCEPT !.draft = app.selected, !.conflict = FALSE, !.view = view]

Navigate ==
    /\ \E n \in Navigation : n[1] = panel.view /\ Acts([panel EXCEPT !.view = n[2]], app, FALSE)
    /\ UNCHANGED blind

\* Configuration, Cancel changes, and F5 in the settings of the clock.
LoadDraft ==
    /\ \/ panel.view \in {"menu", "configFields"} /\ Acts(Loaded("configPorts"), app, TRUE)
       \/ panel.view = "system" /\ Acts(Loaded("ntpEdit"), app, TRUE)
    /\ UNCHANGED blind

\* F5 in the network's page, with no change under way.
OpenNetwork ==
    /\ panel.view = "network" /\ app.network = "idle"
    /\ Acts([panel EXCEPT !.view = "networkEdit"], app, FALSE)
    /\ UNCHANGED blind

\* change_field, ntp_key; F1 takes the edit back.
EditDraft ==
    /\ \/ panel.view = "configFields"
          /\ Acts([panel EXCEPT !.original = panel.draft, !.view = "editField"], app, FALSE)
       \/ panel.view \in {"editField", "ntpEdit"} /\ app.edits < MaxEdits
          /\ Acts([panel EXCEPT !.draft = Fresh], [app EXCEPT !.edits = @ + 1], FALSE)
       \/ panel.view = "editField"
          /\ Acts([panel EXCEPT !.draft = panel.original, !.view = "configFields"], app, FALSE)
    /\ UNCHANGED blind

\* The draft does not pass its validation.
Invalid ==
    /\ \E v \in {<<"configFields", "applyResult">>, <<"networkEdit", "networkResult">>,
                 <<"ntpEdit", "ntpResult">>} :
          panel.view = v[1] /\ Acts([panel EXCEPT !.conflict = TRUE, !.view = v[2]], app, FALSE)
    /\ UNCHANGED blind

\* F3 in the confirmation of a draft; whether the request was refused is not
\* looked at.
Apply ==
    /\ \E v \in {<<"applyConfirm", "applyResult">>, <<"ntpConfirm", "ntpResult">>} :
          /\ panel.view = v[1] /\ Room
          /\ IF Checked(app, panel.token)
             THEN \E r \in Requests(app, panel.draft) :
                     Acts([panel EXCEPT !.view = v[2]], r[1], FALSE)
             ELSE Acts([panel EXCEPT !.conflict = TRUE, !.view = v[2]], app, FALSE)
    /\ UNCHANGED blind

\* F3 in the confirmation of the network settings.
ApplyNetwork ==
    /\ panel.view = "networkConfirm" /\ Room
    /\ LET ok == Checked(app, panel.token) /\ app.network = "idle" /\ ~Busy(app.tx)
       IN  Acts([panel EXCEPT !.conflict = ~ok, !.view = "networkResult"],
                IF ok THEN [Advanced(app) EXCEPT !.network = "trying"] ELSE app, FALSE)
    /\ UNCHANGED blind

\* F3 in the confirmation of a time set by hand; its result leads back.
SetTime ==
    /\ panel.view = "timeConfirm" /\ Room
    /\ \E set \in BOOLEAN :
          Acts([panel EXCEPT !.view = "page"],
               IF set /\ Checked(app, panel.token) THEN Advanced(app) ELSE app, FALSE)
    /\ UNCHANGED blind

\* F3 on a row of the web page, or in the page of the backlight.
Toggle ==
    LET web == panel.view = "web"
    IN  /\ panel.view \in {"web", "backlight"} /\ ~(web /\ panel.pending)
        /\ Room /\ app.edits < MaxEdits
        /\ IF ~Checked(app, panel.token)
           THEN Acts([panel EXCEPT !.conflict = TRUE], app, FALSE)
           ELSE \E r \in Requests([app EXCEPT !.edits = @ + 1], Fresh) :
                   Acts([panel EXCEPT !.conflict = ~web /\ ~r[2], !.pending = web /\ r[2],
                                      !.webToken = IF web /\ r[2] THEN r[1].tx.accepted ELSE @],
                        r[1], FALSE)
    /\ UNCHANGED blind

\* The answer to the prompt, the panel's own or the browser's; web_gateway_local
\* ends the browser's.
Answer ==
    /\ panel.view = "recover"
    /\ \/ /\ Acts([panel EXCEPT !.view = IF panel.remote THEN panel.back ELSE "web",
                                !.remote = FALSE],
                  IF panel.remote THEN [app EXCEPT !.prompt = 0] ELSE app, FALSE)
          /\ UNCHANGED blind
       \/ /\ \E ok \in BOOLEAN :
                Acts(IF ok THEN [panel EXCEPT !.view = "code", !.remote = FALSE] ELSE panel,
                     [app EXCEPT !.prompt = 0], FALSE)
          /\ blind' = (blind \/ (panel.remote /\ ~keys[1]))

Shutdown ==
    /\ panel.view = "shutdown"
    /\ Acts([panel EXCEPT !.view = IF Checked(app, panel.token) THEN "stopping" ELSE "stopFailed"],
            app, FALSE)
    /\ UNCHANGED blind

\* No key, or a key without a meaning here; the keypad may fail, and is closed then.
OtherKey ==
    /\ panel.phase = "key"
    /\ \/ Draws(panel, app, meant, keys)
       \/ keys # <<>> /\ Draws(panel, app, meant, Tail(keys))
       \/ panel.works = "both" /\ Draws([panel EXCEPT !.works = "noKeys"], app, meant, keys)
    /\ UNCHANGED blind

\* Without an administrator the first browser is given a code to show.
Init ==
    /\ \E code \in BOOLEAN :
          app = [selected |-> 1, revision |-> 0, edits |-> 1, network |-> "idle", prompt |-> 0,
                 available |-> FALSE, code |-> code, tx |-> NoTransaction]
    /\ panel = [phase |-> "idle", view |-> "home", token |-> NoToken, draft |-> 0,
                original |-> 0, conflict |-> FALSE, pending |-> FALSE, webToken |-> NoToken,
                remote |-> FALSE, ready |-> FALSE, back |-> "home", works |-> "both"]
    /\ keys = <<>> /\ shown = FALSE /\ meant = 0 /\ blind = FALSE

Next ==
    \/ \E state \in {"succeeded", "uncertain"} \cup Failures : TransactionEnds(state)
    \/ NetworkMoves \/ BrowserWrites \/ BrowserRecovers \/ PromptExpires \/ Press
    \/ Begin \/ Navigate \/ LoadDraft \/ OpenNetwork \/ EditDraft \/ Invalid \/ Apply
    \/ ApplyNetwork \/ SetTime \/ Toggle \/ Answer \/ Shutdown \/ OtherKey

-----------------------------------------------------------------------------
(* Properties.                                                               *)

TypeOK ==
    /\ panel.phase \in {"idle", "key"} /\ panel.works \in {"both", "noKeys", "noDisplay"}
    /\ app.revision \in 0 .. MaxRevision /\ app.edits \in 1 .. MaxEdits
    /\ app.tx.state \in {"idle", "unchanged", "applying", "succeeded", "uncertain"}
                        \cup Failures
    /\ keys \in UNION {[1 .. n -> BOOLEAN] : n \in 0 .. KeysMax}

\* Hazard: the browser changes what the panel's user is looking at, and a
\* transaction of his own renews his token across it.  A token that passes the
\* check stands for the configuration that is selected.
TokenIsCurrent == Checked(app, panel.token) => app.selected = meant

\* Hazard: keys pressed for something else answer the browser's prompt.  Whoever
\* confirms it has seen it.
RecoveryIsSeen == ~blind /\ (panel.remote => panel.view = "recover")

\* docs/user-guide.md:199: plain APPLIED means that the transaction succeeded; the
\* draft is the configuration that was selected.
AppliedMeansApplied ==
    (panel.view = "applyResult" /\ ~panel.conflict /\ app.tx.state = "succeeded")
        => app.tx.candidate = panel.draft

=============================================================================
