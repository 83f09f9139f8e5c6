---------------------------- MODULE TerminalLogin ----------------------------
(***************************************************************************)
(* The terminal's connection wizard (tui/login_wizard.py) and what the     *)
(* terminal does for it (tui/app.py): the menus that pick a provider, a    *)
(* model and an effort, a login in a thread of its own, the connection     *)
(* that is switched (model/connection.py), and the prompt that had to wait *)
(* for a login.  A model is known by the provider it was picked for.       *)
(*                                                                         *)
(* Left out: captions and cursors, the effort, the local provider that     *)
(* needs no login; a switch happens at once, as when no turn runs          *)
(* (TaskBoard has the one that waits).                                     *)
(***************************************************************************)
EXTENDS Naturals, Sequences
CONSTANTS Providers, First,   \* First: the connection the program starts with
          MaxTries, MaxEnters, MaxExpiries
VARIABLES step, provider,     \* the wizard's page, and the provider it is about
          model, cameFrom, pasting,  \* pending_model, _reasoning_from, paste_kind
          busy, wizard,       \* wizard: the modal is open and of kind "auth"
          connection,         \* ActiveConnection: its provider, and its model's
          valid,              \* providers with credentials
          login,              \* the login's thread: its provider, or None; is it cancelled?
          finished,           \* callbacks of logins that ended, for the UI thread
          waits, box, sent,   \* prompts: to be sent after the login, typed, started
          times, unheard      \* bounds; the wizard waits for a login that was refused
dialog == <<step, provider, model, cameFrom, pasting, busy, wizard, connection, valid, login,
            finished, waits, box, sent, times, unheard>>
page == <<step, provider, model, cameFrom, pasting, busy>>

None == "none"
ASSUME LoginAssumption == First \in Providers /\ None \notin Providers
Steps == {"home", "provider", "model", "reasoning", "waiting", "paste", "result"}
NoLogin == [of |-> None, cancelled |-> FALSE]
Ready == connection.provider \in valid      \* _ensure_auth_ready

LoginInit ==
    /\ step = "home" /\ provider = None /\ model = None /\ cameFrom = "model" /\ pasting = "token"
    /\ busy = FALSE /\ wizard = FALSE /\ connection = [provider |-> First, model |-> First]
    /\ valid = {} /\ login = NoLogin /\ finished = <<>>
    /\ waits = 0 /\ box = 0 /\ sent = {}
    /\ times = [login |-> 0, enter |-> 0, expire |-> 0] /\ unheard = FALSE

-----------------------------------------------------------------------------
(* The wizard.  Page(...) is the page it shows next.                       *)
Shows(s, p, m) == step' = s /\ provider' = p /\ model' = m
Stays == UNCHANGED <<cameFrom, pasting, busy>>
NoEffect == UNCHANGED <<wizard, connection, valid, login, finished, waits, box, sent, times, unheard>>
At(s) == wizard /\ step = s /\ ~busy

KeepsTheModel(p) == Shows("provider", p, model)
DropsTheModel(p) == Shows("provider", p, None)
Picks(p) == DropsTheModel(p)
ChooseProvider(p) == At("home") /\ Picks(p) /\ Stays /\ NoEffect
BackToHome == At("provider") /\ Shows("home", None, None) /\ Stays /\ NoEffect
PickModel == At("provider") /\ Shows("model", provider, None) /\ Stays /\ NoEffect
EnterReasoning(m, from) ==
    /\ Shows("reasoning", provider, IF from = "provider" THEN None ELSE m)
    /\ cameFrom' = from /\ UNCHANGED <<pasting, busy>>
PickReasoning == At("provider") /\ EnterReasoning(None, "provider") /\ NoEffect
PickFromCatalog == At("model") /\ EnterReasoning(provider, "model") /\ NoEffect
PasteToken ==
    At("provider") /\ Shows("paste", provider, model) /\ pasting' = "token"
    /\ UNCHANGED <<cameFrom, busy>> /\ NoEffect
PasteModel ==
    At("model") /\ Shows("paste", provider, model) /\ pasting' = "model"
    /\ UNCHANGED <<cameFrom, busy>> /\ NoEffect
ReasoningBack ==
    /\ At("reasoning")
    /\ IF cameFrom = "provider" THEN Shows("provider", provider, None) ELSE Shows("model", provider, model)
    /\ Stays /\ NoEffect
ModelBack == At("model") /\ Shows("provider", provider, None) /\ Stays /\ NoEffect
Again == At("result") /\ Shows("home", provider, model) /\ Stays /\ NoEffect

(* Tab goes back as well, and forgets less than the menu's own entries.    *)
GoBack ==
    /\ wizard /\ ~busy
    /\ CASE step = "reasoning" -> Shows(IF cameFrom = "provider" THEN "provider" ELSE "model", provider, model)
         [] step = "model" -> Shows("provider", provider, model)
         [] step \in {"provider", "result"} -> Shows("home", None, model)
         [] step = "paste" -> Shows(IF pasting = "model" THEN "model" ELSE "provider", provider, model)
         [] step = "waiting" -> Shows("provider", provider, model)
         [] OTHER -> FALSE
    /\ pasting' = IF step = "paste" THEN "token" ELSE pasting
    /\ UNCHANGED <<cameFrom, busy>> /\ NoEffect

(* ConnectionService.apply: a provider without credentials is refused and  *)
(* the connection stays; a model that is not named is the provider's own.  *)
AcceptsAny(p) == TRUE
Accepts(p) == p \in valid
Connect(p, m) ==
    LET to == IF p = None THEN connection.provider ELSE p IN
    connection' = IF ~Accepts(to) THEN connection
                  ELSE [provider |-> to, model |-> IF m # None THEN m
                                                   ELSE IF to # connection.provider THEN to
                                                   ELSE connection.model]
Connected(s, p) ==        \* the wizard after a switch: _apply_reload_client
    /\ step' = IF s = "reasoning" /\ Accepts(p) THEN "provider" ELSE s
    /\ provider' = p /\ model' = IF Accepts(p) THEN None ELSE model
Elsewhere == UNCHANGED <<wizard, login, waits, box, sent, times, unheard>>
ApplyProvider ==
    /\ At("provider") /\ provider \in valid /\ Connect(provider, model)
    /\ Connected("provider", provider) /\ Stays /\ UNCHANGED <<valid, finished>> /\ Elsewhere
PickEffort ==
    /\ At("reasoning") /\ provider # None
    /\ Connect(provider, IF cameFrom = "model" THEN model ELSE None)
    /\ Connected("reasoning", provider) /\ Stays /\ UNCHANGED <<valid, finished>> /\ Elsewhere
SubmitModel == At("paste") /\ pasting = "model" /\ provider # None
    /\ Shows("reasoning", provider, provider) /\ cameFrom' = "model" /\ pasting' = "token"
    /\ UNCHANGED busy /\ NoEffect
SubmitToken(resolves) ==
    /\ At("paste") /\ pasting = "token" /\ provider # None
    /\ IF resolves
       THEN /\ valid' = valid \cup {provider}
            /\ connection' = [provider |-> provider,
                              model |-> IF provider # connection.provider THEN provider ELSE connection.model]
            /\ Shows("result", provider, None)
       ELSE Shows("result", provider, model) /\ UNCHANGED <<valid, connection>>
    /\ Stays /\ UNCHANGED finished /\ Elsewhere

-----------------------------------------------------------------------------
(* The login: one thread at a time; a second one is refused while the      *)
(* first is alive, a cancelled one included.                               *)
StartLogin ==
    /\ At("provider") /\ times.login < MaxTries /\ times' = [times EXCEPT !.login = @ + 1]
    /\ Shows("waiting", provider, model) /\ busy' = TRUE /\ UNCHANGED <<cameFrom, pasting>>
    /\ IF login.of = None THEN login' = [of |-> provider, cancelled |-> FALSE] /\ unheard' = FALSE
       ELSE UNCHANGED login /\ unheard' = TRUE
    /\ UNCHANGED <<wizard, connection, valid, finished, waits, box, sent>>
CancelLogin ==
    /\ wizard /\ step = "waiting" /\ busy
    /\ Shows("provider", provider, model) /\ busy' = FALSE /\ UNCHANGED <<cameFrom, pasting>>
    /\ login' = [login EXCEPT !.cancelled = login.of # None] /\ unheard' = FALSE
    /\ UNCHANGED <<wizard, connection, valid, finished, waits, box, sent, times>>
ReportsSuccess(ok) == IF ok THEN Append(finished, [of |-> login.of, ok |-> ok]) ELSE finished
Reports(ok) == Append(finished, [of |-> login.of, ok |-> ok])
LoginEnds(ok) ==
    /\ login.of # None /\ login' = NoLogin
    /\ valid' = IF ok THEN valid \cup {login.of} ELSE valid
    /\ finished' = IF login.cancelled THEN finished ELSE Reports(ok)
    /\ UNCHANGED <<page, wizard, connection, waits, box, sent, times, unheard>>
(* The result goes to the page the wizard shows by then, and the switch to *)
(* the provider that page is about.                                        *)
OnLoginFinished ==
    /\ finished # <<>> /\ finished' = Tail(finished)
    /\ busy' = FALSE /\ step' = "result" /\ unheard' = FALSE /\ UNCHANGED <<provider, cameFrom, pasting>>
    /\ IF Head(finished).ok
       THEN Connect(provider, None)
            /\ model' = IF Accepts(IF provider = None THEN connection.provider ELSE provider) THEN None ELSE model
       ELSE UNCHANGED <<connection, model>>
    /\ UNCHANGED <<wizard, valid, login, waits, box, sent, times>>
Expire(p) ==
    /\ p \in valid /\ times.expire < MaxExpiries /\ times' = [times EXCEPT !.expire = @ + 1]
    /\ valid' = valid \ {p}
    /\ UNCHANGED <<page, wizard, connection, login, finished, waits, box, sent, unheard>>

-----------------------------------------------------------------------------
WizardOpens ==
    /\ step' = "home" /\ provider' = None /\ model' = None /\ cameFrom' = "model"
    /\ pasting' = "token" /\ busy' = FALSE /\ wizard' = TRUE /\ unheard' = FALSE
OpenWizard ==                       \* Ctrl+L, the login shortcut, the HUD
    ~wizard /\ WizardOpens /\ UNCHANGED <<connection, valid, login, finished, waits, box, sent, times>>

(* A prompt; without credentials it waits for the wizard and stays in the  *)
(* box.  It is sent when the wizard is closed with credentials.            *)
Type ==
    /\ box = 0 /\ times.enter < MaxEnters /\ times' = [times EXCEPT !.enter = @ + 1]
    /\ box' = times.enter + 1
    /\ UNCHANGED <<page, wizard, connection, valid, login, finished, waits, sent, unheard>>
AcceptPrompt ==
    /\ ~wizard /\ box # 0
    /\ \/ Ready /\ sent' = sent \cup {box} /\ box' = 0 /\ UNCHANGED <<page, wizard, waits, unheard>>
       \/ ~Ready /\ waits' = box /\ box' = box /\ WizardOpens /\ UNCHANGED sent
    /\ UNCHANGED <<connection, valid, login, finished, times>>
SendsAnyway == waits # 0
SendsIfReady == waits # 0 /\ Ready
CloseWizard ==                      \* Tab, the menu, or the corner
    /\ wizard /\ wizard' = FALSE /\ UNCHANGED page
    /\ IF SendsIfReady THEN sent' = sent \cup {waits} /\ waits' = 0 ELSE UNCHANGED <<sent, waits>>
    /\ UNCHANGED <<connection, valid, login, finished, box, times, unheard>>

LoginNext ==
    \/ \E p \in Providers : ChooseProvider(p) \/ Expire(p)
    \/ BackToHome \/ PickModel \/ PickReasoning \/ PickFromCatalog \/ PasteToken \/ PasteModel
    \/ ReasoningBack \/ ModelBack \/ Again \/ GoBack \/ ApplyProvider \/ PickEffort \/ SubmitModel
    \/ \E ok \in BOOLEAN : SubmitToken(ok) \/ LoginEnds(ok)
    \/ StartLogin \/ CancelLogin \/ OnLoginFinished \/ OpenWizard \/ Type \/ AcceptPrompt \/ CloseWizard

-----------------------------------------------------------------------------
(* The connection never asks a provider for another one's model, whatever  *)
(* way the menus were left and entered (login_wizard.py 363-367, 465-517).     *)
ModelFits == connection.model = connection.provider
(* Neither a switch nor a prompt goes to a provider without credentials.   *)
IsAuthorised ==
    /\ connection'.provider # connection.provider => connection'.provider \in valid'
    /\ sent' # sent => Ready
(* A wizard that says it waits for the browser has a login behind it, or   *)
(* its result on the way; except where the login was refused because a     *)
(* cancelled one had not ended (app.py 6813-6815).                         *)
WaitsForALogin ==
    step = "waiting" /\ busy => login.of # None \/ finished # <<>> \/ unheard
(* What was typed is in the box, kept for after the login, or sent.        *)
NoPromptIsLost == 1 .. times.enter \subseteq sent \cup {waits, box}
LoginIsSound == ModelFits' /\ IsAuthorised /\ WaitsForALogin' /\ NoPromptIsLost'
=============================================================================
