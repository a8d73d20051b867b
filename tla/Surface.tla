------------------------------ MODULE Surface ------------------------------
(***************************************************************************)
(* The daemon between its settings and the chats: what start-up makes of   *)
(* the environment and the files it names, step by step (config.Load and   *)
(* runDaemon), where messages of the socket and of the webhook then go,    *)
(* and what becomes of a line somebody types to the bot (dispatch).        *)
(*                                                                         *)
(* One message or command is in hand at a time: none of this shares state  *)
(* with another but what start-up has settled.  Queueing and delivery are  *)
(* Admission's and Delivery's.                                             *)
(***************************************************************************)
EXTENDS Declared

CONSTANTS
    Setting,        \* the environments and files a start may find
    Directory,      \* the whole account ids of every host
    Message,        \* what a caller may send: [title, text, labels, route]
    Post,           \* what the webhook may be sent: that, with label pairs
                    \* for labels, and a token
    Typed,          \* what may be typed: [slash, words]
    Answer,         \* what a declared request may be answered
    Elsewhere       \* hosts a redirect may name

(* An entry as it is written: an id or the beginning of one, and a server.  *)
(* The groups the bot holds have whole ids, which the library gives them.   *)
Written == [id : Seq(Letter), server : DOMAIN HostOf]

(* What is said, line by line.                                             *)
Text == Seq([size : Nat, says : STRING])

ASSUME WrittenAssumption ==
    /\ \A v \in DOMAIN HostOf : Directory[HostOf[v]] \subseteq Seq(Letter)
    /\ \A m \in Message : DOMAIN m = {"title", "text", "labels", "route"}
    /\ \A s \in Setting :
          /\ s.peers \in Seq(Written) /\ s.commanders \in Seq(Written)
          /\ s.group \in Seq(Letter) /\ s.held \subseteq {g \in Seq(Letter) : Whole(g)}
          /\ s.rules \in Seq(ToSet(s.rules))
          /\ s.file \in Seq(ToSet(s.file)) /\ s.tokenFile \in Seq(ToSet(s.tokenFile))
          /\ \A f \in ToSet(s.tokenFile) : f \in Seq(ToSet(f))
          /\ \A a \in ToSet(s.file) : a.params \in Seq(ToSet(a.params))
    /\ \A t \in Typed : t.words \in Seq(ToSet(t.words))
    /\ \A m \in Message : m.title \in Nat /\ m.text \in Text /\ IsFiniteSet(DOMAIN m.labels)
    /\ \A p \in Post : p.title \in Nat /\ p.text \in Text /\ p.pairs \in Seq(ToSet(p.pairs))
    /\ \A a \in Answer : a.lines \in Text

(* The server refuses an id that begins like one it has, so the prefix of  *)
(* a setting is that of one account there.                                 *)
ASSUME SurfaceAssumption ==
    \A s \in Setting : \A i \in DOMAIN s.commanders :
        LET e == s.commanders[i]
        IN  \A a, b \in Directory[HostOf[e.server]] :
                IsPrefix(e.id, a) /\ IsPrefix(e.id, b) => a = b

VARIABLES
    setting,
    stage,          \* how far start-up has come
    commanders,     \* the allow-list: whole ids
    actions,        \* the registry
    groupID,        \* what resolveGroup has found
    job             \* what is in hand

vars == <<setting, stage, commanders, actions, groupID, job>>

Idle == [kind |-> "idle"]

Init ==
    /\ setting \in Setting
    /\ stage = "off" /\ commanders = {} /\ actions = {}
    /\ groupID = <<>> /\ job = Idle

-----------------------------------------------------------------------------
(* Start-up.                                                               *)

GoTo(s) == stage' = s

(* Load: everything that can be checked is checked before anything runs.   *)
LoadOK(s) ==
    /\ ~(s.inlineCode /\ s.codeFile)
    /\ \A n \in s.positive : n > 0
    /\ \A n \in s.natural : n >= 0
    /\ RulesOK(s.rules)
    /\ AccountsOK(s.commanders)
    /\ s.listens = (s.tokenFile # <<>>)
    /\ GroupOK(s.group)
    /\ AccountsOK(s.peers)

RoutesConfigured(s) == s.group # <<>> \/ s.peers # <<>>

Load ==
    /\ stage = "off"
    /\ GoTo(IF setting.server /\ LoadOK(setting) /\ RoutesConfigured(setting)
              THEN "loaded" ELSE "refused")
    /\ UNCHANGED <<setting, commanders, actions, groupID, job>>

(* Bug for the checks: a short id is completed by the bot's own server.    *)
MutMeantBy(entry) ==
    IF Whole(entry.id) THEN {entry.id}
    ELSE {a \in Directory[HostOf[""]] : IsPrefix(entry.id, a)}

(* What an entry of the allow-list names: itself, or what its server       *)
(* completes it to.                                                        *)
MeantBy(entry) ==
    IF Whole(entry.id) THEN {entry.id}
    ELSE {a \in Directory[HostOf[entry.server]] : IsPrefix(entry.id, a)}

(* resolveCommanders; a lookup may fail, and one that does ends start-up.  *)
ResolveCommanders ==
    /\ stage = "loaded"
    /\ LET list == ToSet(setting.commanders)
       IN  \/ /\ \A e \in list : MeantBy(e) # {}
              /\ commanders' = UNION {MeantBy(e) : e \in list}
              /\ GoTo("known")
           \/ /\ \E e \in list : ~Whole(e.id)
              /\ GoTo("refused") /\ UNCHANGED commanders
    /\ UNCHANGED <<setting, actions, groupID, job>>

(* The registry, where there is anybody to use it.                         *)
BuildSurface ==
    /\ stage = "known"
    /\ IF commanders = {} THEN GoTo("built") /\ UNCHANGED actions
       ELSE IF ~setting.jokes \/ ~FileOK(setting.file) \/ Clashes(setting.file)
         THEN GoTo("refused") /\ UNCHANGED actions
       ELSE /\ actions' = Builtins \cup {AsAction(a) : a \in ToSet(setting.file)}
            /\ GoTo("built")
    /\ UNCHANGED <<setting, commanders, groupID, job>>

(* LoadTokens: a name and a token each, neither of them twice.             *)
TokensOK(tokens) ==
    /\ tokens # <<>>
    /\ \A i \in DOMAIN tokens : tokens[i].name # "" /\ tokens[i].long
    /\ \A i, j \in DOMAIN tokens : i < j =>
           tokens[i].name # tokens[j].name /\ tokens[i].token # tokens[j].token

(* serveWebhook, whose port may be taken, and the control socket.          *)
Serve ==
    /\ stage = "built"
    /\ \/ (setting.listens => TokensOK(setting.tokenFile[1])) /\ GoTo("serving")
       \/ setting.listens /\ GoTo("refused")
    /\ UNCHANGED <<setting, commanders, actions, groupID, job>>

(* resolveGroup: requests are served already.  Where the groups cannot be  *)
(* listed, or none fits, the setting stays as it is.                       *)
ResolveGroup ==
    /\ stage = "serving"
    /\ LET fits == {g \in setting.held : IsPrefix(setting.group, g)}
       IN  IF setting.group = <<>> \/ fits = {} THEN GoTo("up") /\ UNCHANGED groupID
           ELSE IF \E g \in fits : fits = {g}
             THEN GoTo("up") /\ groupID' = CHOOSE g \in fits : TRUE
             ELSE GoTo("refused") /\ UNCHANGED groupID
    /\ UNCHANGED <<setting, commanders, actions, job>>

GroupsUnlisted ==
    /\ stage = "serving"
    /\ GoTo("up")
    /\ UNCHANGED <<setting, commanders, actions, groupID, job>>

StartUp == Load \/ ResolveCommanders \/ BuildSurface \/ Serve \/ ResolveGroup \/ GroupsUnlisted

ConfiguredGroup == IF groupID # <<>> THEN groupID ELSE setting.group

-----------------------------------------------------------------------------
(* A message.                                                              *)

(* accept: resolved for everybody it is meant for, or refused.             *)
Accepted(m, note) ==
    LET why == Refusal(setting, ConfiguredGroup, m.route, m.labels)
        wanted == WantedRoutes(setting.rules, m.route, m.labels)
    IN  [kind |-> "message", step |-> IF why = "none" THEN "queued" ELSE "refused",
         message |-> IF note THEN [m EXCEPT !.text = @ \o <<Line(1, "note")>>] ELSE m,
         to |-> IF why = "none" THEN Destinations(setting, ConfiguredGroup, wanted) ELSE <<>>,
         known |-> ConfiguredGroup, text |-> <<>>, late |-> FALSE]

(* Over the socket.  accept may append a note on what was suppressed.      *)
Send(m) ==
    /\ stage \in {"serving", "up"} /\ job = Idle
    /\ m.title > 0 \/ m.text # <<>>
    /\ \E note \in BOOLEAN : job' = Accepted(m, note)
    /\ UNCHANGED <<setting, stage, commanders, actions, groupID>>

(* labelsFrom: no label comes twice, or without a value.                   *)
LabelsOK(pairs) ==
    /\ \A i \in DOMAIN pairs : pairs[i].key # "" /\ pairs[i].value # ""
    /\ \A i, j \in DOMAIN pairs : i < j => pairs[i].key # pairs[j].key

LabelsFrom(pairs) ==
    [k \in {pairs[i].key : i \in DOMAIN pairs} |->
        (CHOOSE p \in ToSet(pairs) : p.key = k).value]

Senders(token) == {t \in ToSet(setting.tokenFile[1]) : t.token = token}

(* ServeHTTP, for a request that gets as far as the daemon.                *)
Hook(p) ==
    /\ stage \in {"serving", "up"} /\ job = Idle
    /\ setting.listens /\ Senders(p.token) # {}
    /\ p.title > 0 \/ p.text # <<>>
    /\ LabelsOK(p.pairs)
    /\ LET m == [title |-> p.title, text |-> p.text, labels |-> LabelsFrom(p.pairs), route |-> p.route]
       IN  \E note \in BOOLEAN : job' = Accepted(m, note)
    /\ UNCHANGED <<setting, stage, commanders, actions, groupID>>

(* attempt: rendered when it goes, which may be late.                      *)
Deliver ==
    /\ job.kind = "message" /\ job.step = "queued"
    /\ \E late \in BOOLEAN :
        job' = [job EXCEPT !.step = "delivered", !.late = late,
                           !.text = Render(job.message, late)]
    /\ UNCHANGED <<setting, stage, commanders, actions, groupID>>

-----------------------------------------------------------------------------
(* A command.                                                              *)

Command(sender, inGroup, typed) ==
    [kind |-> "command", sender |-> sender, inGroup |-> inGroup, typed |-> typed,
     step |-> "typed", given |-> NoParams, hops |-> <<>>, answer |-> <<>>, text |-> <<>>]

(* dispatch: whoever may not command is not answered, and not read.  What  *)
(* is read may mean nothing, or an action there is not.                    *)
Receive(sender, inGroup, typed) ==
    /\ stage = "up" /\ job = Idle
    /\ MayCommand(commanders, setting.allowGroup, sender, inGroup)
    /\ Meant(typed, inGroup)
    /\ LET c == Command(sender, inGroup, typed)
       IN  job' = IF Named(actions, NameOf(typed)) = {}
                    THEN [c EXCEPT !.step = "said", !.text = <<Line(1, "unknown")>>]
                    ELSE c
    /\ UNCHANGED <<setting, stage, commanders, actions, groupID>>

Reply(step, text) == job' = [job EXCEPT !.step = step, !.text = text]

Failed == Reply("failed", <<Line(1, "failed")>>)

TheAction == CHOOSE a \in actions : a.name = NameOf(job.typed)

(* Execute, and the handler up to where it answers or asks.                *)
Execute ==
    /\ job.kind = "command" /\ job.step = "typed"
    /\ LET a == TheAction
           given == Arguments(a.params, Tail(job.typed.words))
           kept == Kept(a.params, given)
       IN  IF ~Acceptable(a.params, given) THEN Failed
           ELSE CASE a.does.kind = "builtin" ->
                       job' = [job EXCEPT !.step = "said", !.given = kept,
                                          !.text = <<Line(1, "text")>>]
                  [] a.does.kind = "reply" ->
                       job' = [job EXCEPT !.step = "said", !.given = kept,
                                 !.text = <<Line(Len(Fill(a.does.reply, kept, FALSE)), "text")>>]
                  [] a.does.kind = "request" ->
                       LET url == BuildURL(a.does.request, kept)
                       IN  IF url.ok
                             THEN job' = [job EXCEPT !.step = "asking", !.given = kept,
                                            !.hops = <<[scheme |-> url.scheme, host |-> url.host]>>]
                             ELSE Failed
    /\ UNCHANGED <<setting, stage, commanders, actions, groupID>>

Asking == job.kind = "command" /\ job.step = "asking"

(* The answer is to ask somewhere else.                                    *)
Redirected ==
    /\ Asking
    /\ \E host \in Elsewhere \cup {job.hops[1].host}, scheme \in {"http", "https"} :
        IF MayFollow(job.hops, host)
          THEN job' = [job EXCEPT !.hops = Append(@, [scheme |-> scheme, host |-> host])]
          ELSE Failed
    /\ UNCHANGED <<setting, stage, commanders, actions, groupID>>

Answered(answer) ==
    /\ Asking
    /\ IF Failure(answer, TheAction.does.request.field) THEN Failed
       ELSE job' = [job EXCEPT !.step = "said", !.answer = <<answer>>, !.text = Frame(Body(answer))]
    /\ UNCHANGED <<setting, stage, commanders, actions, groupID>>

(* No token to send, nobody there, or the time is up.                      *)
Unanswered ==
    /\ Asking /\ Failed
    /\ UNCHANGED <<setting, stage, commanders, actions, groupID>>

-----------------------------------------------------------------------------
Over == job # Idle /\ job.step \in {"refused", "delivered", "said", "failed"}

Done ==
    /\ Over /\ job' = Idle
    /\ UNCHANGED <<setting, stage, commanders, actions, groupID>>

Account == UNION {Directory[h] : h \in DOMAIN Directory}

Next ==
    \/ StartUp
    \/ \E m \in Message : Send(m)
    \/ \E p \in Post : Hook(p)
    \/ Deliver
    \/ \E a \in Account, inGroup \in BOOLEAN, t \in Typed : Receive(a, inGroup, t)
    \/ Execute \/ Redirected \/ Unanswered
    \/ \E answer \in Answer : Answered(answer)
    \/ Done

Spec == Init /\ [][Next]_vars

-----------------------------------------------------------------------------
(* Properties.                                                             *)

(* Who is reached under the address of an entry or a destination.          *)
Reached(d) == {HostOf[d.server]} \X {a \in Directory[HostOf[d.server]] : IsPrefix(d.id, a)}

(* No message reaches anybody under two entries: of two spellings of one   *)
(* account, short and whole, with one scheme or the other, start-up refuses*)
(* the list (ParsePeers).  One pair it lets through, because SameServer    *)
(* does not know it: an entry with the bot's own server written out beside *)
(* one without a server part.                                              *)
NobodyTwice ==
    job.kind = "message" =>
        \A i, j \in DOMAIN job.to :
            (/\ i < j /\ job.to[i].kind = "peers" /\ job.to[j].kind = "peers"
             /\ Reached(job.to[i]) \cap Reached(job.to[j]) # {}) =>
                /\ (job.to[i].server = "") # (job.to[j].server = "")
                /\ HostOf[job.to[i].server] = HostOf[""]

FitsRule(rule, labels) ==
    rule.label \in DOMAIN labels /\ Lower[labels[rule.label]] = Lower[rule.value]

(* The documented precedence: the route asked for, else the first rule     *)
(* that fits, else every route there is.                                   *)
IsFor(m, kind) ==
    IF m.route # "" THEN kind = m.route
    ELSE \A i \in DOMAIN setting.rules :
            (/\ FitsRule(setting.rules[i], m.labels)
             /\ \A j \in 1..(i - 1) : ~FitsRule(setting.rules[j], m.labels))
            => kind \in setting.rules[i].routes

ForGroup(m) == IsFor(m, "group") /\ setting.group # <<>>
ForPeers(m) == IsFor(m, "peers") /\ setting.peers # <<>>

(* A message is taken for everybody it is meant for, the group by its whole *)
(* id, or it is refused: also while start-up has not resolved the group     *)
(* yet, and whatever rules are configured (Resolve).                        *)
ReachesWhoIsMeant ==
    job.kind = "message" =>
        LET m == job.message
        IN  IF job.step = "refused"
              THEN \/ ForGroup(m) /\ ~Whole(job.known)
                   \/ ~ForGroup(m) /\ ~ForPeers(m)
              ELSE /\ \A d \in ToSet(job.to) : d.kind = "group" =>
                          ForGroup(m) /\ Whole(d.id) /\ IsPrefix(setting.group, d.id)
                   /\ ForGroup(m) => \E d \in ToSet(job.to) : d.kind = "group"
                   /\ {Reached(d) : d \in {d \in ToSet(job.to) : d.kind = "peers"}}
                        = IF ForPeers(m) THEN {Reached(e) : e \in ToSet(setting.peers)} ELSE {}

(* A command is taken from an account that an entry of the allow-list means *)
(* on the server that entry names, and from a group only where groups may:  *)
(* a short entry never lets in everybody whose id begins like it            *)
(* (ParseCommanders, resolveCommanders, MayCommand).                        *)
OnlyCommandersAct ==
    job.kind = "command" =>
        /\ job.inGroup => setting.allowGroup
        /\ \E e \in ToSet(setting.commanders) :
              IF Whole(e.id) THEN job.sender = e.id
              ELSE <<HostOf[e.server], job.sender>> \in Reached(e)

Declaration == {a \in ToSet(setting.file) : a.name = NameOf(job.typed)}

(* What a declared action is given is what was typed, word for word and in  *)
(* order, cut up as the file says: what it requires is there, and a value   *)
(* with a pattern matches it from end to end (Interpret, Execute, validate). *)
(* Of a pattern that begins and ends with an anchor it is only said that it  *)
(* is found in the value: for ^a|b$ that is all the code looks for.          *)
HandlerSeesWhatWasTyped ==
    job.kind = "command" /\ job.step \in {"asking", "said"} =>
        \A a \in Declaration :
            LET value(i) == IF a.params[i].name \in DOMAIN job.given
                            THEN job.given[a.params[i].name] ELSE <<>>
            IN  /\ DOMAIN job.given \subseteq {a.params[i].name : i \in DOMAIN a.params}
                /\ a.params # <<>> =>
                      FlattenSeq([i \in DOMAIN a.params |-> value(i)]) = Tail(job.typed.words)
                /\ \A i \in DOMAIN a.params :
                      /\ a.params[i].required => value(i) # <<>>
                      /\ value(i) # <<>> /\ a.params[i].pattern # <<>> =>
                            LET p == a.params[i].pattern[1]
                            IN  value(i) \in p.whole \/ (p.caret /\ p.dollar /\ value(i) \in p.found)

(* Whatever is typed and wherever answers point, a declared request stays  *)
(* with the host its declaration names, first at its scheme, and asks      *)
(* three times at the most (buildURL, CheckRedirect).                      *)
StaysAtHost ==
    job.kind = "command" /\ job.hops # <<>> =>
        \A a \in Declaration :
            /\ Len(job.hops) <= 3
            /\ job.hops[1].scheme = a.request[1].url.scheme
            /\ \A i \in DOMAIN job.hops : job.hops[i].host = HostNamed(a.request[1])

Size(text) == Chars(text, Len(text))

(* What reaches a chat says so where something is missing: a text that it   *)
(* was cut, a list how many entries more there are, where its lines leave   *)
(* room for that; and a late message always that it is late                 *)
(* (TrimToChatSize, Render, renderValue).                                   *)
CutIsSaid ==
    /\ job.kind = "message" /\ job.step = "delivered" =>
          /\ job.late => Says(job.text, "late")
          /\ Says(job.text, "cut") \/ Size(job.text) >= Size(job.message.text)
    /\ job.kind = "command" /\ job.answer # <<>> =>
          LET all == job.answer[1].lines
              listed == job.answer[1].media = "json" /\ job.answer[1].list
          IN  /\ Says(job.text, "cut") \/ Says(job.text, "more") \/ Size(job.text) >= Size(all)
              /\ (listed /\ Len(all) > ListCap /\ Chars(all, ListCap) + 2 <= MaxChars) =>
                    Says(job.text, "more")

=============================================================================
