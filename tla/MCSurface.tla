----------------------------- MODULE MCSurface -----------------------------
(* Instances of Surface for TLC: two servers with an account each that     *)
(* begins alike, two groups that begin alike, and a start with any one     *)
(* thing about the settings varied, or several where they meet.            *)
EXTENDS Surface

MCHostOf == ("" :> "own") @@ ("own" :> "own") @@ ("far" :> "far") @@ ("httpfar" :> "far")
MCDirectory == ("own" :> {<<"a", "x", "x">>, <<"a", "y", "y">>}) @@ ("far" :> {<<"a", "x", "y">>})
MCLower == [w \in {"crit", "CRIT", "digest", "status", "Check", "check", "say", "nope"} |->
              CASE w = "CRIT" -> "crit" [] w = "Check" -> "check" [] OTHER -> w]
MCEscaped == [w \in {"web", "db", "/"} |-> IF w = "/" THEN "%2F" ELSE w]

Entry(id, server) == [id |-> id, server |-> server]
Ann == Entry(<<"a", "x", "x">>, "")
AnnShort == Entry(<<"a", "x">>, "")
FarShort == Entry(<<"a", "x">>, "far")
FarWhole == Entry(<<"a", "x", "y">>, "httpfar")
AnnWritten == Entry(<<"a", "x", "x">>, "own")
BobShort == Entry(<<"a", "y">>, "")
GroupEntry == Entry(<<"g", "x">>, "")
Unreadable == Entry(<<>>, "")

Rule(l, v, r) == [label |-> l, value |-> v, routes |-> r]
CritToGroup == Rule("severity", "crit", {"group"})
CritToPeers == Rule("severity", "CRIT", {"peers"})
DigestToPeers == Rule("kind", "digest", {"peers"})

Param(name, required, pattern) == [name |-> name, required |-> required, pattern |-> pattern]
OneWord == [caret |-> TRUE, dollar |-> FALSE,
            found |-> {<<"web">>, <<"db">>, <<"web", "db">>, <<"web", "/">>},
            whole |-> {<<"web">>, <<"db">>}]
Anchored == [caret |-> TRUE, dollar |-> TRUE, found |-> {<<"web">>}, whole |-> {<<"web">>}]
(* ^db|web$ *)
Either == [caret |-> TRUE, dollar |-> TRUE,
           found |-> {<<"web">>, <<"db">>, <<"db", "/">>, <<"/", "web">>},
           whole |-> {<<"web">>, <<"db">>}]

Ask(rest) == [url |-> [scheme |-> "https", rest |-> rest], body |-> <<>>, headers |-> {<<Hole("target")>>}, method |-> "GET",
              field |-> FALSE, timeout |-> 0]
Declare(name, params, reply, request) ==
    [name |-> name, summary |-> TRUE, params |-> params, reply |-> reply, request |-> request]

Saying == Declare("say", <<Param("who", TRUE, <<Anchored>>), Param("what", FALSE, <<Either>>)>>,
                  <<Hole("who"), Fixed("hears"), Hole("what")>>, <<>>)
CheckPath == Declare("check", <<Param("target", TRUE, <<OneWord>>)>>, <<>>,
                     <<Ask(<<Fixed("host"), Fixed("/"), Hole("target")>>)>>)
CheckHost == Declare("check", <<Param("target", FALSE, <<>>)>>, <<>>,
                     <<[Ask(<<Fixed("host"), Hole("target"), Fixed("/")>>) EXCEPT !.field = TRUE]>>)
Unknown == Declare("say", <<>>, <<Hole("who")>>, <<>>)
TooLong == [CheckPath EXCEPT !.request = <<[@[1] EXCEPT !.timeout = 3]>>]
PingAgain == Declare("ping", <<>>, <<Fixed("host")>>, <<>>)

Sender(name, token) == [name |-> name, token |-> token, long |-> TRUE]

Base == [server |-> TRUE, inlineCode |-> FALSE, codeFile |-> FALSE,
         positive |-> {1}, natural |-> {0}, jokes |-> TRUE,
         listens |-> FALSE, tokenFile |-> <<>>,
         group |-> <<>>, peers |-> <<Ann>>, rules |-> <<>>, held |-> {},
         commanders |-> <<>>, allowGroup |-> FALSE, file |-> <<>>]

MCElsewhere == {<<"elsewhere">>}

RoutingSettings ==
    {[Base EXCEPT !.group = g, !.peers = p, !.rules = r, !.held = h] :
        g \in {<<>>, <<"g", "x", "x">>, <<"g", "x">>, <<"a", "x">>},
        p \in {<<>>, <<Ann>>, <<Ann, BobShort>>, <<AnnShort, FarShort>>, <<Ann, AnnShort>>, <<AnnWritten, AnnShort>>,
               <<FarWhole, BobShort, FarShort>>, <<GroupEntry>>, <<Ann, Unreadable>>},
        r \in {<<>>, <<CritToGroup>>, <<CritToPeers, CritToGroup>>, <<DigestToPeers, CritToGroup>>,
               <<Rule("severity", "", {"group"})>>, <<Rule("severity", "crit", {"pager"})>>},
        h \in SUBSET {<<"g", "x", "x">>, <<"g", "x", "y">>}}

CommandSettings ==
    {[Base EXCEPT !.commanders = c, !.allowGroup = g, !.file = f] :
        c \in {<<Ann>>, <<FarShort>>, <<AnnShort, BobShort>>, <<Entry(<<"a", "z">>, "")>>, <<Ann, AnnShort>>,
              <<AnnWritten, FarWhole>>},
        g \in BOOLEAN,
        f \in {<<>>, <<Saying, CheckPath>>, <<CheckHost>>, <<Unknown>>, <<TooLong>>,
               <<PingAgain>>, <<Saying, Saying>>}}

OtherSettings ==
    {[Base EXCEPT !.server = FALSE], [Base EXCEPT !.inlineCode = TRUE, !.codeFile = TRUE],
     [Base EXCEPT !.positive = {0, 1}], [Base EXCEPT !.natural = {-1}],
     [Base EXCEPT !.jokes = FALSE, !.commanders = <<Ann>>],
     [Base EXCEPT !.listens = TRUE], [Base EXCEPT !.tokenFile = <<<<Sender("ci", "t1")>>>>]}
    \cup {[Base EXCEPT !.listens = TRUE, !.tokenFile = <<f>>, !.rules = <<CritToPeers>>] :
            f \in {<<>>, <<Sender("ci", "t1")>>, <<Sender("ci", "t1"), Sender("cron", "t2")>>,
                   <<Sender("ci", "t1"), Sender("ci", "t2")>>,
                   <<Sender("ci", "t1"), Sender("cron", "t1")>>}}

MCSetting == RoutingSettings \cup CommandSettings \cup OtherSettings

Lines(n) == [i \in 1..n |-> Line(1, "text")]
NoLabels == [l \in {} |-> ""]
Ordinary(route, labels) == [title |-> 1, text |-> <<>>, labels |-> labels, route |-> route]

MCMessage ==
    {Ordinary(r, l) : r \in {"", "group", "peers", "pager"},
                      l \in {NoLabels, ("severity" :> "CRIT"),
                             ("severity" :> "crit") @@ ("kind" :> "digest")}}
    \cup {[Ordinary("peers", NoLabels) EXCEPT !.text = t, !.title = n] :
            t \in {Lines(4), Lines(6), <<Line(12, "text")>>}, n \in {0, 2}}

MCPost ==
    {[title |-> 1, text |-> <<>>, route |-> "", token |-> t, pairs |-> p] :
        t \in {"t1", "t2", "t3"},
        p \in {<<>>, <<[key |-> "severity", value |-> "crit"]>>,
               <<[key |-> "kind", value |-> "digest"], [key |-> "kind", value |-> "crit"]>>}}

MCTyped ==
    {[slash |-> s, words |-> <<name>> \o args] :
        s \in BOOLEAN, name \in {"status", "Check", "say", "nope"},
        args \in {<<>>} \cup {<<w>> : w \in {"web", "/"}}
                 \cup {<<w, v>> : w, v \in {"web", "/"}} \cup {<<"web", "db", "/">>}}
    \cup {[slash |-> TRUE, words |-> <<>>]}

Plain == [success |-> TRUE, oversize |-> FALSE, media |-> "text", valid |-> TRUE,
          found |-> TRUE, list |-> FALSE, lines |-> Lines(1)]
MCAnswer ==
    {Plain, [Plain EXCEPT !.success = FALSE], [Plain EXCEPT !.oversize = TRUE],
     [Plain EXCEPT !.media = "html"], [Plain EXCEPT !.lines = <<>>, !.media = "none"],
     [Plain EXCEPT !.lines = Lines(6)], [Plain EXCEPT !.lines = <<Line(12, "text")>>]}
    \cup {[Plain EXCEPT !.media = "json", !.list = l, !.lines = t, !.valid = v, !.found = f] :
            l, v, f \in BOOLEAN,
            t \in {<<>>, Lines(3), Lines(4), Lines(5), <<Line(12, "text"), Line(1, "text")>>}}
=============================================================================
