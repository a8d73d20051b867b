------------------------------ MODULE Routing ------------------------------
(***************************************************************************)
(* Where a message goes and what it looks like there: the settings that    *)
(* decide it (internal/config/config.go), and Resolve and Render           *)
(* (internal/outbound/outbound.go).                                        *)
(*                                                                         *)
(* A text is a sequence of lines [size, says].  Only the lines somebody    *)
(* must be able to rely on say something; all the others say "text".       *)
(***************************************************************************)
EXTENDS Addresses

CONSTANTS
    Lower,          \* the lower-case form of every word there is
    MaxLines,       \* MaxMessageLines
    MaxChars        \* MaxMessageChars

ASSUME RoutingAssumption == MaxLines \in Nat \ {0} /\ MaxChars \in Nat \ {0}

KnownRoutes == {"group", "peers"}

(* parseRouteRules: a rule is [label, value, routes], and an empty one of  *)
(* the three is what a missing separator leaves.                           *)
RulesOK(rules) ==
    \A i \in DOMAIN rules :
        /\ rules[i].label # "" /\ rules[i].value # ""
        /\ rules[i].routes # {} /\ rules[i].routes \subseteq KnownRoutes

(* MatchRoute: the first rule whose label the message carries with that    *)
(* value, in any case; as a set of one index or none.                      *)
Matching(rules, labels) ==
    LET matches == {i \in DOMAIN rules :
                        /\ rules[i].label \in DOMAIN labels
                        /\ Lower[labels[rules[i].label]] = Lower[rules[i].value]}
    IN  {i \in matches : \A j \in matches : i <= j}

(* The routes Resolve wants: the one asked for, what the rule says, or all. *)
WantedRoutes(rules, route, labels) ==
    IF route # "" THEN {route}
    ELSE IF Matching(rules, labels) = {} THEN KnownRoutes
    ELSE UNION {rules[i].routes : i \in Matching(rules, labels)}

Destination(kind, id, server) == [kind |-> kind, id |-> id, server |-> server]

ToPeer(entry) == Destination("peers", entry.id, entry.server)

(* The destinations of one message, the group before the peers.            *)
Destinations(s, groupID, wanted) ==
    (IF "group" \in wanted /\ groupID # <<>>
        THEN <<Destination("group", groupID, "")>> ELSE <<>>)
    \o (IF "peers" \in wanted THEN [i \in DOMAIN s.peers |-> ToPeer(s.peers[i])] ELSE <<>>)

(* Bug for the checks: a group's prefix counts as a destination.           *)
MutRefusal(s, groupID, route, labels) ==
    IF route \notin KnownRoutes \cup {""} THEN "unknown"
    ELSE IF Destinations(s, groupID, WantedRoutes(s.rules, route, labels)) = <<>> THEN "nowhere"
    ELSE "none"

(* Resolve's refusal, if any.  A group still known by a prefix refuses the *)
(* message for everybody.                                                  *)
Refusal(s, groupID, route, labels) ==
    LET wanted == WantedRoutes(s.rules, route, labels)
    IN  IF route \notin KnownRoutes \cup {""} THEN "unknown"
        ELSE IF "group" \in wanted /\ groupID # <<>> /\ ~Whole(groupID) THEN "unresolved"
        ELSE IF "peers" \in wanted /\ ~AccountsOK(s.peers) THEN "unreadable"
        ELSE IF Destinations(s, groupID, wanted) = <<>> THEN "nowhere"
        ELSE "none"

-----------------------------------------------------------------------------
(* Texts.                                                                  *)

Line(size, says) == [size |-> size, says |-> says]
Blank == Line(0, "")
Says(text, what) == \E i \in DOMAIN text : text[i].says = what

(* How many bytes the first n lines take, with the breaks between them.    *)
Chars(text, n) ==
    FoldLeft(LAMBDA sum, line : sum + line.size, 0, SubSeq(text, 1, n))
    + (IF n = 0 THEN 0 ELSE n - 1)

(* A block under another, after an empty line.                             *)
Under(above, below) ==
    IF above = <<>> THEN below
    ELSE IF below = <<>> THEN above
    ELSE above \o <<Blank>> \o below

CutShort == <<Line(1, "cut")>>

(* The first max bytes: the lines that fit and what there is room for of   *)
(* the next, which then says nothing one could rely on.                    *)
FirstBytes(text, max) ==
    LET fits == CHOOSE n \in 0..Len(text) :
                    /\ Chars(text, n) <= max
                    /\ n = Len(text) \/ Chars(text, n + 1) > max
        room == max - Chars(text, fits) - (IF fits = 0 THEN 0 ELSE 1)
    IN  SubSeq(text, 1, fits) \o (IF room > 0 THEN <<Line(room, "part")>> ELSE <<>>)

TrimToChatSize(text) ==
    LET lines == IF Len(text) > MaxLines THEN SubSeq(text, 1, MaxLines) ELSE text
    IN  IF Chars(lines, Len(lines)) > MaxChars THEN Under(FirstBytes(lines, MaxChars), CutShort)
        ELSE IF lines # text THEN Under(lines, CutShort)
        ELSE text

(* Render: the headline with the two labels it shows, the text, the other  *)
(* labels in a line, trimmed; and below that, if it is late, that it is.   *)
Render(m, late) ==
    LET headline == IF m.title = 0 /\ DOMAIN m.labels \cap {"severity", "source"} = {}
                      THEN <<>>
                      ELSE <<Line(m.title + Cardinality(DOMAIN m.labels
                                                        \cap {"severity", "source"}), "text")>>
        rest == DOMAIN m.labels \ {"severity", "source"}
        others == IF rest = {} THEN <<>> ELSE <<Line(Cardinality(rest), "labels")>>
    IN  Under(TrimToChatSize(Under(Under(headline, m.text), others)),
              IF late THEN <<Line(1, "late")>> ELSE <<>>)
=============================================================================
