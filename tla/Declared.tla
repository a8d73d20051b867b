------------------------------ MODULE Declared ------------------------------
(***************************************************************************)
(* Actions an operator declares in a file (internal/declared): what of a   *)
(* file is taken, the request an action makes, and what its answer becomes *)
(* in the chat.                                                            *)
(*                                                                         *)
(* A template is a sequence of literal words and holes, [is, word].  A URL *)
(* is [scheme, rest], its host what precedes the first "/" of the rest.    *)
(* A pattern is [caret, dollar, found, whole]: how it begins and ends, the *)
(* values it is found in and the values it matches as a whole.             *)
(***************************************************************************)
EXTENDS Commands

CONSTANTS
    Escaped,        \* QueryEscape, of every word there is
    MaxTimeout      \* in seconds

ASSUME DeclaredAssumption == MaxTimeout \in Nat \ {0}

MaxHops == 3
ListCap == MaxLines - 1

Fixed(w) == [is |-> "word", word |-> w]
Hole(p) == [is |-> "hole", word |-> p]

(* fill: a hole becomes the value of its parameter, escaped or not.        *)
Fill(template, params, escape) ==
    LET Part(t) == IF t.is = "word" THEN <<t.word>>
                   ELSE IF t.word \notin DOMAIN params THEN <<>>
                   ELSE IF escape
                     THEN [i \in DOMAIN params[t.word] |-> Escaped[params[t.word][i]]]
                   ELSE params[t.word]
    IN  FlattenSeq([i \in DOMAIN template |-> Part(template[i])])

Host(rest) ==
    SelectSeq([i \in DOMAIN rest |->
                  IF \E j \in 1..i : rest[j] = "/" THEN "/" ELSE rest[i]],
              LAMBDA w : w # "/")

(* The host the declaration names: with every hole emptied.                *)
HostNamed(request) == Host(Fill(request.url.rest, NoParams, TRUE))

-----------------------------------------------------------------------------
(* Load.                                                                   *)

Templates(a) ==
    IF a.request = <<>> THEN {a.reply}
    ELSE {a.request[1].url.rest, a.request[1].body} \cup a.request[1].headers

(* What a request is sent with, once its case is settled.                  *)
Methods == {"GET", "POST", "PUT", "PATCH", "DELETE", "HEAD"}

HolesIn(template) == {h.word : h \in {t \in ToSet(template) : t.is = "hole"}}

RequestOK(r) ==
    /\ r.method \in Methods
    /\ r.url.scheme \in {"http", "https"}
    /\ HostNamed(r) # <<>>
    /\ 0 <= r.timeout /\ r.timeout <= MaxTimeout

ActionOK(a) ==
    /\ a.name # "" /\ a.summary
    /\ (a.reply = <<>>) # (a.request = <<>>)
    /\ \A i, j \in DOMAIN a.params : i < j => a.params[i].name # a.params[j].name
    /\ \A t \in Templates(a) : HolesIn(t) \subseteq {a.params[i].name : i \in DOMAIN a.params}
    /\ a.request = <<>> \/ RequestOK(a.request[1])

(* One declaration that cannot be used refuses the file.                   *)
FileOK(file) ==
    /\ \A i \in DOMAIN file : ActionOK(file[i])
    /\ \A i, j \in DOMAIN file : i < j => file[i].name # file[j].name

(* Bug for the checks: a pattern is searched for in the value.             *)
MutAccepts(pattern) == IF pattern = <<>> THEN <<>> ELSE <<pattern[1].found>>

(* validator: a pattern is anchored by Load, except one that begins and    *)
(* ends with an anchor as it is written.  That is not always an anchor of  *)
(* the whole pattern (^a|b$), so it may be found in more than it matches.  *)
Accepts(pattern) ==
    IF pattern = <<>> THEN <<>>
    ELSE IF pattern[1].caret /\ pattern[1].dollar THEN <<pattern[1].found>>
    ELSE <<pattern[1].whole>>

(* spec and handler.                                                       *)
AsAction(a) ==
    [name |-> a.name,
     params |-> [i \in DOMAIN a.params |->
                    [name |-> a.params[i].name, required |-> a.params[i].required,
                     accepts |-> Accepts(a.params[i].pattern)]],
     does |-> IF a.request = <<>> THEN [kind |-> "reply", reply |-> a.reply]
              ELSE [kind |-> "request", request |-> a.request[1]]]

(* The names that are taken when the i-th declaration is registered.       *)
Taken(file, i) == {a.name : a \in Builtins} \cup {file[j].name : j \in 1..(i - 1)}

(* Register: a name that is taken is an error.  The registry would panic   *)
(* over one; its check looks at the same names and is left out.            *)
Clashes(file) == \E i \in DOMAIN file : file[i].name \in Taken(file, i)

-----------------------------------------------------------------------------
(* Do.                                                                     *)

(* Bug for the checks: the URL is filled in as it is typed, and not looked *)
(* at again.                                                               *)
MutBuildURL(request, params) ==
    LET rest == Fill(request.url.rest, params, FALSE)
    IN  [ok |-> TRUE, scheme |-> request.url.scheme, host |-> Host(rest)]

(* buildURL: escaped, and still at the scheme and the host declared.       *)
BuildURL(request, params) ==
    LET host == Host(Fill(request.url.rest, params, TRUE))
    IN  [ok |-> host = HostNamed(request), scheme |-> request.url.scheme, host |-> host]

(* CheckRedirect: a third one is too many, and none leaves the host.       *)
MayFollow(hops, host) == Len(hops) < MaxHops /\ host = hops[1].host

-----------------------------------------------------------------------------
(* render and frame.  An answer is [status, media, field, value, size]:    *)
(* whether it is a success and of a size that is read, what it calls       *)
(* itself, what a declared field leads to, and its lines.                  *)

(* Bug for the checks: a list is cut where a text is cut.                  *)
MutEntries(items) ==
    IF Len(items) > ListCap + 1
    THEN SubSeq(items, 1, ListCap + 1) \o <<Line(1, "more")>> ELSE items

(* renderValue and pairs: one line an entry, the number of those left out  *)
(* within the limit on lines.                                              *)
Entries(items) ==
    IF items = <<>> THEN <<Line(1, "text")>>
    ELSE IF Len(items) > ListCap THEN SubSeq(items, 1, ListCap) \o <<Line(1, "more")>>
    ELSE items

(* What becomes of an answer: a failure, or what is said.                  *)
Failure(answer, field) ==
    \/ ~answer.success \/ answer.oversize
    \/ answer.media \notin {"json", "text", "none"}
    \/ field /\ (answer.media # "json" \/ ~answer.found)
    \/ answer.media = "json" /\ ~answer.valid

Body(answer) ==
    TrimToChatSize(IF answer.media = "json" /\ answer.list THEN Entries(answer.lines) ELSE answer.lines)

(* frame: the action's name, before the answer or above it.                *)
Frame(text) ==
    CASE text = <<>> -> <<Line(1, "name")>>
      [] Len(text) = 1 -> <<Line(text[1].size + 1, IF text[1].says = "text" THEN "name" ELSE text[1].says)>>
      [] OTHER -> Under(<<Line(1, "name")>>, text)
=============================================================================
