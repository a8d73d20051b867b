---------------------------- MODULE SurfaceProofs ----------------------------
(* That nobody is written to under two spellings, that only those who may  *)
(* command do, that a declared request stays with its host and its handler *)
(* sees what was typed, that a message is taken for everybody it is meant  *)
(* for, and that what is cut says so: for any settings, messages, typed    *)
(* lines and answers.                                                      *)
EXTENDS Surface, SequenceTheorems, FiniteSetTheorems, WellFoundedInduction, TLAPS

-----------------------------------------------------------------------------
(* Addresses.                                                              *)

LEMMA PrefixIs ==
  ASSUME NEW s \in Seq(Letter), NEW t \in Seq(Letter)
  PROVE  IsPrefix(s, t) <=> Len(s) <= Len(t) /\ \A i \in 1..Len(s) : s[i] = t[i]
<1>1. ASSUME Len(s) <= Len(t)
      PROVE  /\ SubSeq(s, 1, Len(s)) = [i \in 1..Len(s) |-> s[i]]
             /\ SubSeq(t, 1, Len(s)) = [i \in 1..Len(s) |-> t[i]]
  BY <1>1
<1> QED
  BY <1>1 DEF IsPrefix

(* Two beginnings of one id: one of them begins the other.                 *)
LEMMA Comparable ==
  ASSUME NEW s \in Seq(Letter), NEW t \in Seq(Letter), NEW a \in Seq(Letter),
         IsPrefix(s, a), IsPrefix(t, a)
  PROVE  IsPrefix(s, t) \/ IsPrefix(t, s)
<1>1. /\ Len(s) <= Len(a) /\ \A i \in 1..Len(s) : s[i] = a[i]
      /\ Len(t) <= Len(a) /\ \A i \in 1..Len(t) : t[i] = a[i]
  BY PrefixIs
<1>2. CASE Len(s) <= Len(t)
  BY <1>1, <1>2, PrefixIs
<1>3. CASE Len(t) <= Len(s)
  BY <1>1, <1>3, PrefixIs
<1> QED
  BY <1>2, <1>3

(* One of the two names the bot's own server and the other names none: the *)
(* pair that SameServer takes for two.                                     *)
OwnAndNone(d, f) ==
    (d.server = "") # (f.server = "") /\ HostOf[d.server] = HostOf[""]

LEMMA Apart ==
  ASSUME NEW e \in Written, NEW f \in Written, ~SameRecipient(e, f),
         Reached(ToPeer(e)) \cap Reached(ToPeer(f)) # {}
  PROVE  OwnAndNone(ToPeer(e), ToPeer(f)) /\ HostOf[f.server] = HostOf[""]
<1>0. PICK x : x \in Reached(ToPeer(e)) /\ x \in Reached(ToPeer(f))
  OBVIOUS
<1>1. /\ e.id \in Seq(Letter) /\ e.server \in DOMAIN HostOf
      /\ f.id \in Seq(Letter) /\ f.server \in DOMAIN HostOf
  BY DEF Written
<1>2. /\ x[1] = HostOf[e.server] /\ x[2] \in Directory[HostOf[e.server]] /\ IsPrefix(e.id, x[2])
      /\ x[1] = HostOf[f.server] /\ x[2] \in Directory[HostOf[f.server]] /\ IsPrefix(f.id, x[2])
  BY <1>0 DEF Reached, ToPeer, Destination
<1>3. x[2] \in Seq(Letter)
  BY <1>1, <1>2, WrittenAssumption
<1>4. IsPrefix(e.id, f.id) \/ IsPrefix(f.id, e.id)
  BY <1>1, <1>2, <1>3, Comparable
<1>5. ~SameServer(e.server, f.server) /\ HostOf[e.server] = HostOf[f.server]
  BY <1>2, <1>4 DEF SameRecipient
<1>6. (e.server = "") # (f.server = "")
  BY <1>5 DEF SameServer
<1>7. ToPeer(e).server = e.server /\ ToPeer(f).server = f.server
  BY DEF ToPeer, Destination
<1> QED
  BY <1>5, <1>6, <1>7 DEF OwnAndNone

-----------------------------------------------------------------------------
(* Where a message goes.                                                   *)

(* Of two destinations that are peers, two entries of the list are behind  *)
(* them, in its order.                                                     *)
LEMMA TwoEntries ==
  ASSUME NEW s \in Setting, NEW g, NEW wanted,
         NEW i \in DOMAIN Destinations(s, g, wanted), NEW j \in DOMAIN Destinations(s, g, wanted),
         i < j,
         Destinations(s, g, wanted)[i].kind = "peers", Destinations(s, g, wanted)[j].kind = "peers"
  PROVE  /\ "peers" \in wanted
         /\ \E a, b \in DOMAIN s.peers :
               /\ a < b
               /\ Destinations(s, g, wanted)[i] = ToPeer(s.peers[a])
               /\ Destinations(s, g, wanted)[j] = ToPeer(s.peers[b])
<1> DEFINE X == {Destination("group", g, "")} \cup {ToPeer(e) : e \in Written}
           G == IF "group" \in wanted /\ g # <<>> THEN <<Destination("group", g, "")>> ELSE <<>>
           P == IF "peers" \in wanted THEN [k \in DOMAIN s.peers |-> ToPeer(s.peers[k])] ELSE <<>>
           D == Destinations(s, g, wanted)
<1>1. s.peers \in Seq(Written) /\ \A k \in DOMAIN s.peers : s.peers[k] \in Written
  BY WrittenAssumption
<1>2. G \in Seq(X) /\ Len(G) <= 1 /\ \A k \in 1..Len(G) : G[k].kind = "group"
  <2>1. Destination("group", g, "").kind = "group"
    BY DEF Destination
  <2>2. CASE "group" \in wanted /\ g # <<>>
    <3> DEFINE d == Destination("group", g, "")
    <3>1. G = <<d>> /\ d \in X /\ d.kind = "group"
      BY <2>1, <2>2
    <3> HIDE DEF G, X, d
    <3>2. G \in Seq(X) /\ Len(G) = 1 /\ G[1] = d
      BY <3>1
    <3> QED
      BY <3>1, <3>2
  <2>3. CASE ~("group" \in wanted /\ g # <<>>)
    <3>1. G = <<>>
      BY <2>3
    <3> HIDE DEF G
    <3> QED
      BY <3>1
  <2> QED
    BY <2>2, <2>3
<1>3. P \in Seq(X)
  <2>1. CASE "peers" \in wanted
    <3>1. P = [k \in 1..Len(s.peers) |-> ToPeer(s.peers[k])]
      BY <1>1, <2>1
    <3>2. ASSUME NEW k \in 1..Len(s.peers) PROVE ToPeer(s.peers[k]) \in X
      <4>1. s.peers[k] \in Written
        BY <1>1
      <4>2. ToPeer(s.peers[k]) \in {ToPeer(e) : e \in Written}
        BY <4>1
      <4> QED
        BY <4>2
    <3> HIDE DEF P, X
    <3> QED
      BY <1>1, <3>1, <3>2
  <2>2. CASE "peers" \notin wanted
    BY <2>2
  <2> QED
    BY <2>1, <2>2
<1>4. D = G \o P
  BY DEF Destinations
<1> HIDE DEF G, P, X, D
<1>5. /\ DOMAIN D = 1..(Len(G) + Len(P))
      /\ \A k \in 1..Len(G) : D[k] = G[k]
      /\ \A k \in 1..Len(P) : D[Len(G) + k] = P[k]
  BY <1>2, <1>3, <1>4
<1>6. /\ i \in DOMAIN D /\ D[i].kind = "peers"
      /\ j \in DOMAIN D /\ D[j].kind = "peers"
  BY DEF D
<1>7. i > Len(G) /\ j > Len(G)
  BY <1>2, <1>3, <1>5, <1>6
<1>8. PICK a \in 1..Len(P), b \in 1..Len(P) : i = Len(G) + a /\ j = Len(G) + b
  <2>1. i - Len(G) \in 1..Len(P) /\ j - Len(G) \in 1..Len(P)
    BY <1>2, <1>3, <1>5, <1>6, <1>7
  <2> QED
    BY <1>2, <1>5, <1>6, <2>1
<1>9. D[i] = P[a] /\ D[j] = P[b] /\ a < b
  BY <1>2, <1>5, <1>6, <1>8
<1>10. "peers" \in wanted /\ P = [k \in DOMAIN s.peers |-> ToPeer(s.peers[k])]
  BY <1>8 DEF P
<1>11. a \in DOMAIN s.peers /\ b \in DOMAIN s.peers
  BY <1>1, <1>3, <1>8, <1>10
<1>12. D[i] = ToPeer(s.peers[a]) /\ D[j] = ToPeer(s.peers[b])
  BY <1>9, <1>10, <1>11
<1> QED
  BY <1>9, <1>10, <1>11, <1>12 DEF D

MessageFields == {"kind", "step", "message", "to", "known", "text", "late"}

Unique(to) ==
    \A i, j \in DOMAIN to :
        (i < j /\ to[i].kind = "peers" /\ to[j].kind = "peers") =>
            Reached(to[i]) \cap Reached(to[j]) = {} \/ OwnAndNone(to[i], to[j])

LEMMA AcceptedUnique ==
  ASSUME setting \in Setting, NEW m, NEW note
  PROVE  /\ DOMAIN Accepted(m, note) = MessageFields /\ Accepted(m, note).kind = "message"
         /\ Unique(Accepted(m, note).to)
<1> DEFINE why == Refusal(setting, ConfiguredGroup, m.route, m.labels)
           wanted == WantedRoutes(setting.rules, m.route, m.labels)
           D == Destinations(setting, ConfiguredGroup, wanted)
<1>1. /\ DOMAIN Accepted(m, note) = MessageFields /\ Accepted(m, note).kind = "message"
      /\ Accepted(m, note).to = IF why = "none" THEN D ELSE <<>>
  BY DEF Accepted, MessageFields
<1>2. CASE why # "none"
  BY <1>1, <1>2 DEF Unique
<1>3. CASE why = "none"
  <2>1. "peers" \in wanted => AccountsOK(setting.peers)
    BY <1>3 DEF Refusal
  <2>2. ASSUME NEW i \in DOMAIN D, NEW j \in DOMAIN D, i < j, D[i].kind = "peers", D[j].kind = "peers"
        PROVE  Reached(D[i]) \cap Reached(D[j]) = {} \/ OwnAndNone(D[i], D[j])
    <3> HIDE DEF D, wanted
    <3>1. PICK a \in DOMAIN setting.peers, b \in DOMAIN setting.peers :
              /\ "peers" \in wanted /\ a < b
              /\ D[i] = ToPeer(setting.peers[a]) /\ D[j] = ToPeer(setting.peers[b])
      BY <2>2, TwoEntries DEF D
    <3>2. setting.peers[a] \in Written /\ setting.peers[b] \in Written
      BY WrittenAssumption
    <3>3. ~SameRecipient(setting.peers[a], setting.peers[b])
      BY <2>1, <3>1 DEF AccountsOK
    <3> QED
      BY <3>1, <3>2, <3>3, Apart
  <2> QED
    BY <1>1, <1>3, <2>2 DEF Unique
<1> QED
  BY <1>2, <1>3

-----------------------------------------------------------------------------
(* What start-up leaves.                                                   *)

Means(c) ==
    \E e \in ToSet(setting.commanders) :
        IF Whole(e.id) THEN c = e.id ELSE <<HostOf[e.server], c>> \in Reached(e)

Registered ==
    /\ FileOK(setting.file) /\ ~Clashes(setting.file)
    /\ actions = Builtins \cup {AsAction(a) : a \in ToSet(setting.file)}

Started ==
    /\ setting \in Setting
    /\ stage \notin {"off", "refused"} => LoadOK(setting)
    /\ \A c \in commanders : Means(c)
    /\ actions = {} \/ Registered

LEMMA MeantMeans ==
  ASSUME NEW e \in ToSet(setting.commanders), NEW c \in MeantBy(e) PROVE Means(c)
<1>1. CASE Whole(e.id)
  BY <1>1 DEF MeantBy, Means
<1>2. CASE ~Whole(e.id)
  <2>1. c \in Directory[HostOf[e.server]] /\ IsPrefix(e.id, c)
    BY <1>2 DEF MeantBy
  <2>2. <<HostOf[e.server], c>> \in Reached(e)
    BY <2>1 DEF Reached
  <2> QED
    BY <1>2, <2>2 DEF Means
<1> QED
  BY <1>1, <1>2

LEMMA StartedStep == Started /\ [Next]_vars => Started'
<1> SUFFICES ASSUME Started, [Next]_vars PROVE Started'
  OBVIOUS
<1>1. ASSUME UNCHANGED <<setting, stage, commanders, actions>> PROVE Started'
  BY <1>1 DEF Started, Means, Registered
<1>2. CASE Load
  BY <1>2 DEF Load, GoTo, Started, Means, Registered
<1>3. CASE ResolveCommanders
  <2>1. \A c \in commanders' : Means(c)
    BY <1>3, MeantMeans DEF ResolveCommanders, Started
  <2> QED
    BY <1>3, <2>1 DEF ResolveCommanders, GoTo, Started, Means, Registered
<1>4. CASE BuildSurface
  <2>1. actions' = actions \/ Registered'
    BY <1>4 DEF BuildSurface, GoTo, Started, Registered
  <2> QED
    BY <1>4, <2>1 DEF BuildSurface, GoTo, Started, Means, Registered
<1>5. CASE Serve
  BY <1>5 DEF Serve, GoTo, Started, Means, Registered
<1>6. CASE ResolveGroup \/ GroupsUnlisted
  BY <1>6 DEF ResolveGroup, GroupsUnlisted, GoTo, Started, Means, Registered
<1>7. CASE \/ \E m \in Message : Send(m)
           \/ \E p \in Post : Hook(p)
           \/ Deliver \/ Execute \/ Redirected \/ Unanswered \/ Done
           \/ \E a \in Account, inGroup \in BOOLEAN, t \in Typed : Receive(a, inGroup, t)
           \/ \E answer \in Answer : Answered(answer)
           \/ UNCHANGED vars
  BY <1>1, <1>7 DEF Send, Hook, Deliver, Execute, Redirected, Unanswered, Done, Receive, Answered, vars
<1> QED
  BY <1>2, <1>3, <1>4, <1>5, <1>6, <1>7 DEF Next, StartUp

LEMMA StartedHolds == Spec => []Started
<1>1. Init => Started
  BY DEF Init, Started
<1> QED
  BY <1>1, StartedStep, PTL DEF Spec

(* Two declarations of one name are not both in a file that is taken.      *)
LEMMA OneDeclaration ==
  ASSUME setting \in Setting, FileOK(setting.file),
         NEW a \in ToSet(setting.file), NEW b \in ToSet(setting.file), a.name = b.name
  PROVE  a = b
<1>1. setting.file \in Seq(ToSet(setting.file))
  BY WrittenAssumption
<1>2. PICK i \in DOMAIN setting.file, j \in DOMAIN setting.file :
          a = setting.file[i] /\ b = setting.file[j]
  BY DEF ToSet
<1>3. i \in Nat /\ j \in Nat
  BY <1>1
<1>4. ~(i < j) /\ ~(j < i)
  BY <1>2 DEF FileOK
<1> QED
  BY <1>2, <1>3, <1>4

LEMMA OneAction ==
  ASSUME setting \in Setting, Registered,
         NEW x \in actions, NEW y \in actions, x.name = y.name
  PROVE  x = y
<1> DEFINE Declared == {AsAction(a) : a \in ToSet(setting.file)}
<1>1. x \in Builtins \cup Declared /\ y \in Builtins \cup Declared
  BY DEF Registered
<1>2. \A a \in ToSet(setting.file) : AsAction(a).name = a.name
  BY DEF AsAction
<1>3. \A a \in ToSet(setting.file) : a.name \notin {z.name : z \in Builtins}
  BY DEF Registered, Clashes, Taken, ToSet
<1>4. CASE x \in Builtins /\ y \in Builtins
  BY <1>4 DEF Builtins
<1>5. CASE x \in Declared /\ y \in Declared
  BY <1>2, <1>5, OneDeclaration DEF Registered
<1>6. CASE (x \in Builtins /\ y \in Declared) \/ (x \in Declared /\ y \in Builtins)
  BY <1>2, <1>3, <1>6
<1> QED
  BY <1>1, <1>4, <1>5, <1>6

-----------------------------------------------------------------------------
(* What is in hand.                                                        *)

CommandFields == {"kind", "sender", "inGroup", "typed", "step", "given", "hops", "answer", "text"}

(* A declaration's requests so far.                                        *)
Stays(hops, a) ==
    /\ Len(hops) <= 3
    /\ hops[1].scheme = a.request[1].url.scheme
    /\ \A i \in DOMAIN hops : hops[i].host = HostNamed(a.request[1])

MessageOK == DOMAIN job = MessageFields /\ Unique(job.to)

CommandOK ==
    /\ DOMAIN job = CommandFields /\ stage = "up"
    /\ job.inGroup => setting.allowGroup
    /\ Means(job.sender)
    /\ \E X : job.hops \in Seq(X)
    /\ job.step \in {"typed", "asking"} => Named(actions, NameOf(job.typed)) # {}
    /\ job.step = "typed" => job.hops = <<>>
    /\ job.step = "asking" => job.hops # <<>>
    /\ job.hops # <<>> => \A a \in Declaration : Stays(job.hops, a)

JobInv ==
    /\ job.kind = "message" => MessageOK
    /\ job.kind = "command" => CommandOK

IInv == Started /\ JobInv

(* The action of a declaration is the one that is carried out.             *)
LEMMA TheDeclared ==
  ASSUME Started, Named(actions, NameOf(job.typed)) # {}, NEW a \in Declaration
  PROVE  TheAction = AsAction(a)
<1>1. Registered
  BY DEF Started, Named
<1>2. AsAction(a) \in actions /\ AsAction(a).name = NameOf(job.typed)
  BY <1>1 DEF Registered, Declaration, AsAction
<1>3. TheAction \in actions /\ TheAction.name = NameOf(job.typed)
  BY <1>2 DEF TheAction
<1> QED
  BY <1>1, <1>2, <1>3, OneAction DEF Started

LEMMA ExecuteStep ==
  ASSUME IInv, Execute
  PROVE  JobInv' /\ job'.kind = "command" /\ job'.answer = job.answer
<1> DEFINE a == TheAction
           given == Arguments(a.params, Tail(job.typed.words))
           kept == Kept(a.params, given)
           url == BuildURL(a.does.request, kept)
           hop == [scheme |-> url.scheme, host |-> url.host]
<1>1. /\ job.kind = "command" /\ job.step = "typed" /\ CommandOK /\ Started
      /\ UNCHANGED <<setting, stage, commanders, actions, groupID>>
  BY DEF Execute, IInv, JobInv
<1>2. /\ job'.kind = "command" /\ DOMAIN job' = CommandFields /\ job'.sender = job.sender
      /\ job'.inGroup = job.inGroup /\ job'.typed = job.typed /\ job'.answer = job.answer
      /\ \/ job'.step \in {"said", "failed"} /\ job'.hops = job.hops
         \/ /\ job'.step = "asking" /\ job'.hops = <<hop>>
            /\ a.does.kind = "request" /\ url.ok
  <2> DEFINE said(text) == [job EXCEPT !.step = "said", !.given = kept, !.text = text]
             asked == [job EXCEPT !.step = "asking", !.given = kept, !.hops = <<hop>>]
  <2>1. a.does.kind \in {"builtin", "reply", "request"}
    <3>1. Registered /\ a \in actions
      BY <1>1 DEF CommandOK, Started, Named, TheAction
    <3> QED
      BY <3>1 DEF Registered, Builtins, AsAction
  <2>2. \/ Failed
        \/ \E text : job' = said(text)
        \/ a.does.kind = "request" /\ url.ok /\ job' = asked
    <3>1. CASE ~Acceptable(a.params, given)
      BY <3>1 DEF Execute
    <3>2. CASE Acceptable(a.params, given) /\ a.does.kind = "builtin"
      BY <3>2 DEF Execute
    <3>3. CASE Acceptable(a.params, given) /\ a.does.kind = "reply"
      BY <3>3 DEF Execute
    <3>4. CASE Acceptable(a.params, given) /\ a.does.kind = "request"
      BY <3>4 DEF Execute
    <3> QED
      BY <2>1, <3>1, <3>2, <3>3, <3>4
  <2> HIDE DEF a, kept, url, hop
  <2>3. CASE Failed
    BY <1>1, <2>3 DEF Failed, Reply, CommandOK, CommandFields
  <2>4. CASE \E text : job' = said(text)
    BY <1>1, <2>4 DEF CommandOK, CommandFields
  <2>5. CASE a.does.kind = "request" /\ url.ok /\ job' = asked
    BY <1>1, <2>5 DEF CommandOK, CommandFields
  <2> QED
    BY <2>2, <2>3, <2>4, <2>5
<1>3. Declaration' = Declaration
  BY <1>1, <1>2 DEF Declaration
<1>4. CASE job'.step \in {"said", "failed"} /\ job'.hops = job.hops
  BY <1>1, <1>2, <1>3, <1>4 DEF JobInv, CommandOK, Means, Named
<1>5. CASE /\ job'.step = "asking" /\ job'.hops = <<hop>>
           /\ a.does.kind = "request" /\ url.ok
  <2>1. ASSUME NEW d \in Declaration PROVE Stays(<<hop>>, d)
    <3>1. a = AsAction(d)
      BY <1>1, TheDeclared DEF CommandOK
    <3>2. a.does.request = d.request[1]
      BY <1>5, <3>1 DEF AsAction
    <3>3. url.scheme = d.request[1].url.scheme /\ url.host = HostNamed(d.request[1])
      BY <1>5, <3>2 DEF BuildURL
    <3> HIDE DEF url
    <3> QED
      BY <3>3 DEF Stays
  <2>2. job'.hops \in Seq({hop}) /\ job'.hops # <<>>
    BY <1>5
  <2> HIDE DEF hop
  <2> QED
    BY <1>1, <1>2, <1>3, <1>5, <2>1, <2>2 DEF JobInv, CommandOK, Means, Named
<1> QED
  BY <1>2, <1>4, <1>5

LEMMA RedirectedStep == ASSUME IInv, Redirected PROVE JobInv' /\ job'.kind = "command"
<1>1. /\ job.kind = "command" /\ job.step = "asking" /\ CommandOK
      /\ UNCHANGED <<setting, stage, commanders, actions, groupID>>
  BY DEF Redirected, Asking, IInv, JobInv
<1>2. PICK host \in Elsewhere \cup {job.hops[1].host}, scheme \in {"http", "https"} :
          IF MayFollow(job.hops, host)
          THEN job' = [job EXCEPT !.hops = Append(@, [scheme |-> scheme, host |-> host])]
          ELSE Failed
  BY DEF Redirected
<1> DEFINE hop == [scheme |-> scheme, host |-> host]
<1>3. /\ job'.kind = "command" /\ DOMAIN job' = CommandFields /\ job'.sender = job.sender
      /\ job'.inGroup = job.inGroup /\ job'.typed = job.typed
      /\ \/ job'.step = "failed" /\ job'.hops = job.hops
         \/ /\ job'.step = "asking" /\ job'.hops = Append(job.hops, hop)
            /\ MayFollow(job.hops, host)
  BY <1>1, <1>2 DEF Failed, Reply, CommandOK, CommandFields
<1>4. Declaration' = Declaration
  BY <1>1, <1>3 DEF Declaration
<1>5. CASE job'.step = "failed" /\ job'.hops = job.hops
  BY <1>1, <1>3, <1>4, <1>5 DEF JobInv, CommandOK, Means, Named
<1>6. CASE job'.step = "asking" /\ job'.hops = Append(job.hops, hop) /\ MayFollow(job.hops, host)
  <2>1. PICK X : job.hops \in Seq(X)
    BY <1>1 DEF CommandOK
  <2>2. Len(job.hops) < 3 /\ hop.host = job.hops[1].host
    BY <1>6 DEF MayFollow, MaxHops
  <2>3. job.hops # <<>> /\ \A d \in Declaration : Stays(job.hops, d)
    BY <1>1 DEF CommandOK
  <2> HIDE DEF hop
  <2>4. /\ job'.hops \in Seq(X \cup {hop}) /\ job'.hops # <<>>
        /\ Len(job'.hops) = Len(job.hops) + 1
        /\ \A i \in 1..Len(job.hops) : job'.hops[i] = job.hops[i]
        /\ job'.hops[Len(job.hops) + 1] = hop
    <3>1. job.hops \in Seq(X \cup {hop})
      BY <2>1
    <3> QED
      BY <1>6, <3>1
  <2>5. ASSUME NEW d \in Declaration PROVE Stays(job'.hops, d)
    BY <2>1, <2>2, <2>3, <2>4 DEF Stays
  <2> QED
    BY <1>1, <1>3, <1>4, <1>6, <2>4, <2>5 DEF JobInv, CommandOK, Means, Named
<1> QED
  BY <1>3, <1>5, <1>6

LEMMA JobStep == IInv /\ [Next]_vars => JobInv'
<1> SUFFICES ASSUME IInv, [Next]_vars PROVE JobInv'
  OBVIOUS
<1>1. CASE StartUp
  <2>1. UNCHANGED <<setting, job>> /\ stage # "up"
    BY <1>1 DEF StartUp, Load, ResolveCommanders, BuildSurface, Serve, ResolveGroup, GroupsUnlisted
  <2> QED
    BY <2>1 DEF IInv, JobInv, MessageOK, CommandOK
<1>2. ASSUME NEW m \in Message, Send(m) PROVE JobInv'
  BY <1>2, AcceptedUnique DEF Send, IInv, Started, JobInv, MessageOK
<1>3. ASSUME NEW p \in Post, Hook(p) PROVE JobInv'
  BY <1>3, AcceptedUnique DEF Hook, IInv, Started, JobInv, MessageOK
<1>4. CASE Deliver
  <2>1. DOMAIN job' = MessageFields /\ job'.kind = "message" /\ job'.to = job.to
    BY <1>4 DEF Deliver, IInv, JobInv, MessageOK, MessageFields
  <2> QED
    BY <1>4, <2>1 DEF Deliver, IInv, JobInv, MessageOK
<1>5. ASSUME NEW c \in Account, NEW inGroup \in BOOLEAN, NEW t \in Typed, Receive(c, inGroup, t)
      PROVE  JobInv'
  <2>1. /\ stage = "up" /\ c \in commanders /\ (inGroup => setting.allowGroup)
        /\ UNCHANGED <<setting, stage, commanders, actions, groupID>>
    BY <1>5 DEF Receive, MayCommand
  <2>2. /\ job'.kind = "command" /\ DOMAIN job' = CommandFields /\ job'.sender = c
        /\ job'.inGroup = inGroup /\ job'.typed = t /\ job'.hops = <<>>
        /\ job'.step \in {"typed", "said"}
        /\ job'.step = "typed" => Named(actions, NameOf(t)) # {}
    BY <1>5 DEF Receive, Command, CommandFields
  <2>3. Means(c)
    BY <2>1 DEF IInv, Started
  <2>4. job'.hops \in Seq({})
    BY <2>2
  <2> QED
    BY <2>1, <2>2, <2>3, <2>4 DEF JobInv, CommandOK, Means, Named
<1>6. CASE Execute
  BY <1>6, ExecuteStep
<1>7. CASE Redirected
  BY <1>7, RedirectedStep
<1>8. CASE Unanswered \/ \E answer \in Answer : Answered(answer)
  <2>1. /\ job.kind = "command" /\ CommandOK
        /\ UNCHANGED <<setting, stage, commanders, actions, groupID>>
    BY <1>8 DEF Unanswered, Answered, Asking, IInv, JobInv
  <2>2. /\ job'.kind = "command" /\ DOMAIN job' = CommandFields /\ job'.sender = job.sender
        /\ job'.inGroup = job.inGroup /\ job'.typed = job.typed /\ job'.hops = job.hops
        /\ job'.step \in {"said", "failed"}
    BY <1>8, <2>1 DEF Unanswered, Answered, Failed, Reply, CommandOK, CommandFields
  <2>3. Declaration' = Declaration
    BY <2>1, <2>2 DEF Declaration
  <2> QED
    BY <2>1, <2>2, <2>3 DEF JobInv, CommandOK, Means, Named
<1>9. CASE Done
  BY <1>9 DEF Done, Idle, JobInv
<1>10. CASE UNCHANGED vars
  BY <1>10 DEF vars, IInv, JobInv, MessageOK, CommandOK, Means, Named, Declaration
<1> QED
  BY <1>1, <1>2, <1>3, <1>4, <1>5, <1>6, <1>7, <1>8, <1>9, <1>10 DEF Next

LEMMA IInvHolds == Spec => []IInv
<1>1. Init => IInv
  BY DEF Init, Idle, IInv, Started, JobInv
<1>2. IInv /\ [Next]_vars => IInv'
  BY StartedStep, JobStep DEF IInv
<1> QED
  BY <1>1, <1>2, PTL DEF Spec

(* Nobody is sent a message under two entries, but for the bot's own server *)
(* written out beside none (ParsePeers, SameServer, Resolve).               *)
THEOREM NobodyIsReachedTwice == Spec => []NobodyTwice
<1>1. IInv => NobodyTwice
  <2> SUFFICES ASSUME IInv, job.kind = "message",
                      NEW i \in DOMAIN job.to, NEW j \in DOMAIN job.to,
                      i < j, job.to[i].kind = "peers", job.to[j].kind = "peers",
                      Reached(job.to[i]) \cap Reached(job.to[j]) # {}
               PROVE  /\ (job.to[i].server = "") # (job.to[j].server = "")
                      /\ HostOf[job.to[i].server] = HostOf[""]
    BY DEF NobodyTwice
  <2>1. Unique(job.to)
    BY DEF IInv, JobInv, MessageOK
  <2>2. OwnAndNone(job.to[i], job.to[j])
    BY <2>1 DEF Unique
  <2> QED
    BY <2>2 DEF OwnAndNone
<1> QED
  BY <1>1, IInvHolds, PTL

(* A command is from somebody the allow-list means, where it may come from *)
(* (resolveCommanders, MayCommand).                                        *)
THEOREM CommandsAreFromCommanders == Spec => []OnlyCommandersAct
<1>1. IInv => OnlyCommandersAct
  BY DEF IInv, JobInv, CommandOK, Means, OnlyCommandersAct
<1> QED
  BY <1>1, IInvHolds, PTL

(* Neither what is typed nor a redirect takes a declared request away from *)
(* its host (buildURL, CheckRedirect).                                     *)
THEOREM RequestsStayAtHost == Spec => []StaysAtHost
<1>1. IInv => StaysAtHost
  BY DEF IInv, JobInv, CommandOK, Stays, StaysAtHost
<1> QED
  BY <1>1, IInvHolds, PTL

-----------------------------------------------------------------------------
(* Who is meant.                                                           *)

LEMMA NothingIn ==
  ASSUME NEW X, NEW s \in Seq(X) PROVE s = <<>> <=> ToSet(s) = {}
<1>1. s # <<>> => 1 \in DOMAIN s
  OBVIOUS
<1> QED
  BY <1>1 DEF ToSet

LEMMA JoinedSets ==
  ASSUME NEW X, NEW s \in Seq(X), NEW t \in Seq(X)
  PROVE  /\ ToSet(s \o t) = ToSet(s) \cup ToSet(t)
         /\ s \o t = <<>> <=> ToSet(s) \cup ToSet(t) = {}
<1>1. /\ DOMAIN (s \o t) = 1..(Len(s) + Len(t))
      /\ \A i \in 1..Len(s) : (s \o t)[i] = s[i]
      /\ \A i \in 1..Len(t) : (s \o t)[Len(s) + i] = t[i]
  OBVIOUS
<1>2. DOMAIN s = 1..Len(s) /\ DOMAIN t = 1..Len(t) /\ Len(s) \in Nat /\ Len(t) \in Nat
  OBVIOUS
<1>3. ToSet(s \o t) \subseteq ToSet(s) \cup ToSet(t)
  <2> SUFFICES ASSUME NEW i \in DOMAIN (s \o t)
               PROVE  (s \o t)[i] \in ToSet(s) \cup ToSet(t)
    BY DEF ToSet
  <2>1. CASE i <= Len(s)
    BY <1>1, <1>2, <2>1 DEF ToSet
  <2>2. CASE ~(i <= Len(s))
    <3>1. i - Len(s) \in 1..Len(t) /\ i = Len(s) + (i - Len(s))
      BY <1>1, <1>2, <2>2
    <3>2. (s \o t)[i] = t[i - Len(s)]
      BY <1>1, <3>1
    <3> QED
      BY <1>2, <3>1, <3>2 DEF ToSet
  <2> QED
    BY <2>1, <2>2
<1>4. ToSet(s) \subseteq ToSet(s \o t)
  <2>1. \A i \in 1..Len(s) : i \in DOMAIN (s \o t)
    BY <1>1, <1>2
  <2> QED
    BY <1>1, <1>2, <2>1 DEF ToSet
<1>5. ToSet(t) \subseteq ToSet(s \o t)
  <2>1. \A i \in 1..Len(t) : Len(s) + i \in DOMAIN (s \o t)
    BY <1>1, <1>2
  <2> QED
    BY <1>1, <1>2, <2>1 DEF ToSet
<1>6. s \o t = <<>> <=> s = <<>> /\ t = <<>>
  OBVIOUS
<1>7. (s = <<>> <=> ToSet(s) = {}) /\ (t = <<>> <=> ToSet(t) = {})
  BY NothingIn
<1> QED
  BY <1>3, <1>4, <1>5, <1>6, <1>7

TheGroup(g, wanted) ==
    IF "group" \in wanted /\ g # <<>> THEN {Destination("group", g, "")} ELSE {}

ThePeers(s, wanted) ==
    IF "peers" \in wanted THEN {ToPeer(e) : e \in ToSet(s.peers)} ELSE {}

LEMMA InTheGroup ==
  ASSUME NEW g, NEW wanted
  PROVE  /\ TheGroup(g, wanted) # {} <=> "group" \in wanted /\ g # <<>>
         /\ \A d \in TheGroup(g, wanted) : d.kind = "group" /\ d.id = g
<1>1. Destination("group", g, "").kind = "group" /\ Destination("group", g, "").id = g
  BY DEF Destination
<1>2. CASE "group" \in wanted /\ g # <<>>
  <2>1. TheGroup(g, wanted) = {Destination("group", g, "")}
    BY <1>2 DEF TheGroup
  <2> QED
    BY <1>1, <1>2, <2>1
<1>3. CASE ~("group" \in wanted /\ g # <<>>)
  <2>1. TheGroup(g, wanted) = {}
    BY <1>3 DEF TheGroup
  <2> QED
    BY <1>3, <2>1
<1> QED
  BY <1>2, <1>3

LEMMA InThePeers ==
  ASSUME NEW s \in Setting, NEW wanted
  PROVE  /\ ThePeers(s, wanted) # {} <=> "peers" \in wanted /\ s.peers # <<>>
         /\ \A d \in ThePeers(s, wanted) : d.kind = "peers"
<1>1. s.peers # <<>> <=> ToSet(s.peers) # {}
  <2>1. s.peers \in Seq(Written)
    BY WrittenAssumption
  <2> QED
    BY <2>1, NothingIn
<1>2. \A e : ToPeer(e).kind = "peers"
  BY DEF ToPeer, Destination
<1>3. CASE "peers" \in wanted
  <2>1. ThePeers(s, wanted) = {ToPeer(e) : e \in ToSet(s.peers)}
    BY <1>3 DEF ThePeers
  <2> QED
    BY <1>1, <1>2, <1>3, <2>1
<1>4. CASE "peers" \notin wanted
  <2>1. ThePeers(s, wanted) = {}
    BY <1>4 DEF ThePeers
  <2> QED
    BY <1>4, <2>1
<1> QED
  BY <1>3, <1>4

LEMMA DestinationsAre ==
  ASSUME NEW s \in Setting, NEW g, NEW wanted
  PROVE  /\ ToSet(Destinations(s, g, wanted)) = TheGroup(g, wanted) \cup ThePeers(s, wanted)
         /\ Destinations(s, g, wanted) = <<>> <=> TheGroup(g, wanted) \cup ThePeers(s, wanted) = {}
<1> DEFINE X == {Destination("group", g, "")} \cup {ToPeer(e) : e \in Written}
           G == IF "group" \in wanted /\ g # <<>> THEN <<Destination("group", g, "")>> ELSE <<>>
           P == IF "peers" \in wanted THEN [k \in DOMAIN s.peers |-> ToPeer(s.peers[k])] ELSE <<>>
<1>1. s.peers \in Seq(Written) /\ \A k \in DOMAIN s.peers : s.peers[k] \in Written
  BY WrittenAssumption
<1>2. G \in Seq(X) /\ ToSet(G) = TheGroup(g, wanted)
  <2> DEFINE d == Destination("group", g, "")
  <2>1. d \in X
    OBVIOUS
  <2> HIDE DEF d, X
  <2>2. <<d>> \in Seq(X) /\ ToSet(<<d>>) = {d}
    BY <2>1 DEF ToSet
  <2>3. <<>> \in Seq(X) /\ ToSet(<<>>) = {}
    BY DEF ToSet
  <2> QED
    BY <2>2, <2>3 DEF TheGroup, d
<1>3. P \in Seq(X) /\ ToSet(P) = ThePeers(s, wanted)
  <2>1. CASE "peers" \in wanted
    <3>1. P = [k \in 1..Len(s.peers) |-> ToPeer(s.peers[k])]
      BY <1>1, <2>1
    <3>2. ASSUME NEW k \in 1..Len(s.peers) PROVE ToPeer(s.peers[k]) \in X
      <4>1. s.peers[k] \in Written
        BY <1>1
      <4>2. ToPeer(s.peers[k]) \in {ToPeer(e) : e \in Written}
        BY <4>1
      <4> QED
        BY <4>2
    <3>3. ToSet(P) = {ToPeer(e) : e \in ToSet(s.peers)}
      BY <1>1, <2>1 DEF ToSet
    <3> HIDE DEF P, X
    <3>4. P \in Seq(X)
      BY <1>1, <3>1, <3>2
    <3> QED
      BY <2>1, <3>3, <3>4 DEF ThePeers
  <2>2. CASE "peers" \notin wanted
    BY <2>2 DEF ThePeers, ToSet
  <2> QED
    BY <2>1, <2>2
<1>4. Destinations(s, g, wanted) = G \o P
  BY DEF Destinations
<1> HIDE DEF G, P, X
<1> QED
  BY <1>2, <1>3, <1>4, JoinedSets

(* The routes Resolve wants are those the precedence of the documents      *)
(* means: asked for, or by the first rule that fits, or every one.         *)
LEMMA WantedIsMeant ==
  ASSUME setting \in Setting, NEW m, NEW kind \in KnownRoutes
  PROVE  kind \in WantedRoutes(setting.rules, m.route, m.labels) <=> IsFor(m, kind)
<1> DEFINE rules == setting.rules
           first == Matching(rules, m.labels)
           fits(i) == FitsRule(rules[i], m.labels)
<1>1. rules \in Seq(ToSet(rules)) /\ DOMAIN rules = 1..Len(rules) /\ Len(rules) \in Nat
  <2>1. rules \in Seq(ToSet(rules))
    BY WrittenAssumption
  <2> QED
    BY <2>1
<1>2. CASE m.route # ""
  BY <1>2 DEF WantedRoutes, IsFor
<1>3. CASE m.route = ""
  <2>1. first = {i \in DOMAIN rules : fits(i) /\ \A j \in 1..(i - 1) : ~fits(j)}
    <3>1. first = {i \in DOMAIN rules : fits(i) /\ \A j \in DOMAIN rules : fits(j) => i <= j}
      BY DEF Matching, FitsRule
    <3> HIDE DEF first, fits, rules
    <3>2. ASSUME NEW i \in DOMAIN rules
          PROVE  (\A j \in DOMAIN rules : fits(j) => i <= j) <=> (\A j \in 1..(i - 1) : ~fits(j))
      BY <1>1
    <3> QED
      BY <3>1, <3>2
  <2>2. kind \in WantedRoutes(rules, m.route, m.labels)
          <=> first = {} \/ \E i \in first : kind \in rules[i].routes
    BY <1>3 DEF WantedRoutes
  <2>3. IsFor(m, kind) <=> \A i \in first : kind \in rules[i].routes
    BY <1>3, <2>1 DEF IsFor
  <2>4. \A i, j \in first : i = j
    <3> HIDE DEF first, fits, rules
    <3> QED
      BY <1>1, <2>1
  <2> HIDE DEF first, rules, fits
  <2>5. (first = {} \/ \E i \in first : kind \in rules[i].routes)
          <=> \A i \in first : kind \in rules[i].routes
    BY <2>4
  <2> QED
    BY <2>2, <2>3, <2>5 DEF rules
<1> QED
  BY <1>2, <1>3

(* What start-up knows of the routes, and of the group once it is resolved. *)
Known ==
    /\ stage \notin {"off", "refused"} => RoutesConfigured(setting)
    /\ stage # "up" => groupID = <<>>
    /\ groupID # <<>> =>
          /\ setting.group # <<>> /\ groupID \in Seq(Letter)
          /\ Whole(groupID) /\ IsPrefix(setting.group, groupID)

TakenOK ==
    /\ ReachesWhoIsMeant
    /\ job.kind = "message" /\ job.step = "refused" => job.to = <<>>

RInv == IInv /\ Known /\ TakenOK

LEMMA KnownStep == Started /\ Known /\ [Next]_vars => Known'
<1> SUFFICES ASSUME Started, Known, [Next]_vars PROVE Known'
  OBVIOUS
<1>1. ASSUME UNCHANGED <<setting, stage, groupID>> PROVE Known'
  BY <1>1 DEF Known, RoutesConfigured
<1>2. CASE Load \/ ResolveCommanders \/ BuildSurface \/ Serve
  BY <1>2 DEF Load, ResolveCommanders, BuildSurface, Serve, GoTo, Known, RoutesConfigured
<1>3. CASE GroupsUnlisted
  BY <1>3 DEF GroupsUnlisted, GoTo, Known, RoutesConfigured
<1>4. CASE ResolveGroup
  <2> DEFINE fits == {g \in setting.held : IsPrefix(setting.group, g)}
  <2>1. /\ UNCHANGED setting /\ stage = "serving" /\ stage' \in {"up", "refused"}
        /\ \/ groupID' = groupID
           \/ /\ stage' = "up" /\ setting.group # <<>>
              /\ \E g \in fits : groupID' = g
    BY <1>4 DEF ResolveGroup, GoTo
  <2>2. \A g \in fits : g \in Seq(Letter) /\ Whole(g) /\ IsPrefix(setting.group, g)
    BY WrittenAssumption DEF Started
  <2> QED
    BY <2>1, <2>2 DEF Known, RoutesConfigured
<1>5. CASE \/ \E m \in Message : Send(m)
           \/ \E p \in Post : Hook(p)
           \/ Deliver \/ Execute \/ Redirected \/ Unanswered \/ Done
           \/ \E a \in Account, inGroup \in BOOLEAN, t \in Typed : Receive(a, inGroup, t)
           \/ \E answer \in Answer : Answered(answer)
           \/ UNCHANGED vars
  BY <1>1, <1>5 DEF Send, Hook, Deliver, Execute, Redirected, Unanswered, Done, Receive, Answered, vars
<1> QED
  BY <1>2, <1>3, <1>4, <1>5 DEF Next, StartUp

(* The group is known by what was configured, or by what that begins.      *)
LEMMA GroupKnown ==
  ASSUME Started, Known
  PROVE  /\ ConfiguredGroup = <<>> <=> setting.group = <<>>
         /\ ConfiguredGroup \in Seq(Letter)
         /\ IsPrefix(setting.group, ConfiguredGroup)
<1>1. setting.group \in Seq(Letter)
  BY WrittenAssumption DEF Started
<1> QED
  BY <1>1, PrefixIs DEF ConfiguredGroup, Known

LEMMA TakenStep ==
  ASSUME Started, Known, stage \in {"serving", "up"},
         NEW m, DOMAIN m = {"title", "text", "labels", "route"}, NEW note \in BOOLEAN,
         job' = Accepted(m, note), UNCHANGED <<setting, stage, commanders, actions, groupID>>
  PROVE  TakenOK'
<1> DEFINE g == ConfiguredGroup
           wanted == WantedRoutes(setting.rules, m.route, m.labels)
           why == Refusal(setting, g, m.route, m.labels)
           D == Destinations(setting, g, wanted)
           n == job.message
<1>1. /\ job'.kind = "message" /\ job'.known = g
      /\ job'.step = IF why = "none" THEN "queued" ELSE "refused"
      /\ job'.to = IF why = "none" THEN D ELSE <<>>
      /\ n' = IF note THEN [m EXCEPT !.text = @ \o <<Line(1, "note")>>] ELSE m
  BY DEF Accepted
<1>2. n'.route = m.route /\ n'.labels = m.labels
  BY <1>1
<1>3. ConfiguredGroup' = g
  BY DEF ConfiguredGroup
<1>4. /\ setting \in Setting /\ AccountsOK(setting.peers) /\ setting.peers \in Seq(Written)
  BY WrittenAssumption DEF Started, LoadOK
<1>5. /\ "group" \in wanted <=> IsFor(m, "group")
      /\ "peers" \in wanted <=> IsFor(m, "peers")
  BY <1>4, WantedIsMeant DEF KnownRoutes
<1>6. /\ IsFor(n, "group")' <=> IsFor(m, "group")
      /\ IsFor(n, "peers")' <=> IsFor(m, "peers")
  BY <1>2 DEF IsFor, FitsRule
<1>7. /\ ForGroup(n)' <=> "group" \in wanted /\ g # <<>>
      /\ ForPeers(n)' <=> "peers" \in wanted /\ setting.peers # <<>>
  BY <1>5, <1>6, GroupKnown DEF ForGroup, ForPeers
<1>8. /\ ToSet(D) = TheGroup(g, wanted) \cup ThePeers(setting, wanted)
      /\ D = <<>> <=> TheGroup(g, wanted) \cup ThePeers(setting, wanted) = {}
  BY <1>4, DestinationsAre
<1>9. /\ TheGroup(g, wanted) # {} <=> "group" \in wanted /\ g # <<>>
      /\ ThePeers(setting, wanted) # {} <=> "peers" \in wanted /\ setting.peers # <<>>
  <2> HIDE DEF g, wanted
  <2>1. TheGroup(g, wanted) # {} <=> "group" \in wanted /\ g # <<>>
    BY InTheGroup
  <2>2. ThePeers(setting, wanted) # {} <=> "peers" \in wanted /\ setting.peers # <<>>
    BY <1>4, InThePeers
  <2> QED
    BY <2>1, <2>2
<1>10. CASE why # "none"
  <2>1. \/ ForGroup(n)' /\ ~Whole(g)
        \/ ~ForGroup(n)' /\ ~ForPeers(n)'
    <3>1. CASE m.route \notin KnownRoutes \cup {""}
      BY <1>5, <1>7, <3>1 DEF IsFor, KnownRoutes
    <3>2. CASE "group" \in wanted /\ g # <<>> /\ ~Whole(g)
      BY <1>7, <3>2
    <3>3. CASE D = <<>>
      BY <1>7, <1>8, <1>9, <3>3
    <3> QED
      BY <1>4, <1>10, <3>1, <3>2, <3>3 DEF Refusal
  <2>2. job'.step = "refused" /\ job'.to = <<>>
    BY <1>1, <1>10
  <2> QED
    BY <1>1, <2>1, <2>2 DEF TakenOK, ReachesWhoIsMeant
<1>11. CASE why = "none"
  <2>1. "group" \in wanted /\ g # <<>> => Whole(g)
    BY <1>11 DEF Refusal
  <2>2. job'.step = "queued" /\ ToSet(job'.to) = TheGroup(g, wanted) \cup ThePeers(setting, wanted)
    BY <1>1, <1>8, <1>11
  <2>3. \A d \in TheGroup(g, wanted) : d.kind = "group" /\ d.id = g
    BY InTheGroup
  <2>4. \A d \in ThePeers(setting, wanted) : d.kind = "peers"
    BY <1>4, InThePeers
  <2>5. \A d \in ToSet(job'.to) : d.kind = "group" =>
            ForGroup(n)' /\ Whole(d.id) /\ IsPrefix(setting.group, d.id)
    BY <1>7, <1>9, <2>1, <2>2, <2>3, <2>4, GroupKnown
  <2>6. ForGroup(n)' => \E d \in ToSet(job'.to) : d.kind = "group"
    BY <1>7, <1>9, <2>2, <2>3
  <2>7. {Reached(d) : d \in {d \in ToSet(job'.to) : d.kind = "peers"}}
          = IF ForPeers(n)' THEN {Reached(e) : e \in ToSet(setting.peers)} ELSE {}
    <3>1. {d \in ToSet(job'.to) : d.kind = "peers"} = ThePeers(setting, wanted)
      BY <2>2, <2>3, <2>4
    <3>2. \A e : Reached(ToPeer(e)) = Reached(e)
      BY DEF Reached, ToPeer, Destination
    <3>3. CASE "peers" \in wanted
      <4>1. ThePeers(setting, wanted) = {ToPeer(e) : e \in ToSet(setting.peers)}
        BY <3>3 DEF ThePeers
      <4>2. ~ForPeers(n)' => ToSet(setting.peers) = {}
        BY <1>7, <1>9, <3>3, <4>1
      <4> QED
        BY <3>1, <3>2, <4>1, <4>2
    <3>4. CASE "peers" \notin wanted
      BY <1>7, <3>1, <3>4 DEF ThePeers
    <3> QED
      BY <3>3, <3>4
  <2> QED
    BY <1>1, <1>3, <2>2, <2>5, <2>6, <2>7 DEF TakenOK, ReachesWhoIsMeant, Reached
<1> QED
  BY <1>10, <1>11

LEMMA RInvHolds == Spec => []RInv
<1>1. Init => RInv
  BY DEF Init, Idle, RInv, IInv, Started, JobInv, Known, TakenOK, ReachesWhoIsMeant
<1>2. RInv /\ [Next]_vars => RInv'
  <2> SUFFICES ASSUME RInv, [Next]_vars PROVE TakenOK'
    BY StartedStep, JobStep, KnownStep, SMTT(30) DEF RInv, IInv
  <2>1. ASSUME UNCHANGED <<setting, job>> PROVE TakenOK'
    BY <2>1, ZenonT(60) DEF RInv, TakenOK, ReachesWhoIsMeant, ForGroup, ForPeers, IsFor, FitsRule,
                Reached
  <2>2. ASSUME job'.kind # "message" PROVE TakenOK'
    BY <2>2 DEF TakenOK, ReachesWhoIsMeant
  <2>3. CASE StartUp
    BY <2>1, <2>3
       DEF StartUp, Load, ResolveCommanders, BuildSurface, Serve, ResolveGroup, GroupsUnlisted
  <2>4. ASSUME NEW m \in Message, Send(m) PROVE TakenOK'
    BY <2>4, TakenStep, WrittenAssumption DEF Send, RInv, IInv
  <2>5. ASSUME NEW p \in Post, Hook(p) PROVE TakenOK'
    BY <2>5, TakenStep DEF Hook, RInv, IInv
  <2>6. CASE Deliver
    <3>1. /\ job.kind = "message" /\ job.step = "queued" /\ MessageOK
          /\ UNCHANGED <<setting, stage, commanders, actions, groupID>>
      BY <2>6 DEF Deliver, RInv, IInv, JobInv
    <3>2. /\ job'.kind = "message" /\ job'.step = "delivered" /\ job'.to = job.to
          /\ job'.message = job.message /\ job'.known = job.known
      BY <2>6, <3>1 DEF Deliver, MessageOK, MessageFields
    <3>3. ReachesWhoIsMeant'
      BY <3>1, <3>2, ZenonT(60) DEF RInv, TakenOK, ReachesWhoIsMeant, ForGroup, ForPeers, IsFor, FitsRule, Reached
    <3> QED
      BY <3>2, <3>3 DEF TakenOK
  <2>7. CASE \E a \in Account, inGroup \in BOOLEAN, t \in Typed : Receive(a, inGroup, t)
    BY <2>2, <2>7 DEF Receive, Command
  <2>8. CASE Execute \/ Redirected \/ Unanswered \/ \E answer \in Answer : Answered(answer)
    <3>1. CASE Execute \/ Redirected
      BY <2>2, <3>1, ExecuteStep, RedirectedStep DEF RInv
    <3>2. CASE Unanswered \/ \E answer \in Answer : Answered(answer)
      <4>1. job.kind = "command" /\ CommandOK
        BY <3>2 DEF Unanswered, Answered, Asking, RInv, IInv, JobInv
      <4>2. job'.kind = "command"
        BY <3>2, <4>1 DEF Unanswered, Answered, Failed, Reply, CommandOK, CommandFields
      <4> QED
        BY <2>2, <4>2
    <3> QED
      BY <2>8, <3>1, <3>2
  <2>9. CASE Done
    BY <2>2, <2>9 DEF Done, Idle
  <2>10. CASE UNCHANGED vars
    BY <2>1, <2>10 DEF vars
  <2> QED
    BY <2>3, <2>4, <2>5, <2>6, <2>7, <2>8, <2>9, <2>10 DEF Next
<1> QED
  BY <1>1, <1>2, PTL DEF Spec

(* A message is taken for everybody it is meant for, or refused, in the    *)
(* start-up window too (Resolve, MatchRoute).                              *)
THEOREM ReachesAllItIsFor == Spec => []ReachesWhoIsMeant
<1>1. RInv => ReachesWhoIsMeant
  BY DEF RInv, TakenOK
<1> QED
  BY <1>1, RInvHolds, PTL

-----------------------------------------------------------------------------
(* What is typed.                                                          *)

(* Of numbers there is a least.                                            *)
LEMMA Least ==
  ASSUME NEW Bad \in SUBSET Nat, Bad # {}
  PROVE  \E n \in Bad : \A m \in Bad : n <= m
<1>1. PICK n \in Bad : \A m \in Bad : ~(<<m, n>> \in OpToRel(<, Nat))
  BY NatLessThanWellFounded, WFMin
<1>2. ASSUME NEW m \in Bad PROVE n <= m
  <2>1. ~(<<m, n>>[1] < <<m, n>>[2])
    BY <1>1 DEF OpToRel
  <2> QED
    BY <2>1
<1> QED
  BY <1>2

(* The i-th is the first i sequences, one after the other.                 *)
JoinsUp(g, seqs, n) == g = [i \in 1..n |-> IF i = 1 THEN seqs[i] ELSE g[i - 1] \o seqs[i]]

(* Sequences put together one by one: what grows by one of them at a time  *)
(* ends as the library's FlattenSeq of them.                               *)
LEMMA FlattenIs ==
  ASSUME NEW seqs, NEW n \in Nat \ {0}, Len(seqs) = n, NEW g, JoinsUp(g, seqs, n)
  PROVE  FlattenSeq(seqs) = g[n]
<1> DEFINE flatten == CHOOSE f : JoinsUp(f, seqs, n)
<1>1. FlattenSeq(seqs) = flatten[n]
  BY DEF FlattenSeq, JoinsUp
<1>2. JoinsUp(flatten, seqs, n)
  OBVIOUS
<1> DEFINE Bad == {i \in 1..n : flatten[i] # g[i]}
<1>3. ASSUME Bad # {} PROVE FALSE
  <2>1. PICK i \in Bad : \A j \in Bad : i <= j
    <3>1. Bad \in SUBSET Nat
      OBVIOUS
    <3> HIDE DEF Bad
    <3> QED
      BY <1>3, <3>1, Least
  <2>2. i # 1 => i - 1 \in 1..n /\ flatten[i - 1] = g[i - 1]
    <3> HIDE DEF flatten
    <3> QED
      BY <2>1
  <2> HIDE DEF flatten
  <2>3. i \in 1..n /\ flatten[i] # g[i]
    BY <2>1
  <2>4. flatten[i] = IF i = 1 THEN seqs[i] ELSE flatten[i - 1] \o seqs[i]
    BY <1>2, <2>3 DEF JoinsUp
  <2>5. g[i] = IF i = 1 THEN seqs[i] ELSE g[i - 1] \o seqs[i]
    BY <2>3 DEF JoinsUp
  <2> HIDE DEF Bad
  <2> QED
    BY <2>2, <2>3, <2>4, <2>5, Zenon
<1>4. flatten[n] = g[n]
  <2> HIDE DEF flatten
  <2> QED
    BY <1>3
<1> QED
  BY <1>1, <1>4
(* What one parameter of n is given of the words.                          *)
Share(words, n, i) ==
    IF i <= Len(words)
    THEN (IF i = n THEN SubSeq(words, i, Len(words)) ELSE <<words[i]>>)
    ELSE <<>>

(* The shares, one after the other, are the words.                         *)
LEMMA SharesAreAll ==
  ASSUME NEW X, NEW words \in Seq(X), NEW n \in Nat \ {0}
  PROVE  FlattenSeq([i \in 1..n |-> Share(words, n, i)]) = words
<1> DEFINE L == Len(words)
           seqs == [i \in 1..n |-> Share(words, n, i)]
           Till(i) == IF i <= L THEN i ELSE L
           g == [i \in 1..n |-> IF i = n THEN words ELSE SubSeq(words, 1, Till(i))]
<1>1. L \in Nat /\ words = SubSeq(words, 1, L) /\ Len(seqs) = n
  OBVIOUS
<1>2. ASSUME NEW i \in 1..n, i = 1 PROVE g[i] = seqs[i]
  <2>1. CASE n = 1 /\ L >= 1
    BY <1>1, <1>2, <2>1 DEF Share
  <2>2. CASE L = 0
    <3>1. words = <<>>
      BY <2>2
    <3>2. SubSeq(words, 1, 0) = <<>>
      BY <3>1
    <3> QED
      BY <1>1, <1>2, <2>2, <3>1, <3>2 DEF Share
  <2>3. CASE n # 1 /\ L >= 1
    <3>1. SubSeq(words, 1, 1) = <<words[1]>>
      <4>1. SubSeq(words, 1, 1) \in Seq(X) /\ <<words[1]>> \in Seq(X)
        BY <1>1, <2>3
      <4>2. Len(SubSeq(words, 1, 1)) = 1 /\ SubSeq(words, 1, 1)[1] = words[1]
        BY <1>1, <2>3
      <4> DEFINE s == SubSeq(words, 1, 1)
                 x == words[1]
      <4> HIDE DEF s, x
      <4>3. s \in Seq(X) /\ Len(s) = 1 /\ s[1] = x
        BY <4>1, <4>2 DEF s, x
      <4>4. s = <<x>>
        BY <4>3
      <4> QED
        BY <4>4 DEF s, x
    <3> QED
      BY <1>1, <1>2, <2>3, <3>1 DEF Share
  <2> QED
    BY <1>1, <2>1, <2>2, <2>3
<1>3. ASSUME NEW i \in 1..n, i # 1 PROVE g[i] = g[i - 1] \o seqs[i]
  <2>1. i - 1 \in 1..n /\ i - 1 # n /\ g[i - 1] = SubSeq(words, 1, Till(i - 1))
    BY <1>3
  <2>2. CASE i <= L /\ i = n
    <3>1. words = SubSeq(words, 1, i - 1) \o SubSeq(words, i, L)
      BY <1>1, <2>2
    <3>2. g[i] = words /\ seqs[i] = SubSeq(words, i, L) /\ Till(i - 1) = i - 1
      BY <1>1, <2>2 DEF Share
    <3> QED
      BY <2>1, <3>1, <3>2, Zenon
  <2>3. CASE i <= L /\ i # n
    <3>1. SubSeq(words, 1, i) = SubSeq(words, 1, i - 1) \o <<words[i]>>
      BY <1>1, <1>3, <2>3
    <3> QED
      BY <1>1, <2>1, <2>3, <3>1 DEF Share
  <2>4. CASE ~(i <= L)
    <3>1. Till(i - 1) = L /\ Till(i) = L
      BY <1>1, <1>3, <2>4
    <3>2. g[i] = words /\ g[i - 1] = words
      BY <1>1, <2>1, <3>1
    <3>3. seqs[i] = <<>> /\ words \o <<>> = words
      BY <2>4 DEF Share
    <3> QED
      BY <3>2, <3>3
  <2> QED
    BY <2>2, <2>3, <2>4
<1>4. JoinsUp(g, seqs, n)
  <2>1. g = [i \in 1..n |-> g[i]]
    OBVIOUS
  <2> HIDE DEF g, seqs
  <2>2. \A i \in 1..n : g[i] = IF i = 1 THEN seqs[i] ELSE g[i - 1] \o seqs[i]
    BY <1>2, <1>3
  <2> QED
    BY <2>1, <2>2 DEF JoinsUp
<1>5. g[n] = words
  OBVIOUS
<1> HIDE DEF g, seqs
<1>6. FlattenSeq(seqs) = g[n]
  BY <1>1, <1>4, FlattenIs
<1> QED
  BY <1>5, <1>6 DEF seqs

(* What a handler is handed, parameter by parameter, where no two have one *)
(* name.                                                                   *)
LEMMA GivenIs ==
  ASSUME NEW params, NEW n \in Nat, DOMAIN params = 1..n, Len(params) = n,
         \A i, j \in 1..n : params[i].name = params[j].name => i = j,
         NEW X, NEW words \in Seq(X), NEW given, given = Kept(params, Arguments(params, words))
  PROVE  /\ Arguments(params, words) = given
         /\ DOMAIN given \subseteq {params[i].name : i \in 1..n}
         /\ \A i \in 1..n :
               /\ params[i].name \in DOMAIN given <=> i <= Len(words)
               /\ i <= Len(words) => given[params[i].name] = Share(words, n, i)
<1> DEFINE G == {i \in 1..Len(params) : i <= Len(words)}
           At(p) == CHOOSE i \in G : params[i].name = p
           Of(p) == IF At(p) = Len(params) THEN SubSeq(words, At(p), Len(words)) ELSE <<words[At(p)]>>
           args == [p \in {params[i].name : i \in G} |-> Of(p)]
<1>1. Arguments(params, words) = args
  BY DEF Arguments
<1>2. DOMAIN args = {params[i].name : i \in G} /\ DOMAIN args \subseteq {params[i].name : i \in 1..n}
  OBVIOUS
<1>3. ASSUME NEW i \in 1..n, i <= Len(words)
      PROVE  params[i].name \in DOMAIN args /\ args[params[i].name] = Share(words, n, i)
  <2>1. i \in G
    BY <1>3
  <2>2. At(params[i].name) = i
    <3> HIDE DEF G
    <3>1. \E j \in G : params[j].name = params[i].name
      BY <2>1
    <3>2. At(params[i].name) \in G /\ params[At(params[i].name)].name = params[i].name
      BY <3>1
    <3>3. At(params[i].name) \in 1..n
      BY <3>2 DEF G
    <3> HIDE DEF At
    <3> QED
      BY <3>2, <3>3
  <2>3. args[params[i].name] = Of(params[i].name)
    <3> HIDE DEF Of, G
    <3> QED
      BY <2>1
  <2>4. params[i].name \in DOMAIN args
    BY <2>1, <1>2
  <2> HIDE DEF At, args
  <2> QED
    BY <1>3, <2>2, <2>3, <2>4 DEF Share
<1>4. ASSUME NEW i \in 1..n, params[i].name \in DOMAIN args PROVE i <= Len(words)
  BY <1>2, <1>4
<1>5. given = args
  <2> HIDE DEF args
  <2>1. DOMAIN args \cap {params[i].name : i \in DOMAIN params} = DOMAIN args
    BY <1>2
  <2>2. given = [p \in DOMAIN args |-> args[p]]
    BY <1>1, <2>1 DEF Kept
  <2>3. args = [p \in DOMAIN args |-> args[p]]
    BY DEF args
  <2> QED
    BY <2>2, <2>3
<1> HIDE DEF args
<1> QED
  BY <1>1, <1>2, <1>3, <1>4, <1>5

Value(given, a, i) ==
    IF a.params[i].name \in DOMAIN given THEN given[a.params[i].name] ELSE <<>>

(* The handler of a declaration has these words, cut up as it says; what a *)
(* pattern was compiled to lets each value through.                        *)
GivenTo(given, words, a) ==
    /\ DOMAIN given \subseteq {a.params[i].name : i \in DOMAIN a.params}
    /\ a.params # <<>> =>
          FlattenSeq([i \in DOMAIN a.params |-> Value(given, a, i)]) = words
    /\ \A i \in DOMAIN a.params :
          /\ a.params[i].required => Value(given, a, i) # <<>>
          /\ Value(given, a, i) # <<>> =>
                \A S \in ToSet(Accepts(a.params[i].pattern)) : Value(given, a, i) \in S

(* Whoever may command finds the registry filled.                          *)
Surfaced == stage \in {"built", "serving", "up"} /\ commanders # {} => Registered

TypedOK ==
    job.kind = "command" =>
        /\ job.typed \in Typed /\ job.typed.words # <<>>
        /\ job.step \in {"asking", "said"} =>
              \A a \in Declaration : GivenTo(job.given, Tail(job.typed.words), a)

GInv == IInv /\ Surfaced /\ TypedOK

(* What passes Execute's checks is what was typed.                         *)
LEMMA AcceptedIsTyped ==
  ASSUME setting \in Setting, NEW a \in ToSet(setting.file), ActionOK(a),
         NEW X, NEW words \in Seq(X),
         NEW args, args = Arguments(AsAction(a).params, words),
         Acceptable(AsAction(a).params, args)
  PROVE  GivenTo(Kept(AsAction(a).params, args), words, a)
<1> DEFINE params == AsAction(a).params
           n == Len(a.params)
           given == Kept(params, args)
           val(i) == Value(given, a, i)
<1>1. n \in Nat /\ DOMAIN a.params = 1..n /\ (a.params # <<>> => n # 0)
  <2>1. a.params \in Seq(ToSet(a.params))
    BY WrittenAssumption
  <2> QED
    BY <2>1
<1>2. /\ params = [i \in 1..n |-> params[i]]
      /\ \A i \in 1..n : /\ params[i].name = a.params[i].name
                         /\ params[i].required = a.params[i].required
                         /\ params[i].accepts = Accepts(a.params[i].pattern)
  BY <1>1 DEF AsAction
<1> HIDE DEF params
<1>3. DOMAIN params = 1..n /\ Len(params) = n
  <2> HIDE DEF n
  <2> QED
    BY <1>1, <1>2
<1>4. \A i, j \in 1..n : params[i].name = params[j].name => i = j
  <2> SUFFICES ASSUME NEW i \in 1..n, NEW j \in 1..n, params[i].name = params[j].name PROVE i = j
    OBVIOUS
  <2>1. \A k, l \in DOMAIN a.params : k < l => a.params[k].name # a.params[l].name
    BY Zenon DEF ActionOK
  <2> HIDE DEF n
  <2>2. ~(i < j) /\ ~(j < i)
    BY <1>1, <1>2, <2>1
  <2> QED
    BY <1>1, <2>2
<1>5. given = Kept(params, Arguments(params, words))
  BY DEF params
<1> HIDE DEF given, n
<1>6. /\ Arguments(params, words) = given
      /\ DOMAIN given \subseteq {params[i].name : i \in 1..n}
      /\ \A i \in 1..n :
            /\ params[i].name \in DOMAIN given <=> i <= Len(words)
            /\ i <= Len(words) => given[params[i].name] = Share(words, n, i)
  BY <1>1, <1>3, <1>4, <1>5, GivenIs
<1>7. ASSUME NEW i \in 1..n
      PROVE  /\ val(i) = Share(words, n, i)
             /\ val(i) # <<>> <=> params[i].name \in DOMAIN given
             /\ val(i) # <<>> => val(i) = given[params[i].name]
  <2>1. params[i].name = a.params[i].name
    BY <1>2
  <2>2. CASE i <= Len(words)
    <3>1. Share(words, n, i) # <<>>
      <4>1. Len(SubSeq(words, i, Len(words))) > 0 /\ Len(<<words[i]>>) > 0
        BY <1>1, <2>2
      <4>2. Share(words, n, i) \in {SubSeq(words, i, Len(words)), <<words[i]>>}
        BY <2>2 DEF Share
      <4>3. Len(Share(words, n, i)) > 0
        BY <4>1, <4>2
      <4> QED
        BY <4>3
    <3> QED
      BY <1>6, <2>1, <2>2, <3>1 DEF Value
  <2>3. CASE ~(i <= Len(words))
    <3>1. Share(words, n, i) = <<>>
      BY <2>3 DEF Share
    <3> QED
      BY <1>6, <2>1, <2>3, <3>1 DEF Value
  <2> QED
    BY <2>2, <2>3
<1>8. a.params # <<>> => FlattenSeq([i \in DOMAIN a.params |-> val(i)]) = words
  <2> SUFFICES ASSUME a.params # <<>> PROVE FlattenSeq([i \in DOMAIN a.params |-> val(i)]) = words
    OBVIOUS
  <2>1. [i \in DOMAIN a.params |-> val(i)] = [i \in 1..n |-> Share(words, n, i)]
    <3> HIDE DEF val
    <3> QED
      BY <1>1, <1>7
  <2>2. n \in Nat \ {0}
    BY <1>1
  <2> QED
    BY <2>1, <2>2, SharesAreAll
<1>9. Acceptable(params, given)
  BY <1>6 DEF params
<1>10. ASSUME NEW i \in 1..n
       PROVE  /\ a.params[i].required => val(i) # <<>>
              /\ val(i) # <<>> => \A S \in ToSet(Accepts(a.params[i].pattern)) : val(i) \in S
  <2>1. IF params[i].name \in DOMAIN given THEN Passes(params[i], given[params[i].name])
        ELSE ~params[i].required
    BY <1>3, <1>9 DEF Acceptable
  <2> HIDE DEF val
  <2>2. val(i) # <<>> => \A S \in ToSet(params[i].accepts) : val(i) \in S
    BY <1>7, <2>1 DEF Passes
  <2>3. params[i].required => val(i) # <<>>
    BY <1>7, <2>1
  <2> QED
    BY <1>2, <2>2, <2>3
<1>11. DOMAIN given \subseteq {a.params[i].name : i \in DOMAIN a.params}
  BY <1>1, <1>2, <1>6
<1>12. GivenTo(given, words, a)
  BY <1>1, <1>8, <1>10, <1>11 DEF GivenTo
<1> QED
  BY <1>12 DEF given, params

LEMMA SurfacedStep == IInv /\ Surfaced /\ [Next]_vars => Surfaced'
<1> SUFFICES ASSUME IInv, Surfaced, [Next]_vars PROVE Surfaced'
  OBVIOUS
<1>1. ASSUME UNCHANGED <<setting, stage, commanders, actions>> PROVE Surfaced'
  BY <1>1 DEF Surfaced, Registered
<1>2. CASE Load \/ ResolveCommanders
  BY <1>2 DEF Load, ResolveCommanders, GoTo, Surfaced
<1>3. CASE BuildSurface
  BY <1>3 DEF BuildSurface, GoTo, Surfaced, Registered
<1>4. CASE Serve \/ ResolveGroup \/ GroupsUnlisted
  BY <1>4 DEF Serve, ResolveGroup, GroupsUnlisted, GoTo, Surfaced, Registered
<1>5. CASE \/ \E m \in Message : Send(m)
           \/ \E p \in Post : Hook(p)
           \/ Deliver \/ Execute \/ Redirected \/ Unanswered \/ Done
           \/ \E a \in Account, inGroup \in BOOLEAN, t \in Typed : Receive(a, inGroup, t)
           \/ \E answer \in Answer : Answered(answer)
           \/ UNCHANGED vars
  BY <1>1, <1>5 DEF Send, Hook, Deliver, Execute, Redirected, Unanswered, Done, Receive, Answered, vars
<1> QED
  BY <1>2, <1>3, <1>4, <1>5 DEF Next, StartUp

(* What Execute hands on, to whoever a declaration's action is.            *)
LEMMA HandedOn ==
  ASSUME GInv, Execute
  PROVE  /\ job'.typed = job.typed /\ Declaration' = Declaration
         /\ job'.step \in {"asking", "said"} =>
               \A a \in Declaration : GivenTo(job'.given, Tail(job.typed.words), a)
<1> DEFINE act == TheAction
           words == Tail(job.typed.words)
           args == Arguments(act.params, words)
           kept == Kept(act.params, args)
<1>1. /\ job.kind = "command" /\ job.step = "typed" /\ CommandOK /\ Started
      /\ UNCHANGED <<setting, stage, commanders, actions, groupID>>
  BY DEF Execute, GInv, IInv, JobInv
<1>2. job.typed \in Typed /\ job.typed.words # <<>>
  BY <1>1 DEF GInv, TypedOK
<1>3. PICK X : words \in Seq(X)
  <2> DEFINE line == job.typed.words
             W == ToSet(line)
  <2>1. line \in Seq(W) /\ line # <<>>
    BY <1>2, WrittenAssumption
  <2> HIDE DEF line, W
  <2>2. Tail(line) \in Seq(W)
    BY <2>1
  <2> QED
    BY <2>2 DEF line
<1>4. act.does.kind \in {"builtin", "reply", "request"}
  <2>1. Registered /\ act \in actions
    BY <1>1 DEF CommandOK, Started, Named, TheAction
  <2> QED
    BY <2>1 DEF Registered, Builtins, AsAction
<1>5. /\ job'.typed = job.typed
      /\ job'.step \in {"asking", "said"} => Acceptable(act.params, args) /\ job'.given = kept
  <2> DEFINE said(text) == [job EXCEPT !.step = "said", !.given = kept, !.text = text]
             asked(hops) == [job EXCEPT !.step = "asking", !.given = kept, !.hops = hops]
  <2>1. \/ Failed
        \/ Acceptable(act.params, args) /\ \E text : job' = said(text)
        \/ Acceptable(act.params, args) /\ \E hops : job' = asked(hops)
    <3>1. CASE ~Acceptable(act.params, args)
      BY <3>1 DEF Execute
    <3>2. CASE Acceptable(act.params, args) /\ act.does.kind = "builtin"
      BY <3>2 DEF Execute
    <3>3. CASE Acceptable(act.params, args) /\ act.does.kind = "reply"
      BY <3>3 DEF Execute
    <3>4. CASE Acceptable(act.params, args) /\ act.does.kind = "request"
      BY <3>4 DEF Execute
    <3> QED
      BY <1>4, <3>1, <3>2, <3>3, <3>4
  <2> HIDE DEF act, args, kept
  <2>2. CASE Failed
    BY <1>1, <2>2 DEF Failed, Reply, CommandOK, CommandFields
  <2>3. CASE Acceptable(act.params, args) /\ \E text : job' = said(text)
    BY <1>1, <2>3 DEF CommandOK, CommandFields
  <2>4. CASE Acceptable(act.params, args) /\ \E hops : job' = asked(hops)
    BY <1>1, <2>4 DEF CommandOK, CommandFields
  <2> QED
    BY <2>1, <2>2, <2>3, <2>4
<1>6. Declaration' = Declaration
  BY <1>1, <1>5 DEF Declaration
<1>7. ASSUME job'.step \in {"asking", "said"}, NEW a \in Declaration
      PROVE  GivenTo(job'.given, words, a)
  <2>1. act = AsAction(a)
    BY <1>1, TheDeclared DEF CommandOK
  <2>2. setting \in Setting /\ a \in ToSet(setting.file) /\ FileOK(setting.file)
    BY <1>1 DEF Declaration, CommandOK, Started, Registered, Named
  <2>3. ActionOK(a)
    BY <2>2 DEF FileOK, ToSet
  <2>4. Acceptable(act.params, args) /\ job'.given = kept
    BY <1>5, <1>7
  <2> DEFINE r == Arguments(AsAction(a).params, words)
  <2>5. Acceptable(AsAction(a).params, r) /\ job'.given = Kept(AsAction(a).params, r)
    BY <2>1, <2>4
  <2> HIDE DEF words
  <2>6. GivenTo(Kept(AsAction(a).params, r), words, a)
    BY <1>3, <2>2, <2>3, <2>5, AcceptedIsTyped
  <2> QED
    BY <2>5, <2>6
<1> QED
  BY <1>5, <1>6, <1>7

LEMMA TypedStep == GInv /\ [Next]_vars => TypedOK'
<1> SUFFICES ASSUME GInv, [Next]_vars PROVE TypedOK'
  OBVIOUS
<1>1. ASSUME job'.kind # "command" PROVE TypedOK'
  BY <1>1 DEF TypedOK
<1>2. ASSUME job.kind = "command", job'.typed = job.typed, UNCHANGED setting,
             job'.step \in {"asking", "said"} => job.step = "asking" /\ job'.given = job.given
      PROVE  TypedOK'
  <2>1. Declaration' = Declaration
    BY <1>2 DEF Declaration
  <2> QED
    BY <1>2, <2>1 DEF GInv, TypedOK, GivenTo, Value
<1>3. ASSUME UNCHANGED <<setting, job>> PROVE TypedOK'
  BY <1>3 DEF GInv, TypedOK, GivenTo, Value, Declaration
<1>4. CASE StartUp
  BY <1>3, <1>4 DEF StartUp, Load, ResolveCommanders, BuildSurface, Serve, ResolveGroup, GroupsUnlisted
<1>5. ASSUME NEW m \in Message, Send(m) PROVE TypedOK'
  BY <1>1, <1>5 DEF Send, Accepted
<1>6. ASSUME NEW p \in Post, Hook(p) PROVE TypedOK'
  BY <1>1, <1>6 DEF Hook, Accepted
<1>7. CASE Deliver
  <2>1. job'.kind = "message"
    BY <1>7 DEF Deliver, GInv, IInv, JobInv, MessageOK, MessageFields
  <2> QED
    BY <1>1, <2>1
<1>8. ASSUME NEW c \in Account, NEW inGroup \in BOOLEAN, NEW t \in Typed, Receive(c, inGroup, t)
      PROVE  TypedOK'
  <2>1. /\ stage = "up" /\ commanders # {} /\ t.words # <<>>
        /\ UNCHANGED <<setting, stage, commanders, actions, groupID>>
    BY <1>8 DEF Receive, MayCommand, Meant
  <2>2. /\ job'.typed = t /\ job'.step \in {"typed", "said"}
        /\ job'.step = "said" => Named(actions, NameOf(t)) = {}
    BY <1>8 DEF Receive, Command
  <2>3. ASSUME job'.step = "said" PROVE Declaration' = {}
    <3>1. Registered
      BY <2>1 DEF GInv, Surfaced
    <3>2. \A a \in ToSet(setting.file) : AsAction(a) \in actions /\ AsAction(a).name = a.name
      BY <3>1 DEF Registered, AsAction
    <3>3. \A a \in ToSet(setting.file) : a.name # NameOf(t)
      BY <2>2, <2>3, <3>2 DEF Named
    <3> QED
      BY <2>1, <2>2, <3>3 DEF Declaration
  <2> QED
    BY <2>1, <2>2, <2>3 DEF TypedOK
<1>9. CASE Execute
  <2>1. job.typed \in Typed /\ job.typed.words # <<>>
    BY <1>9 DEF Execute, GInv, TypedOK
  <2> QED
    BY <1>9, <2>1, HandedOn DEF TypedOK, GivenTo, Value
<1>10. CASE Redirected
  <2>1. /\ job.kind = "command" /\ job.step = "asking" /\ CommandOK /\ UNCHANGED setting
    BY <1>10 DEF Redirected, Asking, GInv, IInv, JobInv
  <2>2. PICK host, scheme :
            IF MayFollow(job.hops, host)
            THEN job' = [job EXCEPT !.hops = Append(@, [scheme |-> scheme, host |-> host])]
            ELSE Failed
    BY <1>10 DEF Redirected
  <2>3. job'.typed = job.typed /\ job'.given = job.given
    BY <2>1, <2>2 DEF Failed, Reply, CommandOK, CommandFields
  <2> QED
    BY <1>2, <2>1, <2>3
<1>11. CASE Unanswered \/ \E answer \in Answer : Answered(answer)
  <2>1. job.kind = "command" /\ job.step = "asking" /\ CommandOK /\ UNCHANGED setting
    BY <1>11 DEF Unanswered, Answered, Asking, GInv, IInv, JobInv
  <2>2. job'.typed = job.typed /\ job'.given = job.given
    BY <1>11, <2>1 DEF Unanswered, Answered, Failed, Reply, CommandOK, CommandFields
  <2> QED
    BY <1>2, <2>1, <2>2
<1>12. CASE Done
  BY <1>1, <1>12 DEF Done, Idle
<1>13. CASE UNCHANGED vars
  BY <1>3, <1>13 DEF vars
<1> QED
  BY <1>4, <1>5, <1>6, <1>7, <1>8, <1>9, <1>10, <1>11, <1>12, <1>13 DEF Next

LEMMA GInvHolds == Spec => []GInv
<1>1. Init => GInv
  BY DEF Init, Idle, GInv, IInv, Started, JobInv, Surfaced, TypedOK
<1>2. GInv /\ [Next]_vars => GInv'
  BY StartedStep, JobStep, SurfacedStep, TypedStep DEF GInv, IInv
<1> QED
  BY <1>1, <1>2, PTL DEF Spec

(* What the property says of a value and its pattern.                      *)
Matches(p, v) == v \in p.whole \/ (p.caret /\ p.dollar /\ v \in p.found)

(* What a declared action is given is what was typed, word for word and in *)
(* order, cut up as the file says, for any file, parameters and words      *)
(* (Interpret, Execute, validate); and a value matches its pattern from    *)
(* end to end, unless it begins and ends with an anchor as it is written:  *)
(* then the value is one the pattern is found in.                          *)
THEOREM WhatWasTypedIsSeen == Spec => []HandlerSeesWhatWasTyped
<1>1. GInv => HandlerSeesWhatWasTyped
  <2> SUFFICES ASSUME GInv, job.kind = "command", job.step \in {"asking", "said"},
                      NEW a \in Declaration
               PROVE  /\ DOMAIN job.given \subseteq {a.params[i].name : i \in DOMAIN a.params}
                      /\ a.params # <<>> =>
                            FlattenSeq([i \in DOMAIN a.params |-> Value(job.given, a, i)])
                                = Tail(job.typed.words)
                      /\ \A i \in DOMAIN a.params :
                            /\ a.params[i].required => Value(job.given, a, i) # <<>>
                            /\ Value(job.given, a, i) # <<>> /\ a.params[i].pattern # <<>> =>
                                  Matches(a.params[i].pattern[1], Value(job.given, a, i))
    BY Zenon DEF HandlerSeesWhatWasTyped, Value, Matches
  <2>1. GivenTo(job.given, Tail(job.typed.words), a)
    BY DEF GInv, TypedOK
  <2>2. ASSUME NEW i \in DOMAIN a.params, a.params[i].pattern # <<>>,
               NEW v, \A S \in ToSet(Accepts(a.params[i].pattern)) : v \in S
        PROVE  Matches(a.params[i].pattern[1], v)
    <3> DEFINE p == a.params[i].pattern
    <3>3. \A x : x \in ToSet(<<x>>)
      BY DEF ToSet
    <3>4. CASE p[1].caret /\ p[1].dollar
      <4>1. Accepts(p) = <<p[1].found>>
        BY <2>2, <3>4 DEF Accepts
      <4> QED
        BY <2>2, <3>3, <3>4, <4>1 DEF Matches
    <3>5. CASE ~(p[1].caret /\ p[1].dollar)
      <4>1. Accepts(p) = <<p[1].whole>>
        BY <2>2, <3>5 DEF Accepts
      <4> QED
        BY <2>2, <3>3, <4>1 DEF Matches
    <3> QED
      BY <3>4, <3>5
  <2> QED
    BY <2>1, <2>2 DEF GivenTo
<1> QED
  BY <1>1, GInvHolds, PTL

-----------------------------------------------------------------------------
(* The length of a text.                                                   *)

IsText(t) == t \in Seq(ToSet(t)) /\ \A i \in 1..Len(t) : t[i].size \in Nat

(* Of the subsets that are bad there is one with nothing bad inside it.   *)
LEMMA Smallest ==
  ASSUME NEW S, IsFiniteSet(S), NEW Bad \in SUBSET (SUBSET S), Bad # {}
  PROVE  \E T \in Bad : \A U \in Bad : U \subseteq T => U = T
<1>1. IsWellFoundedOn(StrictSubsetOrdering(S), SUBSET S)
  BY FS_StrictSubsetOrderingWellFounded, FS_FiniteSubsetsOfFinite
<1>2. PICK T \in Bad : \A U \in Bad : ~(<<U, T>> \in StrictSubsetOrdering(S))
  BY <1>1, WFMin
<1> QED
  BY <1>2 DEF StrictSubsetOrdering

Total(t) == FoldLeft(LAMBDA sum, line : sum + line.size, 0, t)

(* What the lines with these numbers take, as something to count.          *)
Rows(t, S) == UNION {{i} \X (1..t[i].size) : i \in S}

Bytes(t, n) == Cardinality(Rows(t, 1..n))

LEMMA RowsAdd ==
  ASSUME NEW t, NEW S, NEW x, x \notin S, t[x].size \in Nat, IsFiniteSet(Rows(t, S))
  PROVE  /\ IsFiniteSet(Rows(t, S \cup {x}))
         /\ Cardinality(Rows(t, S \cup {x})) = Cardinality(Rows(t, S)) + t[x].size
<1> DEFINE size == t[x].size
           Row == {x} \X (1..size)
           All == Rows(t, S)
           More == Rows(t, S \cup {x})
<1>1. More = All \cup Row /\ All \cap Row = {} /\ size \in Nat /\ IsFiniteSet(All)
  BY DEF Rows
<1> HIDE DEF size, All, More
<1>2. IsFiniteSet(1..size) /\ Cardinality(1..size) = size
  BY <1>1, FS_Interval
<1>3. IsFiniteSet({x}) /\ Cardinality({x}) = 1
  BY FS_Singleton
<1>4. IsFiniteSet(Row) /\ Cardinality(Row) = Cardinality({x}) * Cardinality(1..size)
  BY <1>2, <1>3, FS_Product
<1>5. Cardinality(Row) = size
  BY <1>1, <1>2, <1>3, <1>4
<1> HIDE DEF Row
<1>6. Cardinality(All \cap Row) = 0 /\ Cardinality(All) \in Nat
  BY <1>1, FS_EmptySet, FS_CardinalityType
<1>7. /\ IsFiniteSet(All \cup Row)
      /\ Cardinality(All \cup Row) = Cardinality(All) + Cardinality(Row) - Cardinality(All \cap Row)
  BY <1>1, <1>4, FS_Union, Zenon
<1>8. IsFiniteSet(More) /\ Cardinality(More) = Cardinality(All) + size
  BY <1>1, <1>5, <1>6, <1>7
<1> QED
  BY <1>8 DEF More, All, size

(* Line by line.                                                           *)
LEMMA BytesAre ==
  ASSUME NEW t, IsText(t)
  PROVE  /\ Bytes(t, 0) = 0
         /\ \A n \in 1..Len(t) : Bytes(t, n) = Bytes(t, n - 1) + t[n].size
         /\ \A n \in 0..Len(t) : Bytes(t, n) \in Nat /\ IsFiniteSet(Rows(t, 1..n))
<1>1. Rows(t, 1..0) = {} /\ Len(t) \in Nat
  BY DEF Rows, IsText
<1>2. Bytes(t, 0) = 0 /\ IsFiniteSet(Rows(t, 1..0))
  BY <1>1, FS_EmptySet DEF Bytes
<1>3. ASSUME NEW n \in 1..Len(t), IsFiniteSet(Rows(t, 1..(n - 1)))
      PROVE  IsFiniteSet(Rows(t, 1..n)) /\ Bytes(t, n) = Bytes(t, n - 1) + t[n].size
  <2>1. (1..(n - 1)) \cup {n} = 1..n /\ n \notin 1..(n - 1) /\ t[n].size \in Nat
    BY <1>1 DEF IsText
  <2> QED
    BY <1>3, <2>1, RowsAdd DEF Bytes
<1> DEFINE Bad == {n \in 0..Len(t) : ~IsFiniteSet(Rows(t, 1..n))}
<1>4. ASSUME Bad # {} PROVE FALSE
  <2>1. PICK n \in Bad : \A m \in Bad : n <= m
    <3>1. Bad \in SUBSET Nat
      BY <1>1
    <3> HIDE DEF Bad
    <3> QED
      BY <1>4, <3>1, Least
  <2>2. n \in 1..Len(t) /\ n - 1 \in 0..Len(t)
    BY <1>1, <1>2, <2>1
  <2>3. n - 1 \notin Bad
    <3> HIDE DEF Bad
    <3> QED
      BY <2>1, <2>2
  <2> QED
    BY <1>3, <2>1, <2>2, <2>3
<1>5. \A n \in 0..Len(t) : IsFiniteSet(Rows(t, 1..n))
  BY <1>4
<1>6. \A n \in 1..Len(t) : n - 1 \in 0..Len(t)
  BY <1>1
<1> QED
  BY <1>2, <1>3, <1>5, <1>6, FS_CardinalityType DEF Bytes

(* The same lines take the same.                                           *)
LEMMA BytesSame ==
  ASSUME NEW t, NEW u, NEW n \in Nat, \A i \in 1..n : t[i] = u[i]
  PROVE  Bytes(t, n) = Bytes(u, n)
<1>1. Rows(t, 1..n) = Rows(u, 1..n)
  BY DEF Rows
<1> QED
  BY <1>1 DEF Bytes

(* A set of numbers with a bound has a greatest.                           *)
LEMMA Greatest ==
  ASSUME NEW n \in Nat, NEW s \in SUBSET (1..n), s # {}
  PROVE  Max(s) \in s
<1> DEFINE Above == {m \in Nat : \A x \in s : x <= m}
<1>1. PICK m \in Above : \A k \in Above : m <= k
  <2>1. n \in Above /\ Above \in SUBSET Nat
    OBVIOUS
  <2> HIDE DEF Above
  <2> QED
    BY <2>1, Least
<1>2. m \in s
  <2> SUFFICES ASSUME m \notin s PROVE FALSE
    OBVIOUS
  <2>1. m - 1 \in Above
    <3>1. m \in Nat /\ \A x \in s : x \in 1..n /\ x <= m /\ x # m
      BY <1>1
    <3>2. PICK x : x \in s
      OBVIOUS
    <3>3. m - 1 \in Nat /\ \A y \in s : y <= m - 1
      BY <3>1, <3>2
    <3> QED
      BY <3>3
  <2> HIDE DEF Above
  <2>2. m <= m - 1
    BY <1>1, <2>1
  <2> QED
    BY <1>1, <2>2 DEF Above
<1>3. \E x \in s : \A y \in s : x >= y
  BY <1>1, <1>2
<1> QED
  BY <1>3 DEF Max

(* What the library's fold computes: the count of the rows solves its      *)
(* equation, and of two solutions one that differs soonest has one line    *)
(* fewer where they do not.                                                *)
LEMMA FoldIsBytes ==
  ASSUME NEW t, IsText(t)
  PROVE  Total(t) = Bytes(t, Len(t))
<1> DEFINE S == 1..Len(t)
           Eq(g) == g = [s \in SUBSET S |-> IF s = {} THEN 0 ELSE g[s \ {Max(s)}] + t[Max(s)].size]
           iter == CHOOSE g : Eq(g)
           Count == [s \in SUBSET S |-> Cardinality(Rows(t, s))]
<1>1. DOMAIN t = S /\ Len(t) \in Nat
  BY DEF IsText
<1>2. Total(t) = iter[S]
  BY <1>1 DEF Total, FoldLeft, MapThenFoldSet
<1>3. ASSUME NEW s \in SUBSET S, s # {}
      PROVE  /\ s \ {Max(s)} \in SUBSET S
             /\ Cardinality(Rows(t, s)) = Cardinality(Rows(t, s \ {Max(s)})) + t[Max(s)].size
  <2>1. Max(s) \in s
    BY <1>1, <1>3, Greatest
  <2> DEFINE x == Max(s)
             rest == s \ {x}
  <2>2. rest \cup {x} = s /\ x \notin rest /\ t[x].size \in Nat
    BY <2>1 DEF IsText
  <2>3. IsFiniteSet(Rows(t, rest))
    <3>1. Rows(t, rest) \in SUBSET Rows(t, 1..Len(t))
      BY DEF Rows
    <3>2. IsFiniteSet(Rows(t, 1..Len(t)))
      BY <1>1, BytesAre
    <3> QED
      BY <3>1, <3>2, FS_Subset
  <2> HIDE DEF x, rest
  <2>4. Cardinality(Rows(t, rest \cup {x})) = Cardinality(Rows(t, rest)) + t[x].size
    BY <2>2, <2>3, RowsAdd
  <2> QED
    BY <2>2, <2>4 DEF x, rest
<1>4. Cardinality(Rows(t, {})) = 0
  BY FS_EmptySet DEF Rows
<1>5. Eq(Count)
  <2>1. ASSUME NEW s \in SUBSET S
        PROVE  Count[s] = IF s = {} THEN 0 ELSE Count[s \ {Max(s)}] + t[Max(s)].size
    BY <1>3, <1>4
  <2> HIDE DEF Count
  <2>2. Count = [s \in SUBSET S |-> Count[s]]
    BY DEF Count
  <2> QED
    BY <2>1, <2>2
<1>6. Eq(iter)
  <2> HIDE DEF Eq
  <2> QED
    BY <1>5
<1>7. \A s \in SUBSET S : iter[s] = Count[s]
  <2> DEFINE Bad == {s \in SUBSET S : iter[s] # Count[s]}
  <2> SUFFICES ASSUME Bad # {} PROVE FALSE
    OBVIOUS
  <2>1. PICK s \in Bad : \A u \in Bad : u \subseteq s => u = s
    <3>1. Bad \in SUBSET (SUBSET S) /\ IsFiniteSet(S)
      BY <1>1, FS_Interval
    <3> HIDE DEF Bad, S
    <3> QED
      BY <3>1, Smallest
  <2> HIDE DEF iter
  <2>2. iter[s] = IF s = {} THEN 0 ELSE iter[s \ {Max(s)}] + t[Max(s)].size
    BY <1>6, <2>1
  <2>3. Count[s] = IF s = {} THEN 0 ELSE Count[s \ {Max(s)}] + t[Max(s)].size
    BY <1>5, <2>1
  <2>4. s # {} /\ iter[s] # Count[s] /\ s \in SUBSET S
    BY <2>1, <2>2, <2>3
  <2>5. Max(s) \in s /\ s \ {Max(s)} \in SUBSET S
    BY <1>1, <2>4, Greatest
  <2>6. iter[s \ {Max(s)}] = Count[s \ {Max(s)}]
    <3> HIDE DEF Count, S
    <3> QED
      BY <2>1, <2>5
  <2> HIDE DEF Count
  <2> QED
    BY <2>2, <2>3, <2>4, <2>6
<1>8. iter[S] = Bytes(t, Len(t))
  <2> HIDE DEF iter
  <2> QED
    BY <1>7 DEF Bytes
<1> QED
  BY <1>2, <1>8
LEMMA Part ==
  ASSUME NEW t, IsText(t), NEW n \in 0..Len(t)
  PROVE  /\ IsText(SubSeq(t, 1, n)) /\ Len(SubSeq(t, 1, n)) = n
         /\ \A i \in 1..n : SubSeq(t, 1, n)[i] = t[i]
<1> DEFINE X == ToSet(t)
           u == SubSeq(t, 1, n)
<1> HIDE DEF X
<1>1. t \in Seq(X) /\ \A i \in 1..Len(t) : t[i].size \in Nat
  BY DEF IsText, X
<1>2. Len(u) = n /\ u \in Seq(X) /\ \A i \in 1..n : u[i] = t[i] /\ i \in 1..Len(t)
  BY <1>1
<1> HIDE DEF u
<1>3. \A i \in DOMAIN u : u[i] \in ToSet(u)
  BY DEF ToSet
<1>4. u \in Seq(ToSet(u))
  BY <1>2, <1>3
<1> QED
  BY <1>1, <1>2, <1>4 DEF IsText, u

LEMMA CharsAre ==
  ASSUME NEW t, IsText(t), NEW n \in 0..Len(t)
  PROVE  /\ Chars(t, n) = Bytes(t, n) + (IF n = 0 THEN 0 ELSE n - 1)
         /\ Chars(t, n) \in Nat /\ Bytes(t, n) \in Nat
<1> DEFINE u == SubSeq(t, 1, n)
<1>1. Chars(t, n) = Total(u) + (IF n = 0 THEN 0 ELSE n - 1)
  BY DEF Chars, Total
<1>2. IsText(u) /\ Len(u) = n /\ \A i \in 1..n : u[i] = t[i]
  BY Part
<1>3. n \in Nat /\ Bytes(t, n) \in Nat
  BY BytesAre DEF IsText
<1> HIDE DEF u
<1>4. Total(u) = Bytes(t, n)
  BY <1>2, <1>3, FoldIsBytes, BytesSame
<1> QED
  BY <1>1, <1>3, <1>4

IsJoined(c, a, b) == c = a \o b

(* One text after another.                                                 *)
LEMMA JoinedText ==
  ASSUME NEW a, IsText(a), NEW b, IsText(b), NEW c, IsJoined(c, a, b)
  PROVE  /\ IsText(c) /\ Len(c) = Len(a) + Len(b)
         /\ \A i \in 1..Len(a) : c[i] = a[i]
         /\ \A i \in 1..Len(b) : c[Len(a) + i] = b[i]
         /\ Bytes(c, Len(c)) = Bytes(a, Len(a)) + Bytes(b, Len(b))
<1> DEFINE X == ToSet(a) \cup ToSet(b)
           m == Len(a)
<1>1. /\ a \in Seq(X) /\ b \in Seq(X)
      /\ \A i \in 1..m : a[i].size \in Nat
      /\ \A i \in 1..Len(b) : b[i].size \in Nat
  <2>1. a \in Seq(ToSet(a)) /\ b \in Seq(ToSet(b))
    BY DEF IsText
  <2> DEFINE A == ToSet(a)
             B == ToSet(b)
  <2> HIDE DEF A, B
  <2>2. a \in Seq(A \cup B) /\ b \in Seq(A \cup B)
    BY <2>1 DEF A, B
  <2> QED
    BY <2>2 DEF A, B, IsText
<1> HIDE DEF X
<1>2. /\ c \in Seq(X) /\ Len(c) = m + Len(b) /\ m \in Nat /\ Len(b) \in Nat
      /\ \A i \in 1..m : c[i] = a[i]
      /\ \A i \in 1..Len(b) : c[m + i] = b[i]
  BY <1>1 DEF IsJoined
<1> HIDE DEF m
<1>3. IsText(c)
  <2>1. \A i \in DOMAIN c : c[i] \in ToSet(c)
    BY DEF ToSet
  <2>2. c \in Seq(ToSet(c))
    BY <1>2, <2>1
  <2>3. ASSUME NEW i \in 1..Len(c) PROVE c[i].size \in Nat
    <3>1. CASE i <= m
      BY <1>1, <1>2, <3>1
    <3>2. CASE ~(i <= m)
      <4>1. i - m \in 1..Len(b) /\ m + (i - m) = i
        BY <1>2, <3>2
      <4> QED
        BY <1>1, <1>2, <4>1
    <3> QED
      BY <3>1, <3>2
  <2> QED
    BY <2>2, <2>3 DEF IsText
<1>4. Bytes(c, m) = Bytes(a, m) /\ Bytes(a, m) \in Nat
  BY <1>2, BytesSame, BytesAre DEF m
<1> DEFINE Bad == {k \in 0..Len(b) : Bytes(c, m + k) # Bytes(a, m) + Bytes(b, k)}
<1>5. ASSUME Bad # {} PROVE FALSE
  <2>1. PICK k \in Bad : \A j \in Bad : k <= j
    <3>1. Bad \in SUBSET Nat
      BY <1>2
    <3> HIDE DEF Bad
    <3> QED
      BY <1>5, <3>1, Least
  <2>2. k # 0
    BY <1>2, <1>4, <2>1, BytesAre
  <2>3. k \in 1..Len(b) /\ k - 1 \in 0..Len(b) /\ k - 1 \notin Bad
    <3>1. k \in 0..Len(b)
      BY <2>1
    <3> HIDE DEF Bad
    <3> QED
      BY <1>2, <2>1, <2>2, <3>1
  <2>4. Bytes(c, m + (k - 1)) = Bytes(a, m) + Bytes(b, k - 1)
    BY <2>3
  <2>5. /\ Bytes(c, m + k) = Bytes(c, (m + k) - 1) + c[m + k].size
        /\ Bytes(b, k) = Bytes(b, k - 1) + b[k].size
        /\ Bytes(b, k - 1) \in Nat /\ b[k].size \in Nat
    <3>1. m + k \in 1..Len(c)
      BY <1>2, <2>3
    <3>2. Bytes(c, m + k) = Bytes(c, (m + k) - 1) + c[m + k].size
      BY <1>3, <3>1, BytesAre
    <3>3. k \in 1..Len(b) /\ k - 1 \in 0..Len(b)
      BY <2>3
    <3>4. Bytes(b, k) = Bytes(b, k - 1) + b[k].size /\ Bytes(b, k - 1) \in Nat
      BY <3>3, BytesAre
    <3> QED
      BY <1>1, <3>2, <3>3, <3>4
  <2>6. (m + k) - 1 = m + (k - 1) /\ c[m + k] = b[k]
    BY <1>2, <2>3
  <2>7. Bytes(c, m + k) # Bytes(a, m) + Bytes(b, k)
    BY <2>1
  <2> QED
    BY <1>4, <2>4, <2>5, <2>6, <2>7
<1>6. Bytes(c, m + Len(b)) = Bytes(a, m) + Bytes(b, Len(b))
  <2>1. Len(b) \in 0..Len(b)
    BY <1>2
  <2> QED
    BY <1>5, <2>1
<1> QED
  BY <1>2, <1>3, <1>6 DEF m
LEMMA SizeIs ==
  ASSUME NEW t, IsText(t)
  PROVE  /\ Size(t) = Bytes(t, Len(t)) + (IF Len(t) = 0 THEN 0 ELSE Len(t) - 1)
         /\ Size(t) \in Nat /\ Bytes(t, Len(t)) \in Nat
<1>1. Len(t) \in 0..Len(t)
  BY DEF IsText
<1> QED
  BY <1>1, CharsAre DEF Size

LEMMA OneLine ==
  ASSUME NEW x, x.size \in Nat
  PROVE  IsText(<<x>>) /\ Size(<<x>>) = x.size /\ Says(<<x>>, x.says)
<1>1. Len(<<x>>) = 1 /\ <<x>>[1] = x /\ DOMAIN <<x>> = 1..1
  OBVIOUS
<1>2. x \in ToSet(<<x>>)
  BY <1>1 DEF ToSet
<1>3. IsText(<<x>>)
  BY <1>1, <1>2 DEF IsText
<1>4. Bytes(<<x>>, 1) = Bytes(<<x>>, 0) + x.size /\ Bytes(<<x>>, 0) = 0
  <2>1. 1 - 1 = 0 /\ 1 \in 1..Len(<<x>>)
    BY <1>1
  <2> QED
    BY <1>1, <1>3, <2>1, BytesAre
<1>5. Size(<<x>>) = x.size
  <2>1. Size(<<x>>) = Bytes(<<x>>, Len(<<x>>)) + (IF Len(<<x>>) = 0 THEN 0 ELSE Len(<<x>>) - 1)
    BY <1>3, SizeIs
  <2> DEFINE one == <<x>>
             all == x.size
  <2>2. Size(one) = Bytes(one, Len(one)) + (IF Len(one) = 0 THEN 0 ELSE Len(one) - 1)
    BY <2>1
  <2>3. Len(one) = 1 /\ Bytes(one, 1) = Bytes(one, 0) + all /\ Bytes(one, 0) = 0 /\ all \in Nat
    BY <1>1, <1>4
  <2> HIDE DEF one, all
  <2>4. Size(one) = all
    BY <2>2, <2>3
  <2> QED
    BY <2>4 DEF one, all
<1> QED
  BY <1>1, <1>3, <1>5 DEF Says

LEMMA Kind ==
  ASSUME NEW n \in Nat, NEW what
  PROVE  Line(n, what).size = n /\ Line(n, what).says = what
BY DEF Line

LEMMA NoText == IsText(<<>>) /\ Size(<<>>) = 0
<1>1. Len(<<>>) = 0 /\ <<>> \in Seq(ToSet(<<>>))
  OBVIOUS
<1>2. IsText(<<>>)
  BY <1>1 DEF IsText
<1> QED
  BY <1>1, <1>2, SizeIs, BytesAre

(* A block under another has what both of them have, and their length.     *)
LEMMA UnderHasBoth ==
  ASSUME NEW a, IsText(a), NEW b, IsText(b)
  PROVE  /\ IsText(Under(a, b))
         /\ Size(Under(a, b)) >= Size(a) /\ Size(Under(a, b)) >= Size(b)
         /\ \A what : Says(a, what) \/ Says(b, what) => Says(Under(a, b), what)
<1>1. \A what : ~Says(<<>>, what)
  BY DEF Says
<1>2. Size(a) \in Nat /\ Size(b) \in Nat
  BY SizeIs
<1>3. CASE a = <<>> \/ b = <<>>
  BY <1>1, <1>2, <1>3, NoText DEF Under
<1>4. CASE a # <<>> /\ b # <<>>
  <2> DEFINE gap == <<Blank>>
             top == a \o gap
             all == top \o b
  <2>1. Under(a, b) = all
    BY <1>4 DEF Under
  <2>2. Blank.size = 0
    <3>1. 0 \in Nat
      OBVIOUS
    <3> QED
      BY <3>1, Kind, Zenon DEF Blank
  <2>3. IsText(gap) /\ Len(gap) = 1 /\ Size(gap) = 0
    <3>1. Blank.size \in Nat
      BY <2>2
    <3>2. IsText(gap) /\ Size(gap) = 0
      BY <2>2, <3>1, OneLine
    <3> DEFINE x == Blank
    <3> HIDE DEF x
    <3>3. Len(<<x>>) = 1
      OBVIOUS
    <3> QED
      BY <3>2, <3>3 DEF x
  <2> HIDE DEF gap
  <2>4. /\ IsText(top) /\ Len(top) = Len(a) + 1
        /\ \A i \in 1..Len(a) : top[i] = a[i]
        /\ Bytes(top, Len(top)) = Bytes(a, Len(a)) + Bytes(gap, Len(gap))
    <3>1. IsJoined(top, a, gap)
      BY DEF IsJoined
    <3> HIDE DEF top
    <3>2. IsText(gap)
      BY <2>3
    <3>3. /\ IsText(top) /\ Len(top) = Len(a) + Len(gap)
          /\ \A i \in 1..Len(a) : top[i] = a[i]
          /\ \A i \in 1..Len(gap) : top[Len(a) + i] = gap[i]
          /\ Bytes(top, Len(top)) = Bytes(a, Len(a)) + Bytes(gap, Len(gap))
      BY <3>1, <3>2, JoinedText
    <3> QED
      BY <2>3, <3>3
  <2> HIDE DEF top
  <2>5. /\ IsText(all) /\ Len(all) = Len(top) + Len(b)
        /\ \A i \in 1..Len(top) : all[i] = top[i]
        /\ \A i \in 1..Len(b) : all[Len(top) + i] = b[i]
        /\ Bytes(all, Len(all)) = Bytes(top, Len(top)) + Bytes(b, Len(b))
    <3>1. IsJoined(all, top, b)
      BY DEF IsJoined
    <3> HIDE DEF all
    <3> QED
      BY <2>4, <3>1, JoinedText
  <2> HIDE DEF all
  <2>6. Len(a) \in Nat \ {0} /\ Len(b) \in Nat \ {0}
    BY <1>4 DEF IsText
  <2>7. Bytes(gap, Len(gap)) = 0
    BY <2>3, SizeIs
  <2>8. Size(all) >= Size(a) /\ Size(all) >= Size(b)
    <3>1. /\ Size(a) = Bytes(a, Len(a)) + (Len(a) - 1) /\ Bytes(a, Len(a)) \in Nat
          /\ Size(b) = Bytes(b, Len(b)) + (Len(b) - 1) /\ Bytes(b, Len(b)) \in Nat
      BY <2>6, SizeIs
    <3>2. Len(all) # 0 /\ Size(all) = Bytes(all, Len(all)) + (Len(all) - 1)
      <4>1. Size(all) = Bytes(all, Len(all)) + (IF Len(all) = 0 THEN 0 ELSE Len(all) - 1)
        BY <2>5, SizeIs
      <4>2. Len(all) # 0
        BY <2>4, <2>5, <2>6
      <4> QED
        BY <4>1, <4>2
    <3> QED
      BY <2>4, <2>5, <2>6, <2>7, <3>1, <3>2
  <2>9. ASSUME NEW what, Says(a, what) \/ Says(b, what) PROVE Says(all, what)
    <3>1. DOMAIN a = 1..Len(a) /\ DOMAIN b = 1..Len(b) /\ DOMAIN all = 1..Len(all)
      BY <2>5 DEF IsText
    <3>2. CASE Says(a, what)
      <4>1. PICK i \in 1..Len(a) : a[i].says = what
        BY <3>1, <3>2 DEF Says
      <4>2. i \in 1..Len(top) /\ i \in 1..Len(all) /\ all[i] = a[i]
        BY <2>4, <2>5, <2>6
      <4> QED
        BY <3>1, <4>1, <4>2 DEF Says
    <3>3. CASE Says(b, what)
      <4>1. PICK i \in 1..Len(b) : b[i].says = what
        BY <3>1, <3>3 DEF Says
      <4>2. Len(top) + i \in 1..Len(all) /\ all[Len(top) + i] = b[i]
        BY <2>4, <2>5, <2>6
      <4> QED
        BY <3>1, <4>1, <4>2 DEF Says
    <3> QED
      BY <2>9, <3>2, <3>3
  <2> QED
    BY <2>1, <2>5, <2>8, <2>9
<1> QED
  BY <1>3, <1>4
LEMMA FirstBytesAreText ==
  ASSUME NEW t, IsText(t), NEW max \in Nat
  PROVE  IsText(FirstBytes(t, max))
<1> DEFINE Fit(n) == /\ Chars(t, n) <= max
                     /\ n = Len(t) \/ Chars(t, n + 1) > max
           fits == CHOOSE n \in 0..Len(t) : Fit(n)
           room == max - Chars(t, fits) - (IF fits = 0 THEN 0 ELSE 1)
           top == SubSeq(t, 1, fits)
           rest == IF room > 0 THEN <<Line(room, "part")>> ELSE <<>>
           all == top \o rest
<1>1. Len(t) \in Nat /\ Chars(t, 0) = 0 /\ \A n \in 0..Len(t) : Chars(t, n) \in Nat
  <2>1. Len(t) \in Nat /\ 0 \in 0..Len(t)
    BY DEF IsText
  <2> QED
    BY <2>1, CharsAre, BytesAre
<1>2. \E n \in 0..Len(t) : Fit(n)
  <2> DEFINE Enough == {n \in 0..Len(t) : n = Len(t) \/ Chars(t, n + 1) > max}
  <2>1. PICK n \in Enough : \A m \in Enough : n <= m
    <3>1. Len(t) \in Enough /\ Enough \in SUBSET Nat
      BY <1>1
    <3> HIDE DEF Enough
    <3> QED
      BY <3>1, Least
  <2>2. n \in 0..Len(t) /\ (n = Len(t) \/ Chars(t, n + 1) > max)
    BY <2>1
  <2>3. CASE n = 0
    BY <1>1, <2>2, <2>3
  <2>4. CASE n # 0
    <3>1. n - 1 \in 0..Len(t) /\ n - 1 # Len(t) /\ (n - 1) + 1 = n /\ ~(n <= n - 1)
      BY <1>1, <2>2, <2>4
    <3>2. n - 1 \notin Enough
      <4> HIDE DEF Enough
      <4> QED
        BY <2>1, <3>1
    <3>3. ~(Chars(t, n) > max)
      BY <3>1, <3>2
    <3>4. Chars(t, n) <= max
      BY <1>1, <2>2, <3>3
    <3> QED
      BY <2>2, <3>4
  <2> QED
    BY <2>3, <2>4
<1>3. fits \in 0..Len(t)
  <2> HIDE DEF Fit
  <2> QED
    BY <1>2
<1>4. FirstBytes(t, max) = all
  BY DEF FirstBytes
<1> HIDE DEF fits
<1>5. IsText(top)
  BY <1>3, Part
<1>6. room \in Int
  BY <1>1, <1>3
<1> HIDE DEF room, top
<1>7. IsText(rest)
  <2>1. CASE room > 0
    <3>1. room \in Nat
      BY <1>6, <2>1
    <3>2. IsText(<<Line(room, "part")>>)
      BY <3>1, Kind, OneLine
    <3> QED
      BY <2>1, <3>2
  <2>2. CASE ~(room > 0)
    BY <2>2, NoText
  <2> QED
    BY <2>1, <2>2
<1>8. IsJoined(all, top, rest)
  BY DEF IsJoined
<1> HIDE DEF all, rest
<1> QED
  BY <1>4, <1>5, <1>7, <1>8, JoinedText

LEMMA CutIsText == IsText(CutShort) /\ Says(CutShort, "cut")
<1>1. Line(1, "cut").size \in Nat /\ Line(1, "cut").says = "cut"
  BY Kind
<1> QED
  BY <1>1, OneLine DEF CutShort

(* What is trimmed is all there is, or says that it is not.                *)
LEMMA TrimSays ==
  ASSUME NEW t, IsText(t)
  PROVE  /\ IsText(TrimToChatSize(t))
         /\ Says(TrimToChatSize(t), "cut") \/ TrimToChatSize(t) = t
         /\ Len(t) <= MaxLines /\ Size(t) <= MaxChars => TrimToChatSize(t) = t
<1> DEFINE lines == IF Len(t) > MaxLines THEN SubSeq(t, 1, MaxLines) ELSE t
<1>1. MaxLines \in Nat \ {0} /\ MaxChars \in Nat \ {0} /\ Len(t) \in Nat
  BY RoutingAssumption DEF IsText
<1>2. IsText(lines) /\ (Len(t) <= MaxLines => lines = t)
  <2>1. CASE Len(t) > MaxLines
    <3>1. MaxLines \in 0..Len(t)
      BY <1>1, <2>1
    <3>2. IsText(SubSeq(t, 1, MaxLines))
      BY <3>1, Part
    <3> QED
      BY <1>1, <2>1, <3>2
  <2>2. CASE ~(Len(t) > MaxLines)
    BY <2>2
  <2> QED
    BY <2>1, <2>2
<1>3. TrimToChatSize(t) = IF Size(lines) > MaxChars THEN Under(FirstBytes(lines, MaxChars), CutShort)
                          ELSE IF lines # t THEN Under(lines, CutShort)
                          ELSE t
  BY DEF TrimToChatSize, Size
<1> HIDE DEF lines
<1>4. Size(t) \in Nat
  BY SizeIs
<1>5. CASE Size(lines) > MaxChars
  <2>1. IsText(FirstBytes(lines, MaxChars))
    BY <1>1, <1>2, FirstBytesAreText
  <2> DEFINE first == FirstBytes(lines, MaxChars)
  <2> HIDE DEF first
  <2>2. IsText(Under(first, CutShort)) /\ Says(Under(first, CutShort), "cut")
    BY <2>1, CutIsText, UnderHasBoth DEF first
  <2>3. ~(Len(t) <= MaxLines /\ Size(t) <= MaxChars)
    BY <1>1, <1>2, <1>4, <1>5
  <2> QED
    BY <1>3, <1>5, <2>2, <2>3 DEF first
<1>6. CASE ~(Size(lines) > MaxChars) /\ lines # t
  BY <1>2, <1>3, <1>6, CutIsText, UnderHasBoth
<1>7. CASE ~(Size(lines) > MaxChars) /\ lines = t
  BY <1>3, <1>7
<1> QED
  BY <1>5, <1>6, <1>7

(* Of a list, all entries are there, or it says how many more there are.   *)
LEMMA EntriesSay ==
  ASSUME NEW t, IsText(t)
  PROVE  /\ IsText(Entries(t))
         /\ Says(Entries(t), "more") \/ Size(Entries(t)) >= Size(t)
         /\ Len(t) > ListCap =>
               /\ Says(Entries(t), "more") /\ Len(Entries(t)) <= MaxLines
               /\ Chars(t, ListCap) + 2 <= MaxChars => Size(Entries(t)) <= MaxChars
<1>1. MaxLines \in Nat \ {0} /\ MaxChars \in Nat \ {0} /\ Len(t) \in Nat /\ ListCap = MaxLines - 1
  BY RoutingAssumption DEF IsText, ListCap
<1>2. Size(t) \in Nat
  BY SizeIs
<1>3. CASE t = <<>>
  <2>1. Line(1, "text").size \in Nat
    BY Kind
  <2>2. IsText(<<Line(1, "text")>>) /\ Size(<<Line(1, "text")>>) \in Nat
    BY <2>1, OneLine, SizeIs
  <2>3. Entries(t) = <<Line(1, "text")>> /\ Len(t) = 0 /\ Size(t) = 0
    BY <1>3, NoText DEF Entries
  <2> QED
    BY <1>1, <2>2, <2>3
<1>4. CASE t # <<>> /\ Len(t) > ListCap
  <2> DEFINE top == SubSeq(t, 1, ListCap)
             more == <<Line(1, "more")>>
             all == top \o more
  <2>1. Entries(t) = all /\ ListCap \in 0..Len(t)
    BY <1>1, <1>4 DEF Entries
  <2>2. IsText(top) /\ Len(top) = ListCap /\ \A i \in 1..ListCap : top[i] = t[i]
    BY <2>1, Part
  <2>3. IsText(more) /\ Size(more) = 1 /\ Says(more, "more")
    <3>1. Line(1, "more").size = 1 /\ Line(1, "more").says = "more"
      BY Kind
    <3> QED
      BY <3>1, OneLine
  <2>4. Len(more) = 1
    OBVIOUS
  <2>5. IsJoined(all, top, more)
    BY DEF IsJoined
  <2> HIDE DEF top, more, all
  <2>6. /\ IsText(all) /\ Len(all) = Len(top) + Len(more)
        /\ \A i \in 1..Len(top) : all[i] = top[i]
        /\ \A i \in 1..Len(more) : all[Len(top) + i] = more[i]
        /\ Bytes(all, Len(all)) = Bytes(top, Len(top)) + Bytes(more, Len(more))
    BY <2>2, <2>3, <2>5, JoinedText
  <2>7. Len(all) = MaxLines
    BY <1>1, <2>2, <2>4, <2>6
  <2>8. Says(all, "more")
    <3>1. PICK i \in DOMAIN more : more[i].says = "more"
      BY <2>3 DEF Says
    <3>2. i \in 1..Len(more)
      BY <2>3 DEF IsText
    <3>3. all[Len(top) + i] = more[i] /\ Len(top) + i \in 1..Len(all)
      BY <1>1, <2>2, <2>4, <2>6, <3>2
    <3>4. DOMAIN all = 1..Len(all)
      BY <2>6 DEF IsText
    <3> QED
      BY <3>1, <3>3, <3>4 DEF Says
  <2>9. Chars(t, ListCap) + 2 <= MaxChars => Size(all) <= MaxChars
    <3>1. Bytes(top, ListCap) = Bytes(t, ListCap)
      BY <1>1, <2>1, <2>2, BytesSame
    <3>2. Chars(t, ListCap) = Bytes(t, ListCap) + (IF ListCap = 0 THEN 0 ELSE ListCap - 1)
          /\ Bytes(t, ListCap) \in Nat
      BY <2>1, CharsAre
    <3>3. Size(all) = Bytes(all, Len(all)) + (IF Len(all) = 0 THEN 0 ELSE Len(all) - 1)
      BY <2>6, SizeIs
    <3>4. Bytes(more, Len(more)) = 1
      <4>1. /\ Size(more) = Bytes(more, Len(more)) + (IF Len(more) = 0 THEN 0 ELSE Len(more) - 1)
            /\ Bytes(more, Len(more)) \in Nat
        BY <2>3, SizeIs
      <4> QED
        BY <2>3, <2>4, <4>1
    <3>5. Bytes(all, Len(all)) = Bytes(t, ListCap) + 1
      BY <2>2, <2>6, <3>1, <3>4
    <3>6. Size(all) = Bytes(t, ListCap) + 1 + (MaxLines - 1)
      BY <1>1, <2>7, <3>2, <3>3, <3>5
    <3> QED
      BY <1>1, <3>2, <3>6
  <2> QED
    BY <1>1, <2>1, <2>6, <2>7, <2>8, <2>9
<1>5. CASE t # <<>> /\ ~(Len(t) > ListCap)
  <2>1. Entries(t) = t
    BY <1>5 DEF Entries
  <2> QED
    BY <1>2, <1>5, <2>1
<1> QED
  BY <1>3, <1>4, <1>5

(* The action's name takes nothing away from the answer.                   *)
LEMMA FrameSays ==
  ASSUME NEW t, IsText(t), NEW what, what # "text"
  PROVE  /\ IsText(Frame(t)) /\ Size(Frame(t)) >= Size(t)
         /\ Says(t, what) => Says(Frame(t), what)
<1>1. Size(t) \in Nat /\ Len(t) \in Nat /\ DOMAIN t = 1..Len(t)
  BY SizeIs DEF IsText
<1>2. IsText(<<Line(1, "name")>>) /\ Size(<<Line(1, "name")>>) = 1
  <2>1. Line(1, "name").size = 1
    BY Kind
  <2> QED
    BY <2>1, OneLine
<1>3. CASE t = <<>>
  <2>1. Frame(t) = <<Line(1, "name")>> /\ Size(t) = 0 /\ ~Says(t, what)
    BY <1>3, NoText DEF Frame, Says
  <2> QED
    BY <1>2, <2>1
<1>4. CASE t # <<>> /\ Len(t) = 1
  <2> DEFINE says == IF t[1].says = "text" THEN "name" ELSE t[1].says
             x == Line(t[1].size + 1, says)
  <2>1. Frame(t) = <<x>>
    BY <1>4 DEF Frame
  <2>2. t[1].size \in Nat /\ x.size = t[1].size + 1 /\ x.says = says
    <3>1. t[1].size \in Nat
      BY <1>4 DEF IsText
    <3>2. t[1].size + 1 \in Nat
      BY <3>1
    <3> HIDE DEF says
    <3> QED
      BY <3>1, <3>2, Kind
  <2> HIDE DEF x
  <2>3. Size(t) = t[1].size
    <3>1. 1 \in 1..Len(t) /\ 1 - 1 = 0
      BY <1>4
    <3>2. Bytes(t, 1) = Bytes(t, 0) + t[1].size /\ Bytes(t, 0) = 0
      BY <3>1, BytesAre
    <3>3. Size(t) = Bytes(t, Len(t)) + (IF Len(t) = 0 THEN 0 ELSE Len(t) - 1)
      BY SizeIs
    <3> QED
      BY <1>4, <2>2, <3>2, <3>3
  <2>4. IsText(<<x>>) /\ Size(<<x>>) = x.size /\ Says(<<x>>, x.says)
    <3>1. x.size \in Nat
      BY <2>2
    <3> QED
      BY <3>1, OneLine
  <2>5. Says(t, what) => x.says = what
    <3>1. Says(t, what) => t[1].says = what
      BY <1>1, <1>4 DEF Says
    <3> QED
      BY <2>2, <3>1
  <2> QED
    BY <2>1, <2>2, <2>3, <2>4, <2>5
<1>5. CASE t # <<>> /\ Len(t) # 1
  <2>1. Frame(t) = Under(<<Line(1, "name")>>, t)
    BY <1>5 DEF Frame
  <2> DEFINE name == <<Line(1, "name")>>
  <2> HIDE DEF name
  <2>2. /\ IsText(Under(name, t)) /\ Size(Under(name, t)) >= Size(t)
        /\ Says(t, what) => Says(Under(name, t), what)
    BY <1>2, UnderHasBoth DEF name
  <2> QED
    BY <2>1, <2>2 DEF name
<1> QED
  BY <1>3, <1>4, <1>5
LEMMA WrittenIsText == ASSUME NEW t \in Text PROVE IsText(t)
<1> DEFINE Lines == [size : Nat, says : STRING]
<1>1. t \in Seq(Lines)
  BY DEF Text
<1>2. \A i \in 1..Len(t) : t[i].size \in Nat
  <2>1. \A x \in Lines : x.size \in Nat
    OBVIOUS
  <2> HIDE DEF Lines
  <2>2. \A i \in 1..Len(t) : t[i] \in Lines
    BY <1>1
  <2> QED
    BY <2>1, <2>2
<1> HIDE DEF Lines
<1>3. \A i \in DOMAIN t : t[i] \in ToSet(t)
  BY DEF ToSet
<1>4. t \in Seq(ToSet(t))
  BY <1>1, <1>3
<1> QED
  BY <1>2, <1>4 DEF IsText

(* What a chat is sent of a message.                                       *)
LEMMA RenderSays ==
  ASSUME NEW m, m.title \in Nat, IsText(m.text), IsFiniteSet(DOMAIN m.labels),
         NEW late \in BOOLEAN
  PROVE  /\ late => Says(Render(m, late), "late")
         /\ Says(Render(m, late), "cut") \/ Size(Render(m, late)) >= Size(m.text)
<1> DEFINE shown == DOMAIN m.labels \cap {"severity", "source"}
           rest == DOMAIN m.labels \ {"severity", "source"}
           headline == IF m.title = 0 /\ shown = {} THEN <<>>
                       ELSE <<Line(m.title + Cardinality(shown), "text")>>
           others == IF rest = {} THEN <<>> ELSE <<Line(Cardinality(rest), "labels")>>
           note == IF late THEN <<Line(1, "late")>> ELSE <<>>
           whole == Under(Under(headline, m.text), others)
           trimmed == TrimToChatSize(whole)
<1>1. Render(m, late) = Under(trimmed, note)
  BY DEF Render
<1>2. IsText(headline)
  <2>1. IsFiniteSet(shown)
    BY FS_Intersection
  <2>2. Cardinality(shown) \in Nat
    BY <2>1, FS_CardinalityType
  <2> HIDE DEF shown
  <2>3. m.title + Cardinality(shown) \in Nat
    BY <2>2
  <2>4. IsText(<<Line(m.title + Cardinality(shown), "text")>>)
    BY <2>3, Kind, OneLine
  <2> QED
    BY <2>4, NoText
<1>3. IsText(others)
  <2>1. IsFiniteSet(rest)
    BY FS_Difference
  <2> HIDE DEF rest
  <2>2. Cardinality(rest) \in Nat
    BY <2>1, FS_CardinalityType
  <2>3. IsText(<<Line(Cardinality(rest), "labels")>>)
    BY <2>2, Kind, OneLine
  <2> QED
    BY <2>3, NoText
<1>4. IsText(note) /\ (late => Says(note, "late"))
  <2>1. Line(1, "late").size \in Nat /\ Line(1, "late").says = "late"
    BY Kind
  <2> QED
    BY <2>1, OneLine, NoText
<1> HIDE DEF headline, others, note
<1> DEFINE upper == Under(headline, m.text)
           body == m.text
<1>5. IsText(upper) /\ Size(upper) >= Size(body) /\ IsText(body)
  BY <1>2, UnderHasBoth
<1>6. IsText(whole) /\ Size(whole) >= Size(upper)
  <2> HIDE DEF upper
  <2> QED
    BY <1>3, <1>5, UnderHasBoth DEF upper
<1> HIDE DEF whole, upper, body
<1>7. IsText(trimmed) /\ (Says(trimmed, "cut") \/ trimmed = whole)
  BY <1>6, TrimSays
<1> HIDE DEF trimmed
<1>8. /\ IsText(Under(trimmed, note)) /\ Size(Under(trimmed, note)) >= Size(trimmed)
      /\ Says(note, "late") => Says(Under(trimmed, note), "late")
      /\ Says(trimmed, "cut") => Says(Under(trimmed, note), "cut")
  BY <1>4, <1>7, UnderHasBoth
<1>9. Size(body) \in Nat /\ Size(upper) \in Nat /\ Size(whole) \in Nat /\ Size(Under(trimmed, note)) \in Nat
  BY <1>5, <1>6, <1>8, SizeIs
<1>10. Says(Under(trimmed, note), "cut") \/ Size(Under(trimmed, note)) >= Size(body)
  BY <1>5, <1>6, <1>7, <1>8, <1>9
<1> QED
  BY <1>1, <1>4, <1>8, <1>10 DEF body

(* What a chat is told of an answer.                                       *)
LEMMA AnswerSays ==
  ASSUME NEW a, IsText(a.lines)
  PROVE  LET said == Frame(Body(a))
             all == a.lines
             listed == a.media = "json" /\ a.list
         IN  /\ Says(said, "cut") \/ Says(said, "more") \/ Size(said) >= Size(all)
             /\ (listed /\ Len(all) > ListCap /\ Chars(all, ListCap) + 2 <= MaxChars) =>
                   Says(said, "more")
<1> DEFINE all == a.lines
           listed == a.media = "json" /\ a.list
           shown == IF listed THEN Entries(all) ELSE all
           body == TrimToChatSize(shown)
           said == Frame(Body(a))
<1>1. said = Frame(body) /\ IsText(all)
  BY DEF Body
<1> HIDE DEF all, said
<1>2. IsText(shown) /\ (Says(shown, "more") \/ Size(shown) >= Size(all))
  <2>1. Size(all) \in Nat
    BY <1>1, SizeIs
  <2> QED
    BY <1>1, <2>1, EntriesSay
<1>3. listed /\ Len(all) > ListCap =>
          /\ Says(shown, "more") /\ Len(shown) <= MaxLines
          /\ Chars(all, ListCap) + 2 <= MaxChars => Size(shown) <= MaxChars
  BY <1>1, EntriesSay
<1> HIDE DEF shown
<1>4. /\ IsText(body) /\ (Says(body, "cut") \/ body = shown)
      /\ Len(shown) <= MaxLines /\ Size(shown) <= MaxChars => body = shown
  BY <1>2, TrimSays
<1> HIDE DEF body
<1>5. /\ IsText(said) /\ Size(said) >= Size(body)
      /\ Says(body, "cut") => Says(said, "cut")
      /\ Says(body, "more") => Says(said, "more")
  BY <1>1, <1>4, FrameSays
<1>6. Size(said) \in Nat /\ Size(body) \in Nat /\ Size(shown) \in Nat /\ Size(all) \in Nat
  BY <1>1, <1>2, <1>4, <1>5, SizeIs
<1> HIDE DEF listed
<1>7. Says(said, "cut") \/ Says(said, "more") \/ Size(said) >= Size(all)
  <2>1. CASE Says(body, "cut") \/ Says(shown, "more")
    BY <1>4, <1>5, <2>1
  <2>2. CASE ~Says(body, "cut") /\ ~Says(shown, "more")
    <3>1. Size(said) >= Size(shown) /\ Size(shown) >= Size(all)
      BY <1>2, <1>4, <1>5, <2>2
    <3> QED
      BY <1>6, <3>1
  <2> QED
    BY <2>1, <2>2
<1>8. (listed /\ Len(all) > ListCap /\ Chars(all, ListCap) + 2 <= MaxChars) => Says(said, "more")
  BY <1>3, <1>4, <1>5
<1> QED
  BY <1>7, <1>8 DEF all, listed, said

-----------------------------------------------------------------------------
(* What reaches a chat.                                                    *)

MessageTexts ==
    job.kind = "message" =>
        /\ job.message.title \in Nat /\ IsText(job.message.text)
        /\ IsFiniteSet(DOMAIN job.message.labels)
        /\ job.step = "delivered" =>
              /\ job.late => Says(job.text, "late")
              /\ Says(job.text, "cut") \/ Size(job.text) >= Size(job.message.text)

AnswerTexts ==
    job.kind = "command" =>
        /\ job.step \in {"typed", "asking"} => job.answer = <<>>
        /\ job.answer # <<>> =>
              \E a \in Answer : job.answer = <<a>> /\ job.text = Frame(Body(a))

CutInv == IInv /\ MessageTexts /\ AnswerTexts

LEMMA AcceptedText ==
  ASSUME NEW m, DOMAIN m = {"title", "text", "labels", "route"}, m.title \in Nat,
         m.text \in Text, IsFiniteSet(DOMAIN m.labels), NEW note \in BOOLEAN,
         job' = Accepted(m, note)
  PROVE  MessageTexts' /\ AnswerTexts'
<1> DEFINE n == job.message
           line == <<Line(1, "note")>>
<1>1. /\ job'.kind = "message" /\ job'.step # "delivered"
      /\ n' = IF note THEN [m EXCEPT !.text = m.text \o line] ELSE m
  BY DEF Accepted
<1>2. IsText(m.text)
  BY WrittenIsText
<1>3. IsText(m.text \o line)
  <2>1. Line(1, "note").size \in Nat
    BY Kind
  <2>2. IsText(line) /\ IsJoined(m.text \o line, m.text, line)
    BY <2>1, OneLine DEF IsJoined
  <2> HIDE DEF line
  <2> QED
    BY <1>2, <2>2, JoinedText
<1> HIDE DEF line
<1>4. n'.title = m.title /\ n'.labels = m.labels /\ n'.text \in {m.text, m.text \o line}
  BY <1>1
<1>5. IsText(n'.text)
  BY <1>2, <1>3, <1>4
<1> QED
  BY <1>1, <1>4, <1>5 DEF MessageTexts, AnswerTexts

LEMMA CutStep == CutInv /\ [Next]_vars => MessageTexts' /\ AnswerTexts'
<1> SUFFICES ASSUME CutInv, [Next]_vars PROVE MessageTexts' /\ AnswerTexts'
  OBVIOUS
<1>1. ASSUME UNCHANGED job PROVE MessageTexts' /\ AnswerTexts'
  BY <1>1 DEF CutInv, MessageTexts, AnswerTexts
<1>2. CASE StartUp
  BY <1>1, <1>2 DEF StartUp, Load, ResolveCommanders, BuildSurface, Serve, ResolveGroup, GroupsUnlisted
<1>3. ASSUME NEW m \in Message, Send(m) PROVE MessageTexts' /\ AnswerTexts'
  <2>1. /\ DOMAIN m = {"title", "text", "labels", "route"} /\ m.title \in Nat
        /\ m.text \in Text /\ IsFiniteSet(DOMAIN m.labels)
    BY WrittenAssumption
  <2>2. PICK note \in BOOLEAN : job' = Accepted(m, note)
    BY <1>3 DEF Send
  <2> QED
    BY <2>1, <2>2, AcceptedText
<1>4. ASSUME NEW p \in Post, Hook(p) PROVE MessageTexts' /\ AnswerTexts'
  <2> DEFINE labels == LabelsFrom(p.pairs)
             m == [title |-> p.title, text |-> p.text, labels |-> labels, route |-> p.route]
  <2>1. p.title \in Nat /\ p.text \in Text /\ p.pairs \in Seq(ToSet(p.pairs))
    BY WrittenAssumption
  <2>2. IsFiniteSet(DOMAIN labels)
    <3> DEFINE n == Len(p.pairs)
               key == [i \in 1..n |-> p.pairs[i].key]
               Keys == {p.pairs[i].key : i \in 1..n}
    <3>1. DOMAIN p.pairs = 1..n /\ n \in Nat
      BY <2>1
    <3>2. DOMAIN labels = Keys
      BY <3>1 DEF LabelsFrom
    <3> HIDE DEF n
    <3>3. key \in Surjection(1..n, Keys)
      BY DEF Surjection
    <3>4. IsFiniteSet(1..n)
      BY <3>1, FS_Interval
    <3> HIDE DEF key, Keys
    <3>5. IsFiniteSet(Keys)
      BY <3>3, <3>4, FS_Surjection
    <3> QED
      BY <3>2, <3>5
  <2>3. PICK note \in BOOLEAN : job' = Accepted(m, note)
    BY <1>4 DEF Hook
  <2> HIDE DEF labels
  <2>4. DOMAIN m = {"title", "text", "labels", "route"} /\ m.title = p.title /\ m.text = p.text
        /\ m.labels = labels
    OBVIOUS
  <2> HIDE DEF m
  <2> QED
    BY <2>1, <2>2, <2>3, <2>4, AcceptedText
<1>5. CASE Deliver
  <2>1. job.kind = "message" /\ DOMAIN job = MessageFields
    BY <1>5 DEF Deliver, CutInv, IInv, JobInv, MessageOK
  <2>2. PICK late \in BOOLEAN :
            job' = [job EXCEPT !.step = "delivered", !.late = late, !.text = Render(job.message, late)]
    BY <1>5 DEF Deliver
  <2> DEFINE m == job.message
  <2>3. /\ job'.kind = "message" /\ job'.message = m /\ job'.late = late
        /\ job'.text = Render(m, late)
    BY <2>1, <2>2 DEF MessageFields
  <2>4. m.title \in Nat /\ IsText(m.text) /\ IsFiniteSet(DOMAIN m.labels)
    BY <2>1 DEF CutInv, MessageTexts
  <2> HIDE DEF m
  <2>5. /\ late => Says(Render(m, late), "late")
        /\ Says(Render(m, late), "cut") \/ Size(Render(m, late)) >= Size(m.text)
    BY <2>4, RenderSays
  <2> QED
    BY <2>3, <2>4, <2>5 DEF MessageTexts, AnswerTexts
<1>6. ASSUME NEW c \in Account, NEW inGroup \in BOOLEAN, NEW t \in Typed, Receive(c, inGroup, t)
      PROVE  MessageTexts' /\ AnswerTexts'
  <2>1. job'.kind = "command" /\ job'.answer = <<>>
    BY <1>6 DEF Receive, Command
  <2> QED
    BY <2>1 DEF MessageTexts, AnswerTexts
<1>7. ASSUME job'.kind = "command", job'.answer = <<>> PROVE MessageTexts' /\ AnswerTexts'
  BY <1>7 DEF MessageTexts, AnswerTexts
<1>8. CASE Execute
  <2>1. job.kind = "command" /\ job.answer = <<>> /\ CommandOK
    BY <1>8 DEF Execute, CutInv, AnswerTexts, IInv, JobInv
  <2>2. job'.answer = job.answer
    BY <1>8, ExecuteStep DEF CutInv
  <2>3. job'.kind = "command"
    BY <1>8, ExecuteStep DEF CutInv
  <2> QED
    BY <1>7, <2>1, <2>2, <2>3
<1>9. CASE Redirected
  <2>1. /\ job.kind = "command" /\ job.step = "asking" /\ CommandOK /\ job.answer = <<>>
    BY <1>9 DEF Redirected, Asking, CutInv, AnswerTexts, IInv, JobInv
  <2>2. PICK host, scheme :
            IF MayFollow(job.hops, host)
            THEN job' = [job EXCEPT !.hops = Append(@, [scheme |-> scheme, host |-> host])]
            ELSE Failed
    BY <1>9 DEF Redirected
  <2>3. job'.kind = "command" /\ job'.answer = job.answer
    BY <2>1, <2>2 DEF Failed, Reply, CommandOK, CommandFields
  <2> QED
    BY <1>7, <2>1, <2>3
<1>10. CASE Unanswered
  <2>1. job.kind = "command" /\ job.step = "asking" /\ CommandOK /\ job.answer = <<>>
    BY <1>10 DEF Unanswered, Asking, CutInv, AnswerTexts, IInv, JobInv
  <2>2. job'.kind = "command" /\ job'.answer = job.answer
    BY <1>10, <2>1 DEF Unanswered, Failed, Reply, CommandOK, CommandFields
  <2> QED
    BY <1>7, <2>1, <2>2
<1>11. ASSUME NEW answer \in Answer, Answered(answer) PROVE MessageTexts' /\ AnswerTexts'
  <2>1. job.kind = "command" /\ job.step = "asking" /\ CommandOK /\ job.answer = <<>>
    BY <1>11 DEF Answered, Asking, CutInv, AnswerTexts, IInv, JobInv
  <2>2. CASE Failed
    <3>1. job'.kind = "command" /\ job'.answer = job.answer
      BY <2>1, <2>2 DEF Failed, Reply, CommandOK, CommandFields
    <3> QED
      BY <1>7, <2>1, <3>1
  <2>3. CASE job' = [job EXCEPT !.step = "said", !.answer = <<answer>>, !.text = Frame(Body(answer))]
    <3>1. /\ job'.kind = "command" /\ job'.step = "said" /\ job'.answer = <<answer>>
          /\ job'.text = Frame(Body(answer))
      BY <2>1, <2>3 DEF CommandOK, CommandFields
    <3> QED
      BY <3>1 DEF MessageTexts, AnswerTexts
  <2> QED
    BY <1>11, <2>2, <2>3 DEF Answered
<1>12. CASE Done
  BY <1>12 DEF Done, Idle, MessageTexts, AnswerTexts
<1>13. CASE UNCHANGED vars
  BY <1>1, <1>13 DEF vars
<1> QED
  BY <1>2, <1>3, <1>4, <1>5, <1>6, <1>8, <1>9, <1>10, <1>11, <1>12, <1>13 DEF Next

LEMMA CutInvHolds == Spec => []CutInv
<1>1. Init => CutInv
  BY DEF Init, Idle, CutInv, IInv, Started, JobInv, MessageTexts, AnswerTexts
<1>2. CutInv /\ [Next]_vars => CutInv'
  BY StartedStep, JobStep, CutStep DEF CutInv, IInv
<1> QED
  BY <1>1, <1>2, PTL DEF Spec

(* What is cut short, left out or late says so in the chat, whatever the   *)
(* texts, the labels, the answers and the limits are (TrimToChatSize,      *)
(* Render, renderValue, frame).                                            *)
THEOREM WhatIsCutSaysSo == Spec => []CutIsSaid
<1>1. CutInv => CutIsSaid
  <2> SUFFICES ASSUME CutInv PROVE CutIsSaid
    OBVIOUS
  <2>1. ASSUME job.kind = "message", job.step = "delivered"
        PROVE  /\ job.late => Says(job.text, "late")
               /\ Says(job.text, "cut") \/ Size(job.text) >= Size(job.message.text)
    BY <2>1 DEF CutInv, MessageTexts
  <2>2. ASSUME job.kind = "command", job.answer # <<>>
        PROVE  LET all == job.answer[1].lines
                   listed == job.answer[1].media = "json" /\ job.answer[1].list
               IN  /\ Says(job.text, "cut") \/ Says(job.text, "more") \/ Size(job.text) >= Size(all)
                   /\ (listed /\ Len(all) > ListCap /\ Chars(all, ListCap) + 2 <= MaxChars) =>
                         Says(job.text, "more")
    <3>1. PICK a \in Answer : job.answer = <<a>> /\ job.text = Frame(Body(a))
      BY <2>2 DEF CutInv, AnswerTexts
    <3>2. IsText(a.lines)
      BY WrittenAssumption, WrittenIsText
    <3>3. job.answer[1] = a
      BY <3>1
    <3> QED
      BY <3>1, <3>2, <3>3, AnswerSays, Zenon
  <2> QED
    BY <2>1, <2>2 DEF CutIsSaid
<1> QED
  BY <1>1, CutInvHolds, PTL
=============================================================================
