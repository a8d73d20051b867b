------------------------------ MODULE Commands ------------------------------
(***************************************************************************)
(* From a line of chat to an action with its parameters: who may command   *)
(* (internal/authz), the parser (internal/command) and the registry with   *)
(* its built-in actions (internal/action).                                 *)
(*                                                                         *)
(* A value is a sequence of words, typed with spaces between them.  A      *)
(* registry is a set of actions [name, params, does], a parameter is       *)
(* [name, required, accepts], and accepts holds the set of values that     *)
(* pass its validator, where it has one.                                   *)
(***************************************************************************)
EXTENDS Routing

NoParams == [p \in {} |-> <<>>]

Named(registry, name) == {a \in registry : a.name = name}

(* RegisterBuiltins: status and the lists are always lent by the daemon,   *)
(* and the jokes are not empty where they could be loaded.                 *)
Builtins ==
    {[name |-> n, params |-> <<>>, does |-> [kind |-> "builtin"]] :
        n \in {"help", "ping", "status", "listrecipients", "routes", "joke"}}

(* Policy.MayCommand: the exact id, and in a group only where that was     *)
(* allowed.                                                                *)
MayCommand(commanders, allowGroup, sender, inGroup) ==
    /\ commanders # {}
    /\ inGroup => allowGroup
    /\ sender \in commanders

-----------------------------------------------------------------------------
(* Interpret.                                                              *)

(* Only an explicit slash means the bot in a group.                        *)
Meant(typed, inGroup) == typed.words # <<>> /\ (inGroup => typed.slash)

NameOf(typed) == Lower[Head(typed.words)]

(* A word for each parameter, in order, while there are any; the last      *)
(* parameter takes all that is left.                                       *)
Arguments(params, words) ==
    LET given == {i \in 1..Len(params) : i <= Len(words)}
        At(p) == CHOOSE i \in given : params[i].name = p
    IN  [p \in {params[i].name : i \in given} |->
            IF At(p) = Len(params) THEN SubSeq(words, At(p), Len(words)) ELSE <<words[At(p)]>>]

-----------------------------------------------------------------------------
(* Execute.                                                                *)

Passes(param, value) == \A S \in ToSet(param.accepts) : value \in S

(* What is required is given, and what is given passes.                    *)
Acceptable(params, given) ==
    \A i \in DOMAIN params :
        LET p == params[i]
        IN  IF p.name \in DOMAIN given THEN Passes(p, given[p.name]) ELSE ~p.required

(* The handler is handed what the specification names, and nothing else.   *)
Kept(params, given) ==
    [p \in DOMAIN given \cap {params[i].name : i \in DOMAIN params} |-> given[p]]
=============================================================================
