----------------------------- MODULE Addresses -----------------------------
(***************************************************************************)
(* The bot's own rules about configured addresses                          *)
(* (internal/config/address.go).  An id is a sequence that begins with its *)
(* version marker; a configured one may be a prefix of the id it means.    *)
(* Spelling is address.Parse's, which is external: an entry it refuses has *)
(* the empty id here.                                                      *)
(***************************************************************************)
EXTENDS Naturals, Sequences, SequencesExt

CONSTANTS
    Letter,         \* what ids are written with
    Full,           \* the length of a whole id
    AccountMark,
    GroupMark,
    HostOf          \* the host a server part leads to, whatever its scheme; no
                    \* part at all, which is "", leads to the bot's own server

ASSUME AddressesAssumption ==
    /\ Full \in Nat \ {0}
    /\ AccountMark # GroupMark

(* Normalize accepts it: there is nothing left to complete.                *)
Whole(id) == Len(id) = Full

IsAccount(id) == id # <<>> /\ Head(id) = AccountMark
IsGroup(id) == id # <<>> /\ Head(id) = GroupMark

(* SameServer: the host as it is written, without its scheme.  It does not *)
(* know which host is the bot's own, so no server part is like none but    *)
(* another missing one.                                                    *)
SameServer(v, w) == (v = "") = (w = "") /\ HostOf[v] = HostOf[w]

(* Bug for the checks: ids are compared as they are written.               *)
MutSameRecipient(a, b) == SameServer(a.server, b.server) /\ a.id = b.id

SameRecipient(a, b) ==
    /\ SameServer(a.server, b.server)
    /\ IsPrefix(a.id, b.id) \/ IsPrefix(b.id, a.id)

(* A list of accounts is taken whole or refused: every entry names one,    *)
(* and no two are the same recipient.                                      *)
AccountsOK(list) ==
    /\ \A i \in DOMAIN list : IsAccount(list[i].id)
    /\ \A i, j \in DOMAIN list : i < j => ~SameRecipient(list[i], list[j])

(* A group has no server part that matters, and may be left out.           *)
GroupOK(id) == id = <<>> \/ IsGroup(id)
=============================================================================
