---------------------------- MODULE UserRowLedger ----------------------------
(***************************************************************************)
(* The account a user row and a settings item stand for, and the claim     *)
(* that one worker that does not die serves it as Ledger says.             *)
(***************************************************************************)
EXTENDS UserRow

\* A missing row stands for an account with nothing in it.
Holder == IF row = None THEN Placeholder ELSE row

\* A purchase counts as delivered from the put of the row on, a freeze as spent
\* and the settings as deleted when the row is put or deleted.
Goods ==
    IF \E w \in Worker : At(w, "deleteSettings") THEN NoSettings
    ELSE IF \E w \in Worker : call[w].ware # None
                              /\ call[w].pc \in {"mergeSettings", "putSettings"}
    THEN LET w == CHOOSE v \in Worker : call[v].ware # None
         IN  Merge(settings, call[w].update)
    ELSE IF \E w \in Worker : At(w, "put") /\ call[w].ware = None
                              /\ call[w].update # None
    THEN [settings EXCEPT !.freezes = @ + 1]
    ELSE settings

Account == INSTANCE Ledger WITH
    known <- row # None, registered <- Holder.registered,
    banned <- Holder.status = "banned",
    xp <- Holder.xp, lingots <- Holder.lingots,
    owned <- Goods.owned, freezes <- Goods.freezes, unlocked <- Goods.unlocked

(* Requests served one after the other, each to its end, take effect one   *)
(* by one and whole, though a purchase, a bridged lesson and a deletion    *)
(* write two items and every put rewrites all the fields of its item: each *)
(* changes what it is about and loses nothing of the rest.                 *)
ServedInOrder == Account!Spec

=============================================================================
