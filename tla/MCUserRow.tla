----------------------------- MODULE MCUserRow -----------------------------
(* Instances of UserRow for TLC. *)
EXTENDS UserRowLedger, TLC

\* What is gained by one lesson buys one ware, and two freezes.
Prices == [i \in Wares |-> IF i = Freeze THEN 1 ELSE 2]

UpAndDown == {-1, 2}

BansByRecord == {"xp", "lingots", "ban", "unban", "reset", "lesson", "buy",
               "unlock", "learning", "settings", "register", "delete", "touch",
               "profile", "boot", "quest"}

Everything == BansByRecord \cup {"status"}

Workers == Permutations(Worker)
=============================================================================
