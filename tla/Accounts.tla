------------------------------ MODULE Accounts ------------------------------
(***************************************************************************)
(* How an identity comes to an account: by its first request, which makes  *)
(* a placeholder; by its registration, which claims the placeholder; until *)
(* the account is deleted.  Each process remembers for a while which       *)
(* account an identity has.                                                *)
(***************************************************************************)
EXTENDS Table

CONSTANTS
    Identity,  \* subjects of the tokens
    Name       \* user names one can ask for

VARIABLES
    cache,  \* the account of an identity, by worker: _user_id_cache
    raced   \* history: the identities that registered, edited or deleted their
            \* account while another of their requests was served

accountsVars == <<tableVars, cache, raced>>

-----------------------------------------------------------------------------
(* Items.  A placeholder's id is derived from the identity, every other id *)
(* is drawn.                                                               *)

NoAccount == <<"none", 0>>
Provisional(s) == <<"provisional", s>>
Drawn(w) == <<"uuid", call[w].id>>

AccountIds == {Provisional(s) : s \in Identity} \cup {<<"uuid", n>> : n \in 1..MaxRequests}

Account(id) == <<"USER", id>>
UserSettings(id) == <<"SETTINGS", id>>

Placeholder(s) == [sub |-> s, name |-> <<"user", s>>, registered |-> FALSE]

Accounts == {id \in AccountIds : Has(Account(id))}
AccountsOf(s) == {id \in Accounts : items[Account(id)].sub = s}
AccountsNamed(n) == {id \in Accounts : items[Account(id)].name = n}

\* A query of an index with Limit=1.
OneOf(ids) == IF ids = {} THEN {NoAccount} ELSE ids

\* What requests are about.
Self(s) == <<"self", s>>
UserName(n) == <<"name", n>>

AccountArg(w, i) == call[w].arg[i]
Caller(w) == AccountArg(w, 1)
Wanted(w) == AccountArg(w, 2)   \* the name asked for, or {} for none
Resolved(w) == AccountArg(w, 3)
RowRead(w) == AccountArg(w, 4)

\* Two requests of the identity are being served, and one does more than touch.
Races(s) ==
    \E v, w \in Worker :
        /\ v # w
        /\ Self(s) \in call'[v].on \cap call'[w].on
        /\ call'[v].op # "touch"

Remember(w, s, id) == cache' = [cache EXCEPT ![w][s] = id]

-----------------------------------------------------------------------------
(* Who calls: get_registered_user, in every request but a registration.    *)

\* Any request that leaves the account alone; it may save settings.
TouchAccount(w, s) == Begin(w, "touch", {Self(s)}, <<s, {}>>, "resolve")

\* PATCH /me with a name, or with something else.
UpdateMe(w, s, n) == Begin(w, "edit", {Self(s), UserName(n)}, <<s, {n}>>, "resolve")
UpdateBio(w, s) == Begin(w, "edit", {Self(s)}, <<s, {}>>, "resolve")

DeleteMe(w, s) == Begin(w, "leave", {Self(s)}, <<s, {}>>, "resolve")

Calls(w, at) == \E op \in {"touch", "edit", "leave"} : At(w, op, at)

\* From the cache, or from the table and then into the cache.
ResolveUserId(w) ==
    LET s == Caller(w)
    IN  /\ Calls(w, "resolve")
        /\ IF cache[w][s] # NoAccount
           THEN Keep(w, cache[w][s], "serve") /\ UNCHANGED cache
           ELSE \E id \in OneOf(AccountsOf(s)) :
                  IF id # NoAccount
                  THEN Keep(w, id, "serve") /\ Remember(w, s, id)
                  ELSE Goto(w, "provision") /\ UNCHANGED cache

\* Mutant: the placeholder has an id of its own.
DrawnForPlaceholder(w, s) == Drawn(w)

ProvisionalUserId(w, s) == Provisional(s)

\* The placeholder is made, or the one another request has made is fetched.
ProvisionUser(w) ==
    LET s == Caller(w)
        id == ProvisionalUserId(w, s)
    IN  \/ /\ Calls(w, "provision")
           /\ IF Has(Account(id))
              THEN Goto(w, "fetch") /\ UNCHANGED cache
              ELSE /\ items' = After(PutNew(Account(id), Placeholder(s)))
                   /\ call' = [call EXCEPT ![w].arg = Append(@, id), ![w].at = "serve"]
                   /\ UNCHANGED <<requests, crashes, shared, torn>>
                   /\ Remember(w, s, id)
        \/ /\ Calls(w, "fetch")
           /\ IF Has(Account(id))
              THEN Keep(w, id, "serve") /\ Remember(w, s, id)
              ELSE Answer(w) /\ UNCHANGED cache

\* The entry is older than _USER_ID_CACHE_TTL_SEC, or the process is a new one.
ForgetUserId(w, s) ==
    /\ ~Busy(w)
    /\ cache[w][s] # NoAccount
    /\ Remember(w, s, NoAccount)
    /\ UNCHANGED tableVars

SaveSettings(w) ==
    /\ At(w, "touch", "serve")
    /\ Plan(w, <<{Put(UserSettings(Resolved(w)), TRUE)}>>) \/ Answer(w)
    /\ UNCHANGED cache

-----------------------------------------------------------------------------
(* Names.                                                                  *)

\* Mutant: who claims a placeholder is not asked whether the name is taken.
MayTakeUnasked(id, taken) == id # NoAccount \/ taken = NoAccount

MayTake(id, taken) == taken \in {NoAccount, id}

TheName(w) == CHOOSE n \in Wanted(w) : TRUE

\* The name is looked up; then the account is read, and put back whole, with or
\* without a display name, which is what makes it a registered one.
EditAccount(w) ==
    LET id == Resolved(w)
        old == items[Account(id)]
    IN  /\ \/ /\ At(w, "edit", "serve")
              /\ IF Wanted(w) = {} THEN Goto(w, "read")
                 ELSE \E taken \in OneOf(AccountsNamed(TheName(w))) :
                         IF MayTake(id, taken) THEN Goto(w, "read") ELSE Answer(w)
           \/ /\ At(w, "edit", "read")
              /\ IF Has(Account(id))
                 THEN \E display \in BOOLEAN :
                         Plan(w, <<{Put(Account(id),
                            [old EXCEPT !.registered = @ \/ display,
                                        !.name = IF Wanted(w) = {} THEN @ ELSE TheName(w)])}>>)
                 ELSE Answer(w)
        /\ UNCHANGED cache

RegisterUser(w, s, n) ==
    Begin(w, "register", {Self(s), UserName(n)}, <<s, {n}>>, "find")

\* A registration asks the table who it is, then who has the name, and claims the
\* placeholder as it was read; without one, it makes an account with a drawn id.
WriteRegistration(w) ==
    LET s == Caller(w)
        id == Resolved(w)
        row == [RowRead(w) EXCEPT !.name = TheName(w), !.registered = TRUE]
    IN  /\ \/ /\ At(w, "register", "find")
              /\ \E found \in OneOf(AccountsOf(s)) :
                    LET read == IF found = NoAccount THEN Placeholder(s)
                                                     ELSE items[Account(found)]
                    IN  IF read.registered THEN Answer(w)
                        ELSE /\ call' = [call EXCEPT ![w].arg = @ \o <<found, read>>,
                                                     ![w].at = "name"]
                             /\ UNCHANGED <<items, requests, crashes, shared, torn>>
           \/ /\ At(w, "register", "name")
              /\ \E taken \in OneOf(AccountsNamed(TheName(w))) :
                    IF ~MayTake(id, taken) THEN Answer(w)
                    ELSE IF id = NoAccount THEN Plan(w, <<{PutNew(Account(Drawn(w)), row)}>>)
                    ELSE Plan(w, <<{Put(Account(id), row)}>>)
        /\ UNCHANGED cache

-----------------------------------------------------------------------------
(* Deletion, by oneself or by an administrator.                            *)

\* The subjects of an account's deletion: its identity.
AdminDeleteUser(w, id) ==
    LET s == items[Account(id)].sub
    IN  Begin(w, "remove", {Self(s)}, <<s, {}, id>>, "serve")

\* The record goes first, then the settings; only the process that serves the
\* user's own deletion forgets the account.
DeleteAccount(w) ==
    LET id == Resolved(w)
        rows == <<{Delete(Account(id))}, {Delete(UserSettings(id))}>>
    IN  \/ /\ At(w, "leave", "serve")
           /\ IF Has(Account(id)) THEN Proceed(w, rows, "forget") ELSE Answer(w)
           /\ UNCHANGED cache
        \/ /\ At(w, "leave", "forget")
           /\ Answer(w)
           /\ Remember(w, Caller(w), NoAccount)
        \/ /\ At(w, "remove", "serve")
           /\ IF Has(Account(id)) THEN Plan(w, rows) ELSE Answer(w)
           /\ UNCHANGED cache

-----------------------------------------------------------------------------

RequestsNext(w) ==
    /\ \E s \in Identity :
          \/ TouchAccount(w, s) \/ UpdateBio(w, s) \/ DeleteMe(w, s)
          \/ \E n \in Name : UpdateMe(w, s, n) \/ RegisterUser(w, s, n)
          \/ \E id \in AccountsOf(s) : AdminDeleteUser(w, id)
    /\ UNCHANGED cache

StepsNext(w) ==
    \/ \E s \in Identity : ForgetUserId(w, s)
    \/ ResolveUserId(w) \/ ProvisionUser(w) \/ SaveSettings(w)
    \/ EditAccount(w) \/ WriteRegistration(w) \/ DeleteAccount(w)
    \/ (Write(w) \/ Crash(w)) /\ UNCHANGED cache

NobodyKnown == [w \in Worker |-> [s \in Identity |-> NoAccount]]

\* A database without users, and processes that have served nobody.
AccountsInit ==
    /\ TableInit(<<>>)
    /\ cache = NobodyKnown
    /\ raced = {}

AccountsNext ==
    /\ \E w \in Worker : RequestsNext(w) \/ StepsNext(w)
    /\ raced' = raced \cup {s \in Identity : Races(s)}

AccountsSpec == AccountsInit /\ [][AccountsNext]_accountsVars

-----------------------------------------------------------------------------
(* Properties.                                                             *)

\* An identity has at most one account, however many first requests of it are
\* served at once, by however many processes, and whatever ends in the middle;
\* only a registration, an edit or a deletion that overlapped with another of its
\* requests can make a second one (_provision_user, register_user).
OneAccount ==
    /\ \A s \in Identity \ raced : Cardinality(AccountsOf(s)) <= 1
    /\ \A w \in Worker, s \in Identity :
          cache[w][s] \in Accounts => items[Account(cache[w][s])].sub = s

\* Two accounts have the same name only if two requests for the name overlapped, or
\* one of the accounts was put back as it had been read before another request of
\* its user changed it (register_user, update_me: no condition on the table).  The
\* name of a placeholder is made without a look at the others.
NamesDiffer ==
    \A n \in Name \ {Placeholder(s).name : s \in Identity} : UserName(n) \notin shared =>
        \A i, j \in AccountsNamed(n) :
            i = j \/ {items[Account(i)].sub, items[Account(j)].sub} \cap raced # {}
=============================================================================
