------------------------------ MODULE Accounts ------------------------------
(***************************************************************************)
(* Accounts: registration and login (apps/gateway/api/user_api,            *)
(* apps/logic/service/user_service.go, dao/users.go), tokens               *)
(* (apps/pkg/utils/jwt.go, gateway/router/middleware/jwt.go) and the       *)
(* requests made with them.                                                *)
(*                                                                         *)
(* The client of a registration chooses the user_id; 0 lets MySQL choose.  *)
(* A password is a pair of the person who chose it and a number: people    *)
(* present the passwords they chose, under any name.  A hash and a         *)
(* signature are modelled by what they tell: CheckPasswordHash whether a   *)
(* password is the hashed one, a token the user_id it was issued for.      *)
(***************************************************************************)
EXTENDS Integers, FiniteSets, FiniteSetsExt

CONSTANTS People, Names,
          UserIds,      \* identifiers a client may ask for; 0 asks for none
          Secrets,      \* passwords a person may choose from
          Lifetime,     \* of a token, 7 days
          MaxClock,     \* bound on the clock
          MaxUsers,     \* bound on registrations
          MaxUpdates    \* bound on profile changes

ASSUME AccountsAssumption ==
  /\ UserIds \subseteq Nat /\ Lifetime \in Nat \ {0}
  /\ MaxClock \in Nat /\ MaxUsers \in Nat /\ MaxUpdates \in Nat

VARIABLES
  users,      \* table users: set of [id, name, password, nick]
  founder,    \* pairs <<id, p>>: the person whose registration made row id
  checked,    \* logins whose password was right: [who, id]
  tokens,     \* issued tokens: [who, id, expires], who holds it
  acting,     \* requests past the JWT middleware: [who, id]
  seen,       \* answers of info and search requests: [id, name, nick]
  clock, updates

accountVars == <<users, founder, checked, tokens, acting, seen, clock, updates>>

Passwords(p) == {p} \X Secrets
DefaultNick == "default"
RowIds == {r.id : r \in users}

FindUserByName(name) == {r \in users : r.name = name}
GetUserByID(id) == {r \in users : r.id = id}

(* CheckPasswordHash against the row read.                                 *)
CheckPasswordHash(given, r) == given = r.password

----------------------------------------------------------------------------
(* The identifier a row gets: the client's, or the next one of the         *)
(* sequence.                                                               *)
NewId(id) == IF id # 0 THEN id ELSE Max(RowIds \cup {0}) + 1

(* As InsertUser, but an upsert on the primary key, as gorm's Save does.   *)
MutInsertUser(r) ==
  /\ \A o \in users : o.name = r.name => o.id = r.id
  /\ users' = {o \in users : o.id # r.id} \cup {r}

(* InsertUser: the primary key and the unique index on username hold, or   *)
(* error 1062 is "the name is taken".                                      *)
InsertUser(r) ==
  /\ \A o \in users : o.id # r.id /\ o.name # r.name
  /\ users' = users \cup {r}

(* The row NewUser makes of a request; an empty nickname is the column's   *)
(* default.                                                                *)
NewUser(id, name, pw, nick) ==
  [id |-> NewId(id), name |-> name, password |-> pw,
   nick |-> IF nick = "" THEN DefaultNick ELSE nick]

(* A rejected registration, by the hash or the table, changes nothing.     *)
UserRegister(p, id, name, pw, nick) ==
  LET r == NewUser(id, name, pw, nick)
  IN /\ Cardinality(founder) < MaxUsers
     /\ InsertUser(r)
     /\ founder' = IF r.id \in RowIds THEN founder ELSE founder \cup {<<r.id, p>>}
     /\ UNCHANGED <<checked, tokens, acting, seen, clock, updates>>

UserRegisterHandler(p) ==
  \E id \in UserIds, name \in Names, pw \in Passwords(p), nick \in {p, ""} :
    UserRegister(p, id, name, pw, nick)

(* UserLogin reads the row by name and compares; the user_id of the        *)
(* request is not looked at.                                               *)
UserLogin(p, name, pw) ==
  /\ \E r \in FindUserByName(name) :
       CheckPasswordHash(pw, r) /\ checked' = checked \cup {[who |-> p, id |-> r.id]}
  /\ UNCHANGED <<users, founder, tokens, acting, seen, clock, updates>>

UserLoginHandler(p) ==
  \E name \in Names, pw \in Passwords(p) : UserLogin(p, name, pw)

(* The rest of UserLogin: the token names the row read before.             *)
GenerateToken(c) ==
  /\ c \in checked /\ checked' = checked \ {c}
  /\ tokens' = tokens \cup {[who |-> c.who, id |-> c.id, expires |-> clock + Lifetime]}
  /\ UNCHANGED <<users, founder, acting, seen, clock, updates>>

ParseToken(t) == clock < t.expires

(* JWTAuthMiddleware stores the token's user_id in the request's context.  *)
JWTAuthMiddleware(t) ==
  /\ t \in tokens /\ ParseToken(t)
  /\ acting' = acting \cup {[who |-> t.who, id |-> t.id]}
  /\ UNCHANGED <<users, founder, checked, tokens, seen, clock, updates>>

(* UpdateUser: one UPDATE of the given fields of one row; Updated is the   *)
(* new value of a field, or the old one when the request leaves it empty.  *)
Updated(given, old) == IF given = {} THEN old ELSE CHOOSE v \in given : TRUE

UpdateUser(id, pw, nick) ==
  users' = {IF r.id = id THEN [r EXCEPT !.password = Updated(pw, @), !.nick = Updated(nick, @)]
            ELSE r : r \in users}

(* UpdateUserInfo, on the row of the token; no field at all is success     *)
(* without a statement.                                                    *)
UpdateUserInfo(q, pw, nick) ==
  /\ q \in acting /\ acting' = acting \ {q} /\ updates < MaxUpdates
  /\ updates' = updates + 1 /\ UpdateUser(q.id, pw, nick)
  /\ UNCHANGED <<founder, checked, tokens, seen, clock>>

UpdateUserInfoHandler(q) ==
  \E pw \in {{}} \cup {{w} : w \in Passwords(q.who)}, nick \in {{}, {q.who}} :
    UpdateUserInfo(q, pw, nick)

Shown(r) == [id |-> r.id, name |-> r.name, nick |-> r.nick]

GetUserInfo(q, id) ==
  /\ q \in acting /\ acting' = acting \ {q} /\ id \in RowIds
  /\ seen' = seen \cup {Shown(r) : r \in GetUserByID(id)}
  /\ UNCHANGED <<users, founder, checked, tokens, clock, updates>>

(* The token's user_id, or the one in the query.                           *)
GetUserInfoHandler(q) == \E id \in {q.id} \cup RowIds : GetUserInfo(q, id)

(* SearchUsers: the rows the full-text index finds, or, when it finds none *)
(* or does not exist, those that contain the keyword.                      *)
SearchUsers(indexed, containing) == IF indexed # {} THEN indexed ELSE containing

SearchUser(q, indexed, containing) ==
  /\ q \in acting /\ acting' = acting \ {q}
  /\ seen' = seen \cup {Shown(r) : r \in SearchUsers(indexed, containing)}
  /\ UNCHANGED <<users, founder, checked, tokens, clock, updates>>

(* A keyword stands for the rows that contain it and, of those, the ones   *)
(* whose words start with it.                                              *)
SearchUserHandler(q) ==
  \E containing \in SUBSET users : \E indexed \in SUBSET containing :
    SearchUser(q, indexed, containing)

Tick ==
  /\ clock < MaxClock /\ clock' = clock + 1
  /\ UNCHANGED <<users, founder, checked, tokens, acting, seen, updates>>

----------------------------------------------------------------------------
AccountInit ==
  /\ users = {} /\ founder = {} /\ checked = {} /\ tokens = {} /\ acting = {}
  /\ seen = {} /\ clock = 0 /\ updates = 0

AccountNext ==
  \/ \E p \in People : UserRegisterHandler(p) \/ UserLoginHandler(p)
  \/ \E c \in checked : GenerateToken(c)
  \/ \E t \in tokens : JWTAuthMiddleware(t)
  \/ \E q \in acting :
       UpdateUserInfoHandler(q) \/ GetUserInfoHandler(q) \/ SearchUserHandler(q)
  \/ Tick

AccountSpec == AccountInit /\ [][AccountNext]_accountVars

----------------------------------------------------------------------------
(* Properties.                                                             *)

(* An account stays its founder's: whatever identifiers and names others   *)
(* ask for, and however their requests overlap, its password and nickname  *)
(* are ones the person who registered it chose, the tokens that name it    *)
(* are that person's, and what info and search show of it is what that     *)
(* person wrote (UserRegister, UserLogin, JWTAuthMiddleware,               *)
(* UpdateUserInfo, GetUserInfo, SearchUser).                               *)
AccountIsFounders ==
  \A f \in founder :
    /\ \A r \in users : r.id = f[1] =>
         r.password \in Passwords(f[2]) /\ r.nick \in {f[2], DefaultNick}
    /\ \A t \in tokens \cup acting : t.id = f[1] => t.who = f[2]
    /\ \A s \in seen : s.id = f[1] => s.nick \in {f[2], DefaultNick}
=============================================================================
