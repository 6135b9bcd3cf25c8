------------------------------ MODULE Accounts ------------------------------
(***************************************************************************)
(* Access codes and session tokens of the web channel                      *)
(* (src/channels/web/auth.py): an administrator creates codes that expire, *)
(* a browser exchanges a code for a token, one token at a time holds a     *)
(* code, and a token ends when it expires, is idle too long or logs out.   *)
(* The state is written to auth_store.json by the handlers that change it, *)
(* and read back when the server starts.                                   *)
(*                                                                         *)
(* The server runs on one event loop and no handler of auth.py awaits      *)
(* between its first read and its save, so a handler is one action.  A     *)
(* crash falls between handlers or within a write, which then leaves a     *)
(* file that cannot be parsed.                                             *)
(*                                                                         *)
(* Times are kept relative to now, in units that make IdleTimeout small:   *)
(* how long until a code or token expires (-1: it has), how long since a   *)
(* token was last used (up to IdleTimeout + 1: too long).                  *)
(***************************************************************************)
EXTENDS Integers, FiniteSets

CONSTANTS
  Codes,          \* the codes that may be drawn
  MaxTokens,      \* bound: how many tokens are drawn; a token is its number
  Browsers,       \* browsers, each with its own storage
  IdleTimeout,    \* IDLE_TIMEOUT_SECONDS, in ticks
  Lifetimes,      \* expires_in of new codes, in ticks
  MaxCrashes,     \* bound: how often the server dies
  Missing, Torn   \* no file, and the file of a server that died while writing it

ASSUME AccountsAssumption ==
  /\ IdleTimeout \in Nat \ {0}
  /\ Lifetimes \subseteq Nat
  /\ MaxCrashes \in Nat
  /\ MaxTokens \in Nat

VARIABLES
  up,        \* is the server running
  mem,       \* the five dictionaries of auth.py
  disk,      \* auth_store.json: such a record, or why there is none
  storage,   \* browser -> the token it keeps
  socket,    \* browser -> the token its /ws/chat socket was opened with
  issued,    \* how many tokens have been drawn
  gone,      \* tokens whose removal a finished handler has announced
  crashes

vars == <<up, mem, disk, storage, socket, issued, gone, crashes>>

Tokens  == 1 .. MaxTokens
NoToken == 0     \* what a browser keeps that is not logged in
Span(n) == n \in Int /\ n >= -1
Age(n)  == n \in Int /\ 0 <= n /\ n <= IdleTimeout + 1

Without(f, S) == [k \in DOMAIN f \ S |-> f[k]]
With(f, S, v) == [k \in DOMAIN f \cup S |-> IF k \in S THEN v ELSE f[k]]

Empty ==
  [codes |-> <<>>, tokens |-> <<>>, codeOf |-> <<>>, tokenOf |-> <<>>, lastActivity |-> <<>>]

-----------------------------------------------------------------------------
(* The helpers of auth.py, on the record of its dictionaries.              *)

Usable(code) == code.status = "active" /\ code.left >= 0

EvictKeepsLock(m, S) ==
  [m EXCEPT !.tokens = Without(@, S), !.codeOf = Without(@, S),
            !.lastActivity = Without(@, S)]

(* _evict_token, for each token of S: its code is freed if it is this      *)
(* token that holds it.                                                    *)
Evict(m, S) ==
  [m EXCEPT !.tokens = Without(@, S), !.codeOf = Without(@, S),
            !.lastActivity = Without(@, S),
            !.tokenOf = Without(@, {c \in DOMAIN @ : /\ @[c] \in S \cap DOMAIN m.codeOf
                                                     /\ m.codeOf[@[c]] = c})]

Expired(m) == {t \in DOMAIN m.tokens : m.tokens[t] < 0}
Idle(m)    == {t \in DOMAIN m.lastActivity \cap DOMAIN m.tokens :
                 m.lastActivity[t] > IdleTimeout}

Purge(m) ==
  [Evict(m, Expired(m) \cup Idle(m)) EXCEPT
     !.codes = [c \in DOMAIN @ |-> IF @[c].status = "active" /\ @[c].left < 0
                                     THEN [@[c] EXCEPT !.status = "expired"] ELSE @[c]]]

StoresOwnChanges(m, itself) ==
  /\ mem' = m
  /\ disk' = IF itself THEN m ELSE disk
  /\ gone' = gone \cup (DOMAIN mem.tokens \ DOMAIN m.tokens)

(* A handler that purges and stores m: it saves if there was something  *)
(* to purge, or if it changed something itself.                            *)
Stores(m, itself) ==
  /\ mem' = m
  /\ disk' = IF itself \/ Purge(mem) # mem THEN m ELSE disk
  /\ gone' = gone \cup (DOMAIN mem.tokens \ DOMAIN m.tokens)

(* load_auth: a file that does not parse is reported and ignored.          *)
Load(file) == IF file \in {Missing, Torn} THEN Empty ELSE file

Issue(m, code, t) ==
  [m EXCEPT !.tokens = With(@, {t}, m.codes[code].left), !.codeOf = With(@, {t}, code),
            !.tokenOf = With(@, {code}, t), !.lastActivity = With(@, {t}, 0)]

-----------------------------------------------------------------------------
Init ==
  /\ up = TRUE
  /\ mem = Empty
  /\ disk = Missing
  /\ storage = [b \in Browsers |-> NoToken]
  /\ socket = [b \in Browsers |-> NoToken]
  /\ issued = 0
  /\ gone = {}
  /\ crashes = 0

(* admin_new_code, and admin_batch_codes for several codes at once.        *)
NewCodes(fresh, life) ==
  /\ fresh \cap DOMAIN mem.codes = {}
  /\ LET m == Purge(mem) IN
     Stores([m EXCEPT !.codes = With(@, fresh, [left |-> life, status |-> "active"])], TRUE)
  /\ UNCHANGED <<up, storage, socket, issued, crashes>>

(* idle_purge_loop; admin_list_codes and every endpoint that checks a      *)
(* token with valid_token do the same on their way.                        *)
PurgeLoop ==
  /\ Stores(Purge(mem), FALSE)
  /\ UNCHANGED <<up, storage, socket, issued, crashes>>

HeldBy(m, code) ==
  IF code \in DOMAIN m.tokenOf THEN {m.tokenOf[code]} \cap DOMAIN m.tokens ELSE {}

InUse(m, code) ==
  \E t \in HeldBy(m, code) : t \in DOMAIN m.lastActivity /\ m.lastActivity[t] < IdleTimeout

(* auth_verify refuses an unknown or expired code, and a code in use.      *)
Refused(m, code) ==
  code \in DOMAIN m.codes => ~ Usable(m.codes[code]) \/ InUse(m, code)

VerifyRefused(code) ==
  /\ Refused(Purge(mem), code)
  /\ Stores(Purge(mem), FALSE)
  /\ UNCHANGED <<up, storage, socket, issued, crashes>>

VerifyKeepsIdleToken(b, code) ==
  /\ issued < MaxTokens
  /\ issued' = issued + 1
  /\ LET m == Purge(mem) IN
     /\ ~ Refused(m, code)
     /\ Stores(Issue(m, code, issued'), TRUE)
  /\ storage' = [storage EXCEPT ![b] = issued']
  /\ UNCHANGED <<up, socket, crashes>>

(* auth_verify takes the code over from an idle token.                     *)
Verify(b, code) ==
  /\ issued < MaxTokens
  /\ issued' = issued + 1
  /\ LET m == Purge(mem) IN
     /\ ~ Refused(m, code)
     /\ Stores(Issue(Evict(m, HeldBy(m, code)), code, issued'), TRUE)
  /\ storage' = [storage EXCEPT ![b] = issued']
  /\ UNCHANGED <<up, socket, crashes>>

(* auth_logout does not purge; the page forgets its token either way.      *)
Logout(b) ==
  /\ storage[b] # NoToken
  /\ IF storage[b] \in DOMAIN mem.tokens
       THEN LET m == Evict(mem, {storage[b]}) IN
            mem' = m /\ disk' = m /\ gone' = gone \cup {storage[b]}
       ELSE UNCHANGED <<mem, disk, gone>>
  /\ storage' = [storage EXCEPT ![b] = NoToken]
  /\ UNCHANGED <<up, socket, issued, crashes>>

(* ws_chat checks the token when the socket opens, and never again.        *)
OpenChat(b) ==
  /\ storage[b] # NoToken
  /\ socket[b] = NoToken
  /\ LET m == Purge(mem) IN
     /\ Stores(m, FALSE)
     /\ socket' = [socket EXCEPT ![b] = IF storage[b] \in DOMAIN m.tokens THEN storage[b] ELSE @]
  /\ UNCHANGED <<up, storage, issued, crashes>>

(* Each message touches the token, in memory only and even if it has been  *)
(* taken away meanwhile: the entry then stays behind.                      *)
Chat(b) ==
  /\ socket[b] # NoToken
  /\ mem' = [mem EXCEPT !.lastActivity = With(@, {socket[b]}, 0)]
  /\ UNCHANGED <<up, disk, storage, socket, issued, gone, crashes>>

CloseChat(b) ==
  /\ socket[b] # NoToken
  /\ socket' = [socket EXCEPT ![b] = NoToken]
  /\ UNCHANGED <<up, mem, disk, storage, issued, gone, crashes>>

-----------------------------------------------------------------------------
Older(age)  == IF age > IdleTimeout THEN age ELSE age + 1
Nearer(left) == IF left < 0 THEN left ELSE left - 1

Aged(m) ==
  [m EXCEPT !.codes = [c \in DOMAIN @ |-> [@[c] EXCEPT !.left = Nearer(m.codes[c].left)]],
            !.tokens = [t \in DOMAIN @ |-> Nearer(@[t])],
            !.lastActivity = [t \in DOMAIN @ |-> Older(@[t])]]

(* Time passes for what is in the file as well: it holds points in time.   *)
Tick ==
  /\ mem' = Aged(mem)
  /\ disk' = IF disk \in {Missing, Torn} THEN disk ELSE Aged(disk)
  /\ UNCHANGED <<up, storage, socket, issued, gone, crashes>>

(* The server dies, in the middle of a write perhaps.                      *)
Crash ==
  /\ up
  /\ crashes < MaxCrashes
  /\ crashes' = crashes + 1
  /\ up' = FALSE
  /\ mem' = Empty
  /\ disk' \in {disk, Torn}
  /\ socket' = [b \in Browsers |-> NoToken]
  /\ UNCHANGED <<storage, issued, gone>>

Restart ==
  /\ ~ up
  /\ up' = TRUE
  /\ mem' = Load(disk)
  /\ UNCHANGED <<disk, storage, socket, issued, gone, crashes>>

Serve ==
  \/ \E fresh \in SUBSET Codes \ {{}}, life \in Lifetimes : NewCodes(fresh, life)
  \/ PurgeLoop
  \/ \E code \in Codes : VerifyRefused(code)
  \/ \E b \in Browsers, code \in Codes : Verify(b, code)
  \/ \E b \in Browsers : Logout(b) \/ OpenChat(b) \/ Chat(b) \/ CloseChat(b)

Next == (up /\ Serve) \/ Tick \/ Crash \/ Restart

(* Time passes, the loop of idle_purge_loop comes round, and the server is *)
(* started again when it has died.                                         *)
Spec ==
  /\ Init /\ [][Next]_vars
  /\ WF_vars(Tick) /\ WF_vars(up /\ PurgeLoop) /\ WF_vars(Restart)

-----------------------------------------------------------------------------
(* A part of the state: partial functions between codes, tokens and times. *)
IsAuthState(m) ==
  /\ DOMAIN m = {"codes", "tokens", "codeOf", "tokenOf", "lastActivity"}
  /\ DOMAIN m.codes \subseteq Codes
  /\ \A c \in DOMAIN m.codes : /\ Span(m.codes[c].left)
                                /\ m.codes[c].status \in {"active", "expired"}
  /\ DOMAIN m.tokens \subseteq Tokens
  /\ \A t \in DOMAIN m.tokens : Span(m.tokens[t])
  /\ DOMAIN m.codeOf \subseteq Tokens
  /\ \A t \in DOMAIN m.codeOf : m.codeOf[t] \in Codes
  /\ DOMAIN m.tokenOf \subseteq Codes
  /\ \A c \in DOMAIN m.tokenOf : m.tokenOf[c] \in Tokens
  /\ DOMAIN m.lastActivity \subseteq Tokens
  /\ \A t \in DOMAIN m.lastActivity : Age(m.lastActivity[t])

(* The types, in memory and on disk.                                       *)
TypeOK ==
  /\ up \in BOOLEAN
  /\ IsAuthState(mem)
  /\ disk \in {Missing, Torn} \/ IsAuthState(disk)
  /\ storage \in [Browsers -> Tokens \cup {NoToken}]
  /\ socket \in [Browsers -> Tokens \cup {NoToken}]
  /\ issued \in 0 .. MaxTokens
  /\ gone \subseteq Tokens
  /\ crashes \in 0 .. MaxCrashes

(* The two maps between tokens and codes agree on the tokens in force, and *)
(* such a token lives exactly as long as its code.                         *)
Consistent(m) ==
  \A t \in DOMAIN m.tokens :
    /\ t \in DOMAIN m.codeOf
    /\ m.codeOf[t] \in DOMAIN m.tokenOf \cap DOMAIN m.codes
    /\ m.tokenOf[m.codeOf[t]] = t
    /\ m.tokens[t] = m.codes[m.codeOf[t]].left

(* One session per code: at most one token in force was issued for a code, *)
(* and it ends with the code; in memory, and in any file a restart reads.  *)
OneSessionPerCode ==
  /\ TypeOK
  /\ Consistent(mem)
  /\ disk \in {Missing, Torn} \/ Consistent(disk)

(* A token that expired, was idle too long, was replaced or logged out is  *)
(* never valid again: not after a crash, and not from the file that a      *)
(* restart reads.                                                          *)
GoneForGood ==
  /\ gone \cap DOMAIN mem.tokens = {}
  /\ disk \in {Missing, Torn} \/ gone \cap DOMAIN disk.tokens = {}

(* A code in use is free again some time, however busy its session is and  *)
(* whatever happens to the server: its token expires with it.              *)
CodesAreFreed ==
  \A c \in Codes : (c \in DOMAIN mem.tokenOf) ~> (c \notin DOMAIN mem.tokenOf)
=============================================================================
