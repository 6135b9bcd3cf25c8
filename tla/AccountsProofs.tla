---------------------------- MODULE AccountsProofs ----------------------------
(***************************************************************************)
(* Machine-checked theorems about Accounts, for any codes, browsers,       *)
(* lifetimes and time-outs, and any number of tokens and crashes.          *)
(***************************************************************************)
EXTENDS Accounts, TLAPS

-----------------------------------------------------------------------------
(* The helpers on the record of dictionaries, field by field.              *)

(* What a state is after the tokens S are evicted from it.                  *)
LEMMA EvictMaps ==
  ASSUME NEW m, NEW S, IsAuthState(m)
  PROVE  LET e == Evict(m, S) IN
         /\ DOMAIN e = DOMAIN m /\ e.codes = m.codes
         /\ DOMAIN e.tokens = DOMAIN m.tokens \ S
         /\ DOMAIN e.codeOf = DOMAIN m.codeOf \ S
         /\ DOMAIN e.lastActivity = DOMAIN m.lastActivity \ S
         /\ DOMAIN e.tokenOf \subseteq DOMAIN m.tokenOf
         /\ \A c \in DOMAIN m.tokenOf :
              \/ c \in DOMAIN e.tokenOf
              \/ /\ m.tokenOf[c] \in S \cap DOMAIN m.codeOf
                 /\ m.codeOf[m.tokenOf[c]] = c
         /\ \A t \in DOMAIN e.tokens : e.tokens[t] = m.tokens[t]
         /\ \A t \in DOMAIN e.codeOf : e.codeOf[t] = m.codeOf[t]
         /\ \A t \in DOMAIN e.lastActivity : e.lastActivity[t] = m.lastActivity[t]
         /\ \A c \in DOMAIN e.tokenOf : e.tokenOf[c] = m.tokenOf[c]
<1> DEFINE e == Evict(m, S)
           freed == {c \in DOMAIN m.tokenOf : /\ m.tokenOf[c] \in S \cap DOMAIN m.codeOf
                                              /\ m.codeOf[m.tokenOf[c]] = c}
<1>1. /\ DOMAIN e = DOMAIN m /\ e.codes = m.codes
      /\ e.tokens = Without(m.tokens, S)
      /\ e.codeOf = Without(m.codeOf, S)
      /\ e.lastActivity = Without(m.lastActivity, S)
      /\ e.tokenOf = Without(m.tokenOf, freed)
  BY DEF Evict, IsAuthState
<1>2. DOMAIN e.tokens = DOMAIN m.tokens \ S /\ \A t \in DOMAIN e.tokens : e.tokens[t] = m.tokens[t]
  BY <1>1 DEF Without
<1>3. DOMAIN e.codeOf = DOMAIN m.codeOf \ S /\ \A t \in DOMAIN e.codeOf : e.codeOf[t] = m.codeOf[t]
  BY <1>1 DEF Without
<1>4. /\ DOMAIN e.lastActivity = DOMAIN m.lastActivity \ S
      /\ \A t \in DOMAIN e.lastActivity : e.lastActivity[t] = m.lastActivity[t]
  BY <1>1 DEF Without
<1>5. DOMAIN e.tokenOf = DOMAIN m.tokenOf \ freed /\ \A c \in DOMAIN e.tokenOf : e.tokenOf[c] = m.tokenOf[c]
  BY <1>1 DEF Without
<1> QED
  BY <1>1, <1>2, <1>3, <1>4, <1>5

(* What a state is after token t is issued for a code.                     *)
LEMMA IssueMaps ==
  ASSUME NEW m, NEW code, NEW t, IsAuthState(m)
  PROVE  LET i == Issue(m, code, t) IN
         /\ DOMAIN i = DOMAIN m /\ i.codes = m.codes
         /\ DOMAIN i.tokens = DOMAIN m.tokens \cup {t}
         /\ DOMAIN i.codeOf = DOMAIN m.codeOf \cup {t}
         /\ DOMAIN i.lastActivity = DOMAIN m.lastActivity \cup {t}
         /\ DOMAIN i.tokenOf = DOMAIN m.tokenOf \cup {code}
         /\ i.tokens[t] = m.codes[code].left /\ i.codeOf[t] = code
         /\ i.lastActivity[t] = 0 /\ i.tokenOf[code] = t
         /\ \A u \in DOMAIN m.tokens : u # t => i.tokens[u] = m.tokens[u]
         /\ \A u \in DOMAIN m.codeOf : u # t => i.codeOf[u] = m.codeOf[u]
         /\ \A u \in DOMAIN m.lastActivity : u # t => i.lastActivity[u] = m.lastActivity[u]
         /\ \A c \in DOMAIN m.tokenOf : c # code => i.tokenOf[c] = m.tokenOf[c]
<1> DEFINE i == Issue(m, code, t)
<1>1. /\ DOMAIN i = DOMAIN m /\ i.codes = m.codes
      /\ i.tokens = With(m.tokens, {t}, m.codes[code].left)
      /\ i.codeOf = With(m.codeOf, {t}, code)
      /\ i.lastActivity = With(m.lastActivity, {t}, 0)
      /\ i.tokenOf = With(m.tokenOf, {code}, t)
  BY DEF Issue, IsAuthState
<1>2. /\ DOMAIN i.tokens = DOMAIN m.tokens \cup {t} /\ i.tokens[t] = m.codes[code].left
      /\ \A u \in DOMAIN m.tokens : u # t => i.tokens[u] = m.tokens[u]
  BY <1>1 DEF With
<1>3. /\ DOMAIN i.codeOf = DOMAIN m.codeOf \cup {t} /\ i.codeOf[t] = code
      /\ \A u \in DOMAIN m.codeOf : u # t => i.codeOf[u] = m.codeOf[u]
  BY <1>1 DEF With
<1>4. /\ DOMAIN i.lastActivity = DOMAIN m.lastActivity \cup {t} /\ i.lastActivity[t] = 0
      /\ \A u \in DOMAIN m.lastActivity : u # t => i.lastActivity[u] = m.lastActivity[u]
  BY <1>1 DEF With
<1>5. /\ DOMAIN i.tokenOf = DOMAIN m.tokenOf \cup {code} /\ i.tokenOf[code] = t
      /\ \A c \in DOMAIN m.tokenOf : c # code => i.tokenOf[c] = m.tokenOf[c]
  BY <1>1 DEF With
<1> QED
  BY <1>1, <1>2, <1>3, <1>4, <1>5

(* Evicting and issuing keep the types and the agreement of the maps.      *)
LEMMA EvictTyped ==
  ASSUME NEW m, NEW S, IsAuthState(m)
  PROVE  IsAuthState(Evict(m, S))
  BY EvictMaps DEF IsAuthState

LEMMA EvictConsistent ==
  ASSUME NEW m, NEW S, IsAuthState(m), Consistent(m)
  PROVE  Consistent(Evict(m, S))
<1> DEFINE e == Evict(m, S)
<1> SUFFICES ASSUME NEW t \in DOMAIN e.tokens
             PROVE  /\ t \in DOMAIN e.codeOf
                    /\ e.codeOf[t] \in DOMAIN e.tokenOf \cap DOMAIN e.codes
                    /\ e.tokenOf[e.codeOf[t]] = t
                    /\ e.tokens[t] = e.codes[e.codeOf[t]].left
  BY DEF Consistent
<1>1. t \in DOMAIN m.tokens /\ t \notin S /\ e.tokens[t] = m.tokens[t] /\ e.codes = m.codes
  BY EvictMaps
<1>2. /\ t \in DOMAIN m.codeOf
      /\ m.codeOf[t] \in DOMAIN m.tokenOf \cap DOMAIN m.codes
      /\ m.tokenOf[m.codeOf[t]] = t
      /\ m.tokens[t] = m.codes[m.codeOf[t]].left
  BY <1>1 DEF Consistent
<1>3. t \in DOMAIN e.codeOf /\ e.codeOf[t] = m.codeOf[t]
  BY <1>1, <1>2, EvictMaps
<1>4. m.codeOf[t] \in DOMAIN e.tokenOf /\ e.tokenOf[m.codeOf[t]] = t
  BY <1>1, <1>2, EvictMaps
<1> QED
  BY <1>1, <1>2, <1>3, <1>4

LEMMA IssueTyped ==
  ASSUME NEW m, IsAuthState(m), NEW t \in Tokens, NEW code \in DOMAIN m.codes
  PROVE  IsAuthState(Issue(m, code, t))
<1> DEFINE i == Issue(m, code, t)
<1>1. DOMAIN i = {"codes", "tokens", "codeOf", "tokenOf", "lastActivity"} /\ i.codes = m.codes
  BY IssueMaps DEF IsAuthState
<1>2. \A u \in DOMAIN i.tokens : u \in Tokens /\ Span(i.tokens[u])
  BY IssueMaps DEF IsAuthState
<1>3. \A u \in DOMAIN i.codeOf : u \in Tokens /\ i.codeOf[u] \in Codes
  BY IssueMaps DEF IsAuthState
<1>4. \A c \in DOMAIN i.tokenOf : c \in Codes /\ i.tokenOf[c] \in Tokens
  BY IssueMaps DEF IsAuthState
<1>5. Age(0)
  BY AccountsAssumption DEF Age
<1>6. \A u \in DOMAIN i.lastActivity : u \in Tokens /\ Age(i.lastActivity[u])
  BY <1>5, IssueMaps DEF IsAuthState
<1>7. IsAuthState(i)
  <2> HIDE DEF i
  <2> QED
    BY <1>1, <1>2, <1>3, <1>4, <1>6 DEF IsAuthState
<1> QED
  BY <1>7

(* A code passes to a new token once no token in force holds it.           *)
LEMMA IssueConsistent ==
  ASSUME NEW m, IsAuthState(m), Consistent(m), NEW t, NEW code \in DOMAIN m.codes,
         \A u \in DOMAIN m.tokens : m.codeOf[u] # code
  PROVE  Consistent(Issue(m, code, t))
<1> DEFINE i == Issue(m, code, t)
<1> SUFFICES ASSUME NEW u \in DOMAIN i.tokens
             PROVE  /\ u \in DOMAIN i.codeOf
                    /\ i.codeOf[u] \in DOMAIN i.tokenOf \cap DOMAIN i.codes
                    /\ i.tokenOf[i.codeOf[u]] = u
                    /\ i.tokens[u] = i.codes[i.codeOf[u]].left
  BY DEF Consistent
<1>0. i.codes = m.codes
  BY IssueMaps
<1>1. CASE u = t
  <2>1. /\ t \in DOMAIN i.codeOf /\ i.codeOf[t] = code /\ code \in DOMAIN i.tokenOf
        /\ i.tokenOf[code] = t /\ i.tokens[t] = m.codes[code].left
    BY IssueMaps
  <2> QED
    BY <1>0, <1>1, <2>1
<1>2. CASE u # t
  <2>1. u \in DOMAIN m.tokens /\ i.tokens[u] = m.tokens[u]
    BY <1>2, IssueMaps
  <2>2. /\ u \in DOMAIN m.codeOf
        /\ m.codeOf[u] \in DOMAIN m.tokenOf \cap DOMAIN m.codes
        /\ m.tokenOf[m.codeOf[u]] = u
        /\ m.tokens[u] = m.codes[m.codeOf[u]].left
    BY <2>1 DEF Consistent
  <2>3. u \in DOMAIN i.codeOf /\ i.codeOf[u] = m.codeOf[u]
    BY <1>2, <2>2, IssueMaps
  <2>4. m.codeOf[u] \in DOMAIN i.tokenOf /\ i.tokenOf[m.codeOf[u]] = u
    BY <2>1, <2>2, IssueMaps
  <2> QED
    BY <1>0, <2>1, <2>2, <2>3, <2>4
<1> QED
  BY <1>1, <1>2

(* Sound: types, and maps that agree.                                      *)
Sound(m) == IsAuthState(m) /\ Consistent(m)

(* Codes may change but for how long they live, and codes may be added.    *)
LEMMA SameTokens ==
  ASSUME NEW m, NEW n, Sound(m),
         DOMAIN n = DOMAIN m, n.tokens = m.tokens, n.codeOf = m.codeOf,
         n.tokenOf = m.tokenOf, n.lastActivity = m.lastActivity,
         DOMAIN m.codes \subseteq DOMAIN n.codes, DOMAIN n.codes \subseteq Codes,
         \A c \in DOMAIN n.codes : /\ Span(n.codes[c].left)
                                   /\ n.codes[c].status \in {"active", "expired"},
         \A c \in DOMAIN m.codes : n.codes[c].left = m.codes[c].left
  PROVE  Sound(n)
<1>1. IsAuthState(n)
  BY DEF Sound, IsAuthState
<1>2. Consistent(n)
  BY DEF Sound, Consistent
<1> QED
  BY <1>1, <1>2 DEF Sound

LEMMA PurgeSound ==
  ASSUME NEW m, Sound(m)
  PROVE  Sound(Purge(m)) /\ DOMAIN Purge(m).tokens \subseteq DOMAIN m.tokens
<1> DEFINE e == Evict(m, Expired(m) \cup Idle(m))
           f(c) == IF e.codes[c].status = "active" /\ e.codes[c].left < 0
                     THEN [e.codes[c] EXCEPT !.status = "expired"] ELSE e.codes[c]
           p == [e EXCEPT !.codes = [c \in DOMAIN @ |->
                    IF @[c].status = "active" /\ @[c].left < 0
                      THEN [@[c] EXCEPT !.status = "expired"] ELSE @[c]]]
<1>1. Sound(e) /\ DOMAIN e.tokens \subseteq DOMAIN m.tokens
  BY EvictTyped, EvictConsistent, EvictMaps DEF Sound
<1>2. Purge(m) = p
  BY DEF Purge
<1> HIDE DEF e
<1>3. /\ DOMAIN p = DOMAIN e /\ p.tokens = e.tokens /\ p.codeOf = e.codeOf
      /\ p.tokenOf = e.tokenOf /\ p.lastActivity = e.lastActivity
      /\ p.codes = [c \in DOMAIN e.codes |-> f(c)]
  BY <1>1 DEF Sound, IsAuthState
<1>4. ASSUME NEW c \in DOMAIN e.codes
      PROVE  f(c).left = e.codes[c].left /\ f(c).status \in {"active", "expired"}
  BY <1>1 DEF Sound, IsAuthState
<1> HIDE DEF f
<1>5. /\ DOMAIN p.codes = DOMAIN e.codes
      /\ \A c \in DOMAIN p.codes : /\ p.codes[c].left = e.codes[c].left
                                   /\ p.codes[c].status \in {"active", "expired"}
  BY <1>3, <1>4
<1> HIDE DEF p
<1>6. Sound(p)
  <2>1. DOMAIN p.codes \subseteq Codes /\ \A c \in DOMAIN p.codes : Span(p.codes[c].left)
    BY <1>1, <1>5 DEF Sound, IsAuthState
  <2> QED
    BY <1>1, <1>3, <1>5, <2>1, SameTokens
<1> QED
  BY <1>1, <1>2, <1>3, <1>6

LEMMA PurgeCodes ==
  ASSUME NEW m, Sound(m)
  PROVE  DOMAIN Purge(m).codes = DOMAIN m.codes
  BY EvictMaps DEF Purge, Sound, IsAuthState

LEMMA NewCodesSound ==
  ASSUME NEW m, Sound(m), NEW fresh \in SUBSET Codes, NEW life \in Lifetimes,
         fresh \cap DOMAIN m.codes = {}
  PROVE  LET n == [m EXCEPT !.codes = With(@, fresh, [left |-> life, status |-> "active"])]
         IN  Sound(n) /\ n.tokens = m.tokens
<1> DEFINE new == [left |-> life, status |-> "active"]
           n == [m EXCEPT !.codes = With(@, fresh, new)]
<1>1. /\ DOMAIN n = DOMAIN m /\ n.tokens = m.tokens /\ n.codeOf = m.codeOf
      /\ n.tokenOf = m.tokenOf /\ n.lastActivity = m.lastActivity
      /\ n.codes = With(m.codes, fresh, new)
  BY DEF Sound, IsAuthState
<1>2. /\ DOMAIN n.codes = DOMAIN m.codes \cup fresh
      /\ \A c \in fresh : n.codes[c] = new
      /\ \A c \in DOMAIN m.codes : n.codes[c] = m.codes[c]
  BY <1>1 DEF With
<1>3. Span(new.left) /\ new.status \in {"active", "expired"}
  BY AccountsAssumption DEF Span
<1> HIDE DEF new, n
<1>4. /\ DOMAIN n.codes \subseteq Codes
      /\ \A c \in DOMAIN n.codes : /\ Span(n.codes[c].left)
                                   /\ n.codes[c].status \in {"active", "expired"}
  BY <1>2, <1>3 DEF Sound, IsAuthState
<1> SUFFICES Sound(n) /\ n.tokens = m.tokens
  BY DEF n, new
<1> QED
  BY <1>1, <1>2, <1>4, SameTokens

LEMMA AgedSound ==
  ASSUME NEW m, Sound(m)
  PROVE  Sound(Aged(m)) /\ DOMAIN Aged(m).tokens = DOMAIN m.tokens
<1> DEFINE n == Aged(m)
<1>1. /\ DOMAIN n = DOMAIN m /\ n.codeOf = m.codeOf /\ n.tokenOf = m.tokenOf
      /\ n.codes = [c \in DOMAIN m.codes |-> [m.codes[c] EXCEPT !.left = Nearer(m.codes[c].left)]]
      /\ n.tokens = [t \in DOMAIN m.tokens |-> Nearer(m.tokens[t])]
      /\ n.lastActivity = [t \in DOMAIN m.lastActivity |-> Older(m.lastActivity[t])]
  BY DEF Aged, Sound, IsAuthState
<1>2. ASSUME NEW c \in DOMAIN m.codes
      PROVE  /\ n.codes[c].left = Nearer(m.codes[c].left)
             /\ n.codes[c].status \in {"active", "expired"}
  BY <1>1 DEF Sound, IsAuthState
<1>3. /\ \A l : Span(l) => Span(Nearer(l))
      /\ \A a : Age(a) => Age(Older(a))
  BY AccountsAssumption DEF Span, Nearer, Age, Older
<1> HIDE DEF n
<1>4. IsAuthState(n)
  <2>1. \A c \in DOMAIN n.codes : Span(n.codes[c].left) /\ n.codes[c].status \in {"active", "expired"}
    BY <1>1, <1>2, <1>3 DEF Sound, IsAuthState
  <2>2. \A t \in DOMAIN n.tokens : Span(n.tokens[t])
    BY <1>1, <1>3 DEF Sound, IsAuthState
  <2>3. \A t \in DOMAIN n.lastActivity : Age(n.lastActivity[t])
    BY <1>1, <1>3 DEF Sound, IsAuthState
  <2> QED
    BY <1>1, <2>1, <2>2, <2>3 DEF Sound, IsAuthState
<1>5. Consistent(n)
  BY <1>1, <1>2 DEF Sound, Consistent
<1> SUFFICES Sound(n) /\ DOMAIN n.tokens = DOMAIN m.tokens
  BY DEF n
<1> QED
  BY <1>1, <1>4, <1>5 DEF Sound

-----------------------------------------------------------------------------
(* The inductive invariant: what is in memory and on disk is sound, tokens *)
(* are numbered in the order they were drawn, and those announced as gone  *)
(* are in neither place.                                                   *)
NoFile == disk \in {Missing, Torn}
Drawn  == 1 .. issued
Books ==
  /\ Sound(mem)
  /\ NoFile \/ Sound(disk)
  /\ DOMAIN mem.tokens \cup gone \subseteq Drawn
  /\ NoFile \/ DOMAIN disk.tokens \subseteq Drawn
  /\ GoneForGood
Inv == TypeOK /\ Books

LEMMA EmptySound == Sound(Empty) /\ Empty.tokens = <<>>
  BY DEF Sound, Empty, IsAuthState, Consistent

(* A handler that saves when it changed something, and otherwise stores    *)
(* what the purge leaves, keeps the books in order.                        *)
StoredOK ==
  /\ Books' /\ IsAuthState(mem)' /\ (NoFile \/ IsAuthState(disk))'
  /\ (gone \subseteq Tokens)' /\ (issued \in 0 .. MaxTokens)'

LEMMA StoresBooks ==
  ASSUME Inv, gone' = gone \cup (DOMAIN mem.tokens \ DOMAIN mem'.tokens), Sound(mem'),
         disk' = mem' \/ (disk' = disk /\ mem' = mem),
         issued' \in Nat, issued <= issued', issued' <= MaxTokens,
         DOMAIN mem'.tokens \subseteq DOMAIN mem.tokens \cup (1 .. issued' \ Drawn)
  PROVE  StoredOK
<1>0. issued \in 0 .. MaxTokens /\ MaxTokens \in Nat /\ Drawn \subseteq 1 .. issued'
  BY AccountsAssumption DEF Inv, TypeOK, Drawn
<1>2. DOMAIN mem'.tokens \cup gone' \subseteq 1 .. issued'
  BY <1>0 DEF Inv, Books
<1>3. gone' \cap DOMAIN mem'.tokens = {}
  BY DEF Inv, Books, GoneForGood
<1>4. CASE disk' = mem'
  BY <1>0, <1>2, <1>3, <1>4 DEF StoredOK, Books, NoFile, GoneForGood, Sound, Drawn, Tokens
<1>5. CASE disk' = disk /\ mem' = mem
  <2>1. gone' = gone
    BY <1>5
  <2> QED
    BY <1>0, <1>2, <1>3, <1>5, <2>1
       DEF StoredOK, Inv, Books, NoFile, GoneForGood, Sound, Drawn, Tokens
<1> QED
  BY <1>4, <1>5

(* The handlers.                                                           *)
LEMMA NewCodesBooks ==
  ASSUME Inv, NEW fresh \in SUBSET Codes, NEW life \in Lifetimes, NewCodes(fresh, life)
  PROVE  Inv'
<1> DEFINE m == [Purge(mem) EXCEPT !.codes = With(@, fresh, [left |-> life, status |-> "active"])]
<1>1. Sound(Purge(mem)) /\ DOMAIN Purge(mem).tokens \subseteq DOMAIN mem.tokens
  BY PurgeSound DEF Inv, Books
<1>2. fresh \cap DOMAIN Purge(mem).codes = {}
  <2>1. DOMAIN Purge(mem).codes = DOMAIN mem.codes
    BY PurgeCodes DEF Inv, Books
  <2> QED
    BY <2>1 DEF NewCodes
<1>3. Sound(m) /\ m.tokens = Purge(mem).tokens
  BY <1>1, <1>2, NewCodesSound
<1>4. Stores(m, TRUE)
  BY DEF NewCodes
<1> HIDE DEF m
<1>5. issued' = issued /\ issued \in Nat /\ issued <= MaxTokens
  BY AccountsAssumption DEF NewCodes, Inv, TypeOK
<1>6. StoredOK
  <2>1. mem' = m /\ disk' = m /\ gone' = gone \cup (DOMAIN mem.tokens \ DOMAIN m.tokens)
    BY <1>4 DEF Stores
  <2> QED
    BY <1>1, <1>3, <1>5, <2>1, StoresBooks
<1> QED
  BY <1>6 DEF StoredOK, Inv, TypeOK, NewCodes, NoFile

(* Handlers that change nothing themselves.                                *)
LEMMA PurgeBooks ==
  ASSUME Inv, NEW p, p = Purge(mem), mem' = p, disk' = p \/ (disk' = disk /\ p = mem),
         gone' = gone \cup (DOMAIN mem.tokens \ DOMAIN p.tokens), UNCHANGED issued
  PROVE  StoredOK
<1>1. Sound(p) /\ DOMAIN p.tokens \subseteq DOMAIN mem.tokens
  BY PurgeSound DEF Inv, Books
<1>2. issued' = issued /\ issued \in Nat /\ issued <= MaxTokens
  BY AccountsAssumption DEF Inv, TypeOK
<1> QED
  BY <1>1, <1>2, StoresBooks

LEMMA PurgeLoopBooks == ASSUME Inv, PurgeLoop PROVE Inv'
<1>1. StoredOK
  BY PurgeBooks DEF PurgeLoop, Stores
<1> QED
  BY <1>1 DEF StoredOK, PurgeLoop, Inv, TypeOK, NoFile

LEMMA VerifyRefusedBooks == ASSUME Inv, NEW code, VerifyRefused(code) PROVE Inv'
<1>1. StoredOK
  BY PurgeBooks DEF VerifyRefused, Stores
<1> QED
  BY <1>1 DEF StoredOK, VerifyRefused, Inv, TypeOK, NoFile

LEMMA OpenChatBooks == ASSUME Inv, NEW b \in Browsers, OpenChat(b) PROVE Inv'
<1>1. StoredOK
  BY PurgeBooks DEF OpenChat, Stores
<1>2. UNCHANGED <<up, storage, issued, crashes>> /\ socket' \in [Browsers -> Tokens \cup {NoToken}]
  BY DEF OpenChat, Inv, TypeOK
<1> QED
  BY <1>1, <1>2 DEF StoredOK, Inv, TypeOK, NoFile

(* A token is issued once no token in force holds its code.                *)
LEMMA VerifyBooks == ASSUME Inv, NEW b \in Browsers, NEW code \in Codes, Verify(b, code) PROVE Inv'
<1> DEFINE p == Purge(mem)
           e == Evict(p, HeldBy(p, code))
           t == issued + 1
           m == Issue(e, code, t)
<1>1. Sound(p) /\ DOMAIN p.tokens \subseteq DOMAIN mem.tokens
  BY PurgeSound DEF Inv, Books
<1>2. /\ issued' = t /\ t \in Tokens /\ t \notin Drawn /\ 1 .. t = Drawn \cup {t}
      /\ issued \in 0 .. MaxTokens /\ t <= MaxTokens /\ t \in Nat
  BY AccountsAssumption DEF Verify, Inv, TypeOK, Tokens, Drawn
<1>3. ~ Refused(p, code) /\ Stores(m, TRUE) /\ storage' = [storage EXCEPT ![b] = t]
  BY <1>2 DEF Verify
<1> HIDE DEF p
<1>4. code \in DOMAIN p.codes
  BY <1>3 DEF Refused
<1>5. Sound(e) /\ DOMAIN e.tokens = DOMAIN p.tokens \ HeldBy(p, code) /\ e.codes = p.codes
  BY <1>1, EvictTyped, EvictConsistent, EvictMaps DEF Sound
<1>6. ASSUME NEW u \in DOMAIN e.tokens PROVE e.codeOf[u] # code
  <2>1. u \in DOMAIN p.tokens /\ u \notin HeldBy(p, code) /\ e.codeOf[u] = p.codeOf[u]
    <3>1. u \in DOMAIN e.codeOf
      BY <1>5 DEF Sound, Consistent
    <3> QED
      BY <1>1, <1>5, <3>1, EvictMaps DEF Sound
  <2>2. p.codeOf[u] \in DOMAIN p.tokenOf /\ p.tokenOf[p.codeOf[u]] = u
    BY <1>1, <2>1 DEF Sound, Consistent
  <2> QED
    BY <2>1, <2>2 DEF HeldBy
<1> HIDE DEF e
<1>7. Sound(m) /\ DOMAIN m.tokens = DOMAIN e.tokens \cup {t}
  BY <1>2, <1>4, <1>5, <1>6, IssueTyped, IssueConsistent, IssueMaps DEF Sound
<1> HIDE DEF m, t
<1>8. StoredOK
  <2>1. DOMAIN m.tokens \subseteq DOMAIN mem.tokens \cup (1 .. issued' \ Drawn)
    BY <1>1, <1>2, <1>5, <1>7
  <2>2. issued' \in Nat /\ issued <= issued' /\ issued' <= MaxTokens
    BY <1>2 DEF t
  <2>3. mem' = m /\ disk' = m /\ gone' = gone \cup (DOMAIN mem.tokens \ DOMAIN m.tokens)
    BY <1>3 DEF Stores
  <2> QED
    BY <1>7, <2>1, <2>2, <2>3, StoresBooks
<1> QED
  BY <1>2, <1>3, <1>8 DEF StoredOK, Inv, TypeOK, Verify, NoFile

LEMMA LogoutBooks == ASSUME Inv, NEW b \in Browsers, Logout(b) PROVE Inv'
<1> DEFINE t == storage[b]
           m == Evict(mem, {t})
<1>1. storage' \in [Browsers -> Tokens \cup {NoToken}] /\ UNCHANGED <<up, socket, issued, crashes>>
  BY DEF Logout, Inv, TypeOK
<1>2. CASE t \in DOMAIN mem.tokens
  <2>1. mem' = m /\ disk' = m /\ gone' = gone \cup {t}
    BY <1>2 DEF Logout
  <2>2. Sound(m) /\ DOMAIN m.tokens = DOMAIN mem.tokens \ {t}
    BY EvictTyped, EvictConsistent, EvictMaps DEF Inv, Books, Sound
  <2>3. issued \in 0 .. MaxTokens /\ MaxTokens \in Nat /\ Drawn \subseteq Tokens
    BY AccountsAssumption DEF Inv, TypeOK, Drawn, Tokens
  <2> HIDE DEF m
  <2>4. Books'
    BY <1>1, <1>2, <2>1, <2>2 DEF Inv, Books, NoFile, Drawn, GoneForGood
  <2> QED
    BY <1>1, <1>2, <2>1, <2>2, <2>3, <2>4 DEF Inv, TypeOK, Sound, Books
<1>3. CASE t \notin DOMAIN mem.tokens
  <2>1. UNCHANGED <<mem, disk, gone>>
    BY <1>3 DEF Logout
  <2> QED
    BY <1>1, <2>1 DEF Inv, TypeOK, Books, NoFile, Drawn, GoneForGood
<1> QED
  BY <1>2, <1>3

LEMMA ChatBooks == ASSUME Inv, NEW b \in Browsers, Chat(b) PROVE Inv'
<1> DEFINE t == socket[b]
           m == [mem EXCEPT !.lastActivity = With(@, {t}, 0)]
<1>1. mem' = m /\ UNCHANGED <<up, disk, storage, socket, issued, gone, crashes>> /\ t \in Tokens
  BY DEF Chat, Inv, TypeOK
<1>2. /\ DOMAIN m = DOMAIN mem /\ m.codes = mem.codes /\ m.tokens = mem.tokens
      /\ m.codeOf = mem.codeOf /\ m.tokenOf = mem.tokenOf
      /\ m.lastActivity = With(mem.lastActivity, {t}, 0)
  BY DEF Inv, TypeOK, IsAuthState
<1>3. /\ DOMAIN m.lastActivity = DOMAIN mem.lastActivity \cup {t}
      /\ \A u \in DOMAIN m.lastActivity : Age(m.lastActivity[u])
  <2>1. Age(0)
    BY AccountsAssumption DEF Age
  <2> QED
    BY <1>2, <2>1 DEF With, Inv, TypeOK, IsAuthState
<1> HIDE DEF m
<1>4. Sound(m)
  <2>1. IsAuthState(m)
    BY <1>1, <1>2, <1>3 DEF Inv, TypeOK, IsAuthState
  <2>2. Consistent(m)
    BY <1>2 DEF Inv, Books, Sound, Consistent
  <2> QED
    BY <2>1, <2>2 DEF Sound
<1>5. Books'
  BY <1>1, <1>2, <1>4 DEF Inv, Books, NoFile, Drawn, GoneForGood
<1> QED
  BY <1>1, <1>4, <1>5 DEF Inv, TypeOK, Sound

LEMMA CloseChatBooks == ASSUME Inv, NEW b \in Browsers, CloseChat(b) PROVE Inv'
<1>1. /\ UNCHANGED <<up, mem, disk, storage, issued, gone, crashes>>
      /\ socket' \in [Browsers -> Tokens \cup {NoToken}]
  BY DEF CloseChat, Inv, TypeOK
<1> QED
  BY <1>1 DEF Inv, TypeOK, Books, NoFile, Drawn, GoneForGood

LEMMA TickBooks == ASSUME Inv, Tick PROVE Inv'
<1>1. /\ mem' = Aged(mem) /\ UNCHANGED <<up, storage, socket, issued, gone, crashes>>
      /\ disk' = IF disk \in {Missing, Torn} THEN disk ELSE Aged(disk)
  BY DEF Tick
<1>2. Sound(mem') /\ DOMAIN mem'.tokens = DOMAIN mem.tokens
  BY <1>1, AgedSound DEF Inv, Books
<1>3. NoFile' \/ (Sound(disk') /\ ~ NoFile /\ DOMAIN disk'.tokens = DOMAIN disk.tokens)
  BY <1>1, AgedSound DEF Inv, Books, NoFile
<1>4. Books'
  BY <1>1, <1>2, <1>3 DEF Inv, Books, NoFile, Drawn, GoneForGood
<1> QED
  BY <1>1, <1>2, <1>3, <1>4 DEF Inv, TypeOK, Sound, NoFile

(* A crash empties the memory and may tear the file; a restart reads it.   *)
LEMMA CrashBooks == ASSUME Inv, Crash PROVE Inv'
<1>1. /\ mem' = Empty /\ disk' \in {disk, Torn} /\ UNCHANGED <<storage, issued, gone>>
      /\ up' = FALSE /\ crashes' \in 0 .. MaxCrashes
      /\ socket' \in [Browsers -> Tokens \cup {NoToken}]
  BY AccountsAssumption DEF Crash, Inv, TypeOK
<1>2. Sound(mem') /\ DOMAIN mem'.tokens = {}
  BY <1>1, EmptySound
<1>3. Books'
  BY <1>1, <1>2 DEF Inv, Books, NoFile, Drawn, GoneForGood
<1> QED
  BY <1>1, <1>2, <1>3 DEF Inv, TypeOK, Sound

LEMMA RestartBooks == ASSUME Inv, Restart PROVE Inv'
<1>1. /\ mem' = Load(disk) /\ up' = TRUE /\ UNCHANGED <<disk, storage, socket, issued, gone, crashes>>
  BY DEF Restart
<1>2. /\ Sound(mem')
      /\ DOMAIN mem'.tokens \subseteq Drawn /\ gone \cap DOMAIN mem'.tokens = {}
  BY <1>1, EmptySound DEF Load, Inv, Books, NoFile, GoneForGood
<1>3. Books'
  BY <1>1, <1>2 DEF Inv, Books, NoFile, Drawn, GoneForGood
<1> QED
  BY <1>1, <1>2, <1>3 DEF Inv, TypeOK, Sound

LEMMA InitBooks == Init => Inv
<1> SUFFICES ASSUME Init PROVE Inv
  OBVIOUS
<1>1. Sound(mem) /\ DOMAIN mem.tokens = {}
  BY EmptySound DEF Init
<1>2. Books
  BY <1>1 DEF Init, Books, NoFile, GoneForGood
<1> QED
  BY <1>1, <1>2, AccountsAssumption DEF Init, Inv, TypeOK, Sound

LEMMA NextBooks == Inv /\ [Next]_vars => Inv'
<1> SUFFICES ASSUME Inv, [Next]_vars PROVE Inv'
  OBVIOUS
<1>1. CASE Serve
  BY <1>1, NewCodesBooks, PurgeLoopBooks, VerifyRefusedBooks, VerifyBooks, LogoutBooks,
     OpenChatBooks, ChatBooks, CloseChatBooks DEF Serve
<1>2. CASE Tick \/ Crash \/ Restart
  BY <1>2, TickBooks, CrashBooks, RestartBooks
<1>3. CASE UNCHANGED vars
  BY <1>3 DEF vars, Inv, TypeOK, Books, NoFile, Drawn, GoneForGood
<1> QED
  BY <1>1, <1>2, <1>3 DEF Next

LEMMA AlwaysBooks == Spec => []Inv
  BY InitBooks, NextBooks, PTL DEF Spec

(* Whatever expires, is replaced, logs out or crashes, a code has one      *)
(* session at most, in memory and in any file a restart reads (auth.py).   *)
THEOREM CodesHaveOneSession == Spec => []OneSessionPerCode
<1>1. Inv => OneSessionPerCode
  BY DEF Inv, Books, Sound, OneSessionPerCode, NoFile
<1> QED
  BY <1>1, AlwaysBooks, PTL

(* A token that was announced as gone is never in force again, nor in the  *)
(* file, however late the server dies and is started again (auth.py).      *)
THEOREM EndedStaysEnded == Spec => []GoneForGood
<1>1. Inv => GoneForGood
  BY DEF Inv, Books
<1> QED
  BY <1>1, AlwaysBooks, PTL
===============================================================================
