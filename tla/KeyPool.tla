------------------------------- MODULE KeyPool -------------------------------
(***************************************************************************)
(* The key pool and the receiving addresses of accounts (rpcwallet.cpp):  *)
(* getnewaddress, getaccountaddress / GetAccountAddress, setaccount,      *)
(* keypoolrefill, keypoolreset and the ThreadTopUpKeyPool thread that    *)
(* walletpassphrase starts.                                               *)
(*                                                                         *)
(* A key is a number: 1..nextKey have been generated, in order.  The pool  *)
(* (setKeyPool) is a sequence of keys, oldest first.  mapAddressBook maps  *)
(* our keys and foreign addresses to account names; acct[a] is the       *)
(* vchPubKey of the CAccount record of a (NoKey: not valid).  The wallet   *)
(* helpers TopUpKeyPool, NewKeyPool, GetKeyFromPool and                   *)
(* SetAddressBookName live in wallet.cpp, outside src/.  They are written  *)
(* as functions of a wallet state record, so that a handler that calls     *)
(* several of them (setaccount calls GetAccountAddress twice) is one step. *)
(* Unlocking and relocking are those of the WalletUnlock module, seen from *)
(* here as two environment steps.                                          *)
(***************************************************************************)
EXTENDS Integers, Sequences

CONSTANTS
    Accounts,     \* account names passed to the RPCs ("*" is refused)
    Foreign,      \* addresses that are not keys of this wallet
    KeypoolSize,  \* GetArgUInt("-keypool", 100)
    Sizes,        \* values of params[0] of keypoolrefill / keypoolreset
    MaxKeys,      \* bound on the keys the wallet generates
    MaxUnlocks    \* bound on walletpassphrase calls

ASSUME KeyPoolAssumption ==
    /\ KeypoolSize \in Nat /\ Sizes \subseteq Int
    /\ MaxKeys \in Nat /\ KeypoolSize <= MaxKeys /\ MaxUnlocks \in Nat
    /\ \A f \in Foreign : f \notin 1..MaxKeys

NoKey == 0
Keys == 1..MaxKeys

VARIABLES
    locked,    \* pwalletMain->IsLocked()
    mintOnly,  \* fWalletUnlockMintOnly
    pool,      \* setKeyPool, oldest first
    nextKey,   \* the last key generated
    book,      \* pwalletMain->mapAddressBook
    acct,      \* acct[a]: the current receiving key of account a
    used,      \* our keys some wallet transaction pays to
    topups,    \* ThreadTopUpKeyPool threads started and not yet run
    unlocks    \* walletpassphrase calls made

vars == <<locked, mintOnly, pool, nextKey, book, acct, used, topups, unlocks>>

(* The part of the wallet the key helpers read and write.                  *)
St == [pool |-> pool, nextKey |-> nextKey, book |-> book, acct |-> acct]

Apply(s) ==
    /\ pool' = s.pool /\ nextKey' = s.nextKey
    /\ book' = s.book /\ acct' = s.acct

(* n fresh keys after the last generated one.                             *)
Fresh(s, n) == [i \in 1..n |-> s.nextKey + i]

(* TopUpKeyPool(kpSize): nothing while locked; otherwise generate keys     *)
(* until the pool holds the target, kpSize or, for 0, -keypool.            *)
TopUpKeyPool(s, kpSize) ==
    LET target == IF kpSize > 0 THEN kpSize ELSE KeypoolSize
        n == IF Len(s.pool) < target THEN target - Len(s.pool) ELSE 0
    IN  IF locked THEN s
        ELSE [s EXCEPT !.pool = s.pool \o Fresh(s, n), !.nextKey = s.nextKey + n]

(* NewKeyPool(nSize): drop the pool and generate nSize fresh keys.         *)
NewKeyPool(s, nSize) ==
    IF locked THEN s
    ELSE [s EXCEPT !.pool = Fresh(s, nSize), !.nextKey = s.nextKey + nSize]

(* GetKeyFromPool(key, false): take the oldest key; fails on an empty pool.*)
GetKeyFromPool(s) ==
    IF s.pool = <<>> THEN [ok |-> FALSE, key |-> NoKey, s |-> s]
    ELSE [ok |-> TRUE, key |-> Head(s.pool), s |-> [s EXCEPT !.pool = Tail(s.pool)]]

(* SetAddressBookName(address, strName): mapAddressBook[address] = name.   *)
SetAddressBookName(bk, addr, a) ==
    [x \in DOMAIN bk \cup {addr} |-> IF x = addr THEN a ELSE bk[x]]

(* GetAccountAddress(strAccount, bForceNew): keep the account's key unless *)
(* it is not valid, a new one is forced, or a wallet transaction pays it;  *)
(* then take a key from the pool, label it and WriteAccount.              *)
GetAccountAddress(s, a, bForceNew) ==
    LET cur == s.acct[a]
        bKeyUsed == cur # NoKey /\ cur \in used
        g == GetKeyFromPool(s)
    IN  IF cur # NoKey /\ ~bForceNew /\ ~bKeyUsed
        THEN [ok |-> TRUE, key |-> cur, s |-> s]
        ELSE IF ~g.ok THEN [ok |-> FALSE, key |-> NoKey, s |-> s]
        ELSE [ok |-> TRUE, key |-> g.key,
              s |-> [g.s EXCEPT !.book = SetAddressBookName(g.s.book, g.key, a),
                                !.acct[a] = g.key]]

(* Mutant of getnewaddress: the throw on an empty pool is dropped and the *)
(* unset newKey is labelled.                                              *)
getnewaddressNoThrow(a) ==
    LET s1 == IF ~locked THEN TopUpKeyPool(St, 0) ELSE St
        g == GetKeyFromPool(s1)
    IN  /\ s1.nextKey <= MaxKeys
        /\ IF g.ok THEN Apply([g.s EXCEPT !.book = SetAddressBookName(g.s.book, g.key, a)])
           ELSE Apply([s1 EXCEPT !.book = SetAddressBookName(s1.book, NoKey, a)])
        /\ UNCHANGED <<locked, mintOnly, used, topups, unlocks>>

(* Mutant of getnewaddress: the key is read from the pool but not removed. *)
getnewaddressKeepKey(a) ==
    LET s1 == IF ~locked THEN TopUpKeyPool(St, 0) ELSE St
        g == GetKeyFromPool(s1)
    IN  /\ s1.nextKey <= MaxKeys
        /\ IF g.ok THEN Apply([s1 EXCEPT !.book = SetAddressBookName(s1.book, g.key, a)])
           ELSE Apply(s1)
        /\ UNCHANGED <<locked, mintOnly, used, topups, unlocks>>

(* getnewaddress [account]: top the pool up if unlocked, take a key,       *)
(* label it with the account.  An empty pool throws after the top-up.     *)
getnewaddress(a) ==
    LET s1 == IF ~locked THEN TopUpKeyPool(St, 0) ELSE St
        g == GetKeyFromPool(s1)
    IN  /\ s1.nextKey <= MaxKeys
        /\ IF g.ok THEN Apply([g.s EXCEPT !.book = SetAddressBookName(g.s.book, g.key, a)])
           ELSE Apply(s1)
        /\ UNCHANGED <<locked, mintOnly, used, topups, unlocks>>

(* getaccountaddress <account>: GetAccountAddress(account); a throw        *)
(* changes nothing.                                                        *)
getaccountaddress(a) ==
    LET r == GetAccountAddress(St, a, FALSE)
    IN  /\ IF r.ok THEN Apply(r.s) ELSE UNCHANGED <<pool, nextKey, book, acct>>
        /\ UNCHANGED <<locked, mintOnly, used, topups, unlocks>>

(* Mutant of setaccount: the 'unused current key' detection is dropped.   *)
setaccountNoDetect(addr, a) ==
    /\ Apply([St EXCEPT !.book = SetAddressBookName(book, addr, a)])
    /\ UNCHANGED <<locked, mintOnly, used, topups, unlocks>>

(* setaccount <address> <account>: if the address is labelled, call        *)
(* GetAccountAddress(old account); if that returns the address, force a    *)
(* new key for the old account.  Either call may throw (the pool is      *)
(* empty), and then nothing is written: the first call writes only when   *)
(* it returns a new key, and then the second is not made.                 *)
setaccount(addr, a) ==
    /\ IF addr \in DOMAIN book
       THEN LET r1 == GetAccountAddress(St, book[addr], FALSE)
                r2 == GetAccountAddress(r1.s, book[addr], TRUE)
                r  == IF r1.key = addr THEN r2 ELSE r1
            IN  IF r1.ok /\ r.ok
                THEN Apply([r.s EXCEPT !.book = SetAddressBookName(r.s.book, addr, a)])
                ELSE UNCHANGED <<pool, nextKey, book, acct>>
       ELSE Apply([St EXCEPT !.book = SetAddressBookName(book, addr, a)])
    /\ UNCHANGED <<locked, mintOnly, used, topups, unlocks>>

(* keypoolrefill [new-size]: a negative size throws, then                  *)
(* EnsureWalletIsUnlocked, then TopUpKeyPool(nSize).  The final size check *)
(* only throws; the keys stay.                                             *)
keypoolrefill(hasParam, n) ==
    LET nSize == IF hasParam THEN n ELSE KeypoolSize
        s1 == TopUpKeyPool(St, nSize)
    IN  /\ ~(hasParam /\ n < 0)
        /\ ~locked /\ ~mintOnly
        /\ s1.nextKey <= MaxKeys
        /\ Apply(s1)
        /\ UNCHANGED <<locked, mintOnly, used, topups, unlocks>>

(* keypoolreset [new-size]: the same checks, then NewKeyPool(nSize).       *)
keypoolreset(hasParam, n) ==
    LET nSize == IF hasParam THEN n ELSE KeypoolSize
        s1 == NewKeyPool(St, nSize)
    IN  /\ ~(hasParam /\ n < 0)
        /\ ~locked /\ ~mintOnly
        /\ s1.nextKey <= MaxKeys
        /\ Apply(s1)
        /\ UNCHANGED <<locked, mintOnly, used, topups, unlocks>>

(* ThreadTopUpKeyPool: TopUpKeyPool() whenever the thread gets to run,     *)
(* locked or not.                                                          *)
ThreadTopUpKeyPool ==
    LET s1 == TopUpKeyPool(St, 0)
    IN  /\ topups > 0
        /\ s1.nextKey <= MaxKeys
        /\ Apply(s1)
        /\ topups' = topups - 1
        /\ UNCHANGED <<locked, mintOnly, used, unlocks>>

(* walletpassphrase: Unlock, NewThread(ThreadTopUpKeyPool), set the        *)
(* mint-only flag (the relocker is the WalletUnlock module's).            *)
walletpassphrase(mo) ==
    /\ locked /\ unlocks < MaxUnlocks
    /\ locked' = FALSE /\ mintOnly' = mo
    /\ topups' = topups + 1 /\ unlocks' = unlocks + 1
    /\ UNCHANGED <<pool, nextKey, book, acct, used>>

(* walletlock or the relocker: Lock().                                     *)
Lock ==
    /\ ~locked /\ locked' = TRUE
    /\ UNCHANGED <<mintOnly, pool, nextKey, book, acct, used, topups, unlocks>>

(* A wallet transaction paying one of our labelled keys arrives.           *)
Receive(k) ==
    /\ k \in DOMAIN book /\ k \notin used
    /\ used' = used \cup {k}
    /\ UNCHANGED <<locked, mintOnly, pool, nextKey, book, acct, topups, unlocks>>

(* A crypted wallet after loading: locked, a full pool, nothing labelled.  *)
Init ==
    /\ locked = TRUE /\ mintOnly = FALSE
    /\ pool = [i \in 1..KeypoolSize |-> i] /\ nextKey = KeypoolSize
    /\ book = <<>> /\ acct = [a \in Accounts |-> NoKey]
    /\ used = {} /\ topups = 0 /\ unlocks = 0

Next ==
    \/ \E a \in Accounts : getnewaddress(a) \/ getaccountaddress(a)
    \/ \E addr \in DOMAIN book \cup Foreign, a \in Accounts : setaccount(addr, a)
    \/ \E hasParam \in BOOLEAN, n \in Sizes : keypoolrefill(hasParam, n) \/ keypoolreset(hasParam, n)
    \/ ThreadTopUpKeyPool
    \/ \E mo \in BOOLEAN : walletpassphrase(mo)
    \/ Lock
    \/ \E k \in Keys : Receive(k)

Spec == Init /\ [][Next]_vars

-----------------------------------------------------------------------------
TypeOK ==
    /\ locked \in BOOLEAN /\ mintOnly \in BOOLEAN
    /\ nextKey \in 0..MaxKeys
    /\ pool \in Seq(1..nextKey)
    /\ DOMAIN book \subseteq (1..nextKey) \cup Foreign
    /\ \A x \in DOMAIN book : book[x] \in Accounts
    /\ acct \in [Accounts -> 0..nextKey]
    /\ used \subseteq 1..nextKey
    /\ topups \in 0..MaxUnlocks /\ unlocks \in 0..MaxUnlocks

(* Every key is handed out once: the pool holds no key twice and no key   *)
(* already given to a user (every address getnewaddress or                *)
(* GetAccountAddress returned is labelled), and no two accounts share a   *)
(* receiving key, across top-ups, resets, failed calls and setaccount.    *)
KeysIssuedOnce ==
    /\ \A i, j \in DOMAIN pool : pool[i] = pool[j] => i = j
    /\ \A i \in DOMAIN pool : pool[i] \notin DOMAIN book
    /\ \A a, b \in Accounts : a # b /\ acct[a] # NoKey => acct[a] # acct[b]

(* The receiving key of an account is labelled with that account: what    *)
(* getaccountaddress returns is credited to the account it was asked for. *)
(* setaccount moving an account's current key to another account must     *)
(* first give the old account a new key, which itself may fail.           *)
CurrentKeyLabelled ==
    \A a \in Accounts : acct[a] # NoKey => acct[a] \in DOMAIN book /\ book[acct[a]] = a
=============================================================================
