-------------------------- MODULE LifetimesProofs --------------------------
(***************************************************************************)
(* Proofs about Lifetimes, for any number of wallets, any TTLs and any     *)
(* MaxDelay.  Wallets do not meet, so the inductive invariant is a         *)
(* predicate of one wallet's record, its two cache entries and the clock.  *)
(***************************************************************************)
EXTENDS Lifetimes, TLAPS

USE DEF Credentials, Offered, Busy, Stages

TTL(credential) == IF credential = "refresh" THEN RefreshTokenTTL ELSE AuthCodeTTL

Cached == {"storing", "answered", "holding", "asked", "validating"}
Handed == {"holding", "asked", "validating", "creating", "issuing", "refused"}
Asking == {"asked", "validating", "creating", "issuing", "refused"}

\* The clock readings of a wallet's record x are in order.
Clocked(x, n) ==
    /\ x.since <= n
    /\ x.stage \in Busy => n <= x.since + MaxDelay
    /\ x.stage \in {"storing", "answered"} => x.since <= x.stored /\ x.stored <= n
    /\ x.stage \in Handed => x.stored <= x.received /\ x.received <= x.stored + MaxDelay
    /\ x.stage = "holding" => x.received <= n
    /\ x.stage \in Asking => x.presented = x.since \/ x.stage = "refused"
    /\ x.stage \in Asking => x.received <= x.presented

\* u and t are what the caches keep of the wallet's credential.
Kept(x, u, t, n) ==
    /\ x.stage = "storing" => x.credential = "offer"
    /\ x.stage = "validating" => x.credential = "offer"
    /\ x.stage \in Cached => u = x.stored + TTL(x.credential)
    /\ x.stage \in {"answered", "holding", "asked", "validating"} /\ x.credential = "offer" =>
          /\ x.stored + PreAuthTTL <= t
          /\ x.stage = "answered" => t <= n + PreAuthTTL
          /\ x.stage # "answered" => t <= x.received + PreAuthTTL

\* What the session of the wallet still has.
Promised(x, n) ==
    /\ x.stage = "issuing" =>
          x.since + SessionTimeout <= x.exp /\ x.exp <= n + SessionTimeout
    /\ x.stage \in {"answered", "holding"} /\ x.credential = "refresh" =>
          /\ x.stored + x.expiresIn = x.exp
          /\ x.stage = "answered" => x.since + SessionTimeout <= x.exp
          /\ x.stage = "holding" => x.received + SessionTimeout <= x.exp + MaxDelay

\* A credential is only turned down when it was presented late.
Judged(x) ==
    x.stage = "refused" =>
        x.presented + 2 * MaxDelay >= x.received + Life(x.credential)

Good(x, u, t, n) == Clocked(x, n) /\ Kept(x, u, t, n) /\ Promised(x, n) /\ Judged(x)

\* The inductive invariant.
Inv == TypeOK /\ \A w \in Wallets : Good(wallet[w], until[w], txUntil[w], now)

-----------------------------------------------------------------------------
\* A step that only touches wallet w keeps the invariant if it leaves w good.
LEMMA OneWallet ==
    ASSUME Inv, NEW w \in Wallets, NEW x \in Wallet, NEW u \in Nat, NEW t \in Nat,
           now' = now,
           wallet' = [wallet EXCEPT ![w] = x],
           until' = [until EXCEPT ![w] = u],
           txUntil' = [txUntil EXCEPT ![w] = t],
           Good(x, u, t, now)
    PROVE  Inv'
  <1>1. TypeOK' BY SMT DEF Inv, TypeOK
  <1>2. ASSUME NEW v \in Wallets
        PROVE  Good(wallet'[v], until'[v], txUntil'[v], now')
    <2>1. Good(wallet[v], until[v], txUntil[v], now) BY DEF Inv
    <2>2. CASE v = w
      <3>1. wallet'[v] = x /\ until'[v] = u /\ txUntil'[v] = t
        BY <2>2, SMT DEF Inv, TypeOK
      <3> QED BY <3>1, Zenon
    <2>3. CASE v # w
      <3>1. wallet'[v] = wallet[v] /\ until'[v] = until[v] /\ txUntil'[v] = txUntil[v]
        BY <2>3, SMT DEF Inv, TypeOK
      <3> QED BY <2>1, <3>1, Zenon
    <2> QED BY <2>2, <2>3
  <1> QED BY <1>1, <1>2 DEF Inv

\* A wallet of a good state, with the types of what it keeps.
LEMMA WalletIs ==
    ASSUME Inv, NEW w \in Wallets
    PROVE  /\ wallet[w] \in Wallet
           /\ until[w] \in Nat
           /\ txUntil[w] \in Nat
           /\ now \in Nat
           /\ wallet = [wallet EXCEPT ![w] = wallet[w]]
           /\ until = [until EXCEPT ![w] = until[w]]
           /\ txUntil = [txUntil EXCEPT ![w] = txUntil[w]]
           /\ Good(wallet[w], until[w], txUntil[w], now)
  BY SMT DEF Inv, TypeOK

LEMMA InitGood == Init => Inv
  <1> SUFFICES ASSUME Init PROVE Inv OBVIOUS
  <1>1. TypeOK BY SMT DEF Init, TypeOK, Wallet
  <1>2. ASSUME NEW w \in Wallets PROVE Good(wallet[w], until[w], txUntil[w], now)
    <2>1. wallet[w].stage = "new" /\ wallet[w].since = 0 /\ now = 0 BY DEF Init
    <2> QED BY <2>1, SMT DEF Good, Clocked, Kept, Promised, Judged, Cached, Handed, Asking
  <1> QED BY <1>1, <1>2 DEF Inv

\* Time keeps a wallet good: whoever is busy still has time.
LEMMA TickGood == Inv /\ Tick => Inv'
  <1> SUFFICES ASSUME Inv, Tick PROVE Inv' OBVIOUS
  <1>1. TypeOK' BY SMT DEF Inv, TypeOK, Tick
  <1>2. ASSUME NEW w \in Wallets PROVE Good(wallet[w], until[w], txUntil[w], now + 1)
    <2> DEFINE x == wallet[w]
    <2>1. x \in Wallet /\ now \in Nat /\ until[w] \in Nat /\ txUntil[w] \in Nat
      BY DEF Inv, TypeOK
    <2>2. Good(x, until[w], txUntil[w], now) BY DEF Inv
    <2>3. x.stage \in Busy => now < x.since + MaxDelay BY DEF Tick
    <2>4. x.since \in Nat /\ x.stored \in Nat /\ x.received \in Nat /\ x.presented \in Nat
          /\ x.exp \in Nat
      BY <2>1, SMT DEF Wallet
    <2> HIDE DEF x
    <2>5. Clocked(x, now + 1)
      BY <2>1, <2>2, <2>3, <2>4, LifetimesAssumption, SMT DEF Good, Clocked, Handed, Asking
    <2>6. Kept(x, until[w], txUntil[w], now + 1)
      BY <2>1, <2>2, <2>4, LifetimesAssumption, SMT DEF Good, Kept, Cached
    <2>7. Promised(x, now + 1)
      BY <2>1, <2>2, <2>4, LifetimesAssumption, SMT DEF Good, Promised
    <2>8. Judged(x) BY <2>2 DEF Good
    <2> QED BY <2>5, <2>6, <2>7, <2>8 DEF Good, x
  <1> QED BY <1>1, <1>2 DEF Inv, Tick

\* A login or an offer starts the clock of its credential.
LEMMA SetItemGood ==
    ASSUME Inv, NEW w \in Wallets, NEW c \in {"code", "offer", "openOffer"},
           NEW s \in {"storing", "answered"},
           s = "storing" <=> c = "offer", SetItem(w, c, s)
    PROVE  Inv'
  <1> DEFINE x == wallet[w]
             y == [x EXCEPT !.stage = s, !.credential = c, !.since = now, !.stored = now]
             u == now + AuthCodeTTL
             t == txUntil[w]
  <1>1. x \in Wallet /\ until[w] \in Nat /\ txUntil[w] \in Nat /\ now \in Nat
    BY WalletIs
  <1>2. Good(x, until[w], txUntil[w], now)
    BY WalletIs
  <1>3. x.stage = "new"
    BY DEF SetItem
  <1>4. /\ now' = now
        /\ wallet' = [wallet EXCEPT ![w] = y]
        /\ until' = [until EXCEPT ![w] = u]
        /\ txUntil' = [txUntil EXCEPT ![w] = t]
    BY WalletIs DEF SetItem
  <1> HIDE DEF x
  <1>5. y \in Wallet /\ u \in Nat /\ t \in Nat
    <2>1. y \in Wallet BY <1>1, ZenonT(60) DEF Wallet
    <2>2. u \in Nat /\ t \in Nat BY <1>1, LifetimesAssumption, SMT
    <2> QED BY <2>1, <2>2
  <1>6. Good(y, u, t, now)
    BY <1>1, <1>2, <1>3, LifetimesAssumption,
       SMT DEF Good, Clocked, Kept, Promised, Judged, Cached, Handed, Asking,
               TTL, Life, Wallet
  <1> HIDE DEF y, u, t
  <1> QED BY <1>4, <1>5, <1>6, OneWallet

\* The tx_code is put away later than the item of its offer.
LEMMA SetTXCodeGood ==
    ASSUME Inv, NEW w \in Wallets, SetTXCode(w)
    PROVE  Inv'
  <1> DEFINE x == wallet[w]
             y == [x EXCEPT !.stage = "answered"]
             u == until[w]
             t == now + PreAuthTTL
  <1>1. x \in Wallet /\ until[w] \in Nat /\ txUntil[w] \in Nat /\ now \in Nat
    BY WalletIs
  <1>2. Good(x, until[w], txUntil[w], now)
    BY WalletIs
  <1>3. x.stage = "storing"
    BY DEF SetTXCode
  <1>4. /\ now' = now
        /\ wallet' = [wallet EXCEPT ![w] = y]
        /\ until' = [until EXCEPT ![w] = u]
        /\ txUntil' = [txUntil EXCEPT ![w] = t]
    BY WalletIs DEF SetTXCode
  <1> HIDE DEF x
  <1>5. y \in Wallet /\ u \in Nat /\ t \in Nat
    <2>1. y \in Wallet BY <1>1, ZenonT(60) DEF Wallet
    <2>2. u \in Nat /\ t \in Nat BY <1>1, LifetimesAssumption, SMT
    <2> QED BY <2>1, <2>2
  <1>6. Good(y, u, t, now)
    BY <1>1, <1>2, <1>3, LifetimesAssumption,
       SMT DEF Good, Clocked, Kept, Promised, Judged, Cached, Handed, Asking,
               TTL, Life, Wallet
  <1> HIDE DEF y, u, t
  <1> QED BY <1>4, <1>5, <1>6, OneWallet

\* The answer arrives within MaxDelay of the Set.
LEMMA ReceiveGood ==
    ASSUME Inv, NEW w \in Wallets, Receive(w)
    PROVE  Inv'
  <1> DEFINE x == wallet[w]
             y == [x EXCEPT !.stage = "holding", !.received = now]
             u == until[w]
             t == txUntil[w]
  <1>1. x \in Wallet /\ until[w] \in Nat /\ txUntil[w] \in Nat /\ now \in Nat
    BY WalletIs
  <1>2. Good(x, until[w], txUntil[w], now)
    BY WalletIs
  <1>3. x.stage = "answered"
    BY DEF Receive
  <1>4. /\ now' = now
        /\ wallet' = [wallet EXCEPT ![w] = y]
        /\ until' = [until EXCEPT ![w] = u]
        /\ txUntil' = [txUntil EXCEPT ![w] = t]
    BY WalletIs DEF Receive
  <1> HIDE DEF x
  <1>5. y \in Wallet /\ u \in Nat /\ t \in Nat
    <2>1. y \in Wallet BY <1>1, ZenonT(60) DEF Wallet
    <2>2. u \in Nat /\ t \in Nat BY <1>1, LifetimesAssumption, SMT
    <2> QED BY <2>1, <2>2
  <1>6. Good(y, u, t, now)
    BY <1>1, <1>2, <1>3, LifetimesAssumption,
       SMT DEF Good, Clocked, Kept, Promised, Judged, Cached, Handed, Asking,
               TTL, Life, Wallet
  <1> HIDE DEF y, u, t
  <1> QED BY <1>4, <1>5, <1>6, OneWallet

\* The wallet asks with what it holds.
LEMMA PresentGood ==
    ASSUME Inv, NEW w \in Wallets, Present(w)
    PROVE  Inv'
  <1> DEFINE x == wallet[w]
             y == [x EXCEPT !.stage = "asked", !.since = now, !.presented = now]
             u == until[w]
             t == txUntil[w]
  <1>1. x \in Wallet /\ until[w] \in Nat /\ txUntil[w] \in Nat /\ now \in Nat
    BY WalletIs
  <1>2. Good(x, until[w], txUntil[w], now)
    BY WalletIs
  <1>3. x.stage = "holding"
    BY DEF Present
  <1>4. /\ now' = now
        /\ wallet' = [wallet EXCEPT ![w] = y]
        /\ until' = [until EXCEPT ![w] = u]
        /\ txUntil' = [txUntil EXCEPT ![w] = t]
    BY WalletIs DEF Present
  <1> HIDE DEF x
  <1>5. y \in Wallet /\ u \in Nat /\ t \in Nat
    <2>1. y \in Wallet BY <1>1, ZenonT(60) DEF Wallet
    <2>2. u \in Nat /\ t \in Nat BY <1>1, LifetimesAssumption, SMT
    <2> QED BY <2>1, <2>2
  <1>6. Good(y, u, t, now)
    BY <1>1, <1>2, <1>3, LifetimesAssumption,
       SMT DEF Good, Clocked, Kept, Promised, Judged, Cached, Handed, Asking,
               TTL, Life, Wallet
  <1> HIDE DEF y, u, t
  <1> QED BY <1>4, <1>5, <1>6, OneWallet

\* What is still in the cache was presented within its TTL.
LEMMA RedeemedGood ==
    ASSUME Inv, NEW w \in Wallets, Redeem(w), now < until[w]
    PROVE  Inv'
  <1> DEFINE x == wallet[w]
             y == [x EXCEPT !.stage = "creating"]
             u == 0
             t == txUntil[w]
  <1>1. x \in Wallet /\ until[w] \in Nat /\ txUntil[w] \in Nat /\ now \in Nat
    BY WalletIs
  <1>2. Good(x, until[w], txUntil[w], now)
    BY WalletIs
  <1>3. x.stage = "asked" /\ x.credential \in {"code", "refresh"} /\ now < until[w]
    BY DEF Redeem, Goto
  <1>4. /\ now' = now
        /\ wallet' = [wallet EXCEPT ![w] = y]
        /\ until' = [until EXCEPT ![w] = u]
        /\ txUntil' = [txUntil EXCEPT ![w] = t]
    BY WalletIs DEF Redeem, Goto
  <1> HIDE DEF x
  <1>5. y \in Wallet /\ u \in Nat /\ t \in Nat
    <2>1. y \in Wallet BY <1>1, ZenonT(60) DEF Wallet
    <2>2. u \in Nat /\ t \in Nat BY <1>1, LifetimesAssumption, SMT
    <2> QED BY <2>1, <2>2
  <1>6. Good(y, u, t, now)
    BY <1>1, <1>2, <1>3, LifetimesAssumption,
       SMT DEF Good, Clocked, Kept, Promised, Judged, Cached, Handed, Asking,
               TTL, Life, Wallet
  <1> HIDE DEF y, u, t
  <1> QED BY <1>4, <1>5, <1>6, OneWallet

\* What has left the cache was presented late, but for the delays.
LEMMA ExpiredGood ==
    ASSUME Inv, NEW w \in Wallets, Redeem(w), ~(now < until[w])
    PROVE  Inv'
  <1> DEFINE x == wallet[w]
             y == [x EXCEPT !.stage = "refused"]
             u == until[w]
             t == txUntil[w]
  <1>1. x \in Wallet /\ until[w] \in Nat /\ txUntil[w] \in Nat /\ now \in Nat
    BY WalletIs
  <1>2. Good(x, until[w], txUntil[w], now)
    BY WalletIs
  <1>3. x.stage = "asked" /\ x.credential \in {"code", "refresh"} /\ ~(now < until[w])
    BY DEF Redeem, Goto
  <1>4. /\ now' = now
        /\ wallet' = [wallet EXCEPT ![w] = y]
        /\ until' = [until EXCEPT ![w] = u]
        /\ txUntil' = [txUntil EXCEPT ![w] = t]
    BY WalletIs DEF Redeem, Goto
  <1> HIDE DEF x
  <1>5. y \in Wallet /\ u \in Nat /\ t \in Nat
    <2>1. y \in Wallet BY <1>1, ZenonT(60) DEF Wallet
    <2>2. u \in Nat /\ t \in Nat BY <1>1, LifetimesAssumption, SMT
    <2> QED BY <2>1, <2>2
  <1>6. Good(y, u, t, now)
    BY <1>1, <1>2, <1>3, LifetimesAssumption,
       SMT DEF Good, Clocked, Kept, Promised, Judged, Cached, Handed, Asking,
               TTL, Life, Wallet
  <1> HIDE DEF y, u, t
  <1> QED BY <1>4, <1>5, <1>6, OneWallet

\* An offer whose item has expired is turned down.
LEMMA OfferGoneGood ==
    ASSUME Inv, NEW w \in Wallets, GetPreAuthItem(w), now >= until[w]
    PROVE  Inv'
  <1> DEFINE x == wallet[w]
             y == [x EXCEPT !.stage = "refused"]
             u == until[w]
             t == txUntil[w]
  <1>1. x \in Wallet /\ until[w] \in Nat /\ txUntil[w] \in Nat /\ now \in Nat
    BY WalletIs
  <1>2. Good(x, until[w], txUntil[w], now)
    BY WalletIs
  <1>3. x.stage = "asked" /\ x.credential \in Offered /\ now >= until[w]
    BY DEF GetPreAuthItem, Goto
  <1>4. /\ now' = now
        /\ wallet' = [wallet EXCEPT ![w] = y]
        /\ until' = [until EXCEPT ![w] = u]
        /\ txUntil' = [txUntil EXCEPT ![w] = t]
    BY <1>3, WalletIs DEF GetPreAuthItem, Goto
  <1> HIDE DEF x
  <1>5. y \in Wallet /\ u \in Nat /\ t \in Nat
    <2>1. y \in Wallet BY <1>1, ZenonT(60) DEF Wallet
    <2>2. u \in Nat /\ t \in Nat BY <1>1, LifetimesAssumption, SMT
    <2> QED BY <2>1, <2>2
  <1>6. Good(y, u, t, now)
    BY <1>1, <1>2, <1>3, LifetimesAssumption,
       SMT DEF Good, Clocked, Kept, Promised, Judged, Cached, Handed, Asking,
               TTL, Life, Wallet
  <1> HIDE DEF y, u, t
  <1> QED BY <1>4, <1>5, <1>6, OneWallet

\* An offer without a tx_code needs its item only.
LEMMA OpenOfferGood ==
    ASSUME Inv, NEW w \in Wallets, GetPreAuthItem(w),
           ~(now >= until[w]), wallet[w].credential = "openOffer"
    PROVE  Inv'
  <1> DEFINE x == wallet[w]
             y == [x EXCEPT !.stage = "creating"]
             u == until[w]
             t == txUntil[w]
  <1>1. x \in Wallet /\ until[w] \in Nat /\ txUntil[w] \in Nat /\ now \in Nat
    BY WalletIs
  <1>2. Good(x, until[w], txUntil[w], now)
    BY WalletIs
  <1>3. /\ x.stage = "asked" /\ x.credential \in Offered
        /\ ~(now >= until[w]) /\ x.credential = "openOffer"
    BY DEF GetPreAuthItem, Goto
  <1>4. /\ now' = now
        /\ wallet' = [wallet EXCEPT ![w] = y]
        /\ until' = [until EXCEPT ![w] = u]
        /\ txUntil' = [txUntil EXCEPT ![w] = t]
    BY <1>3, WalletIs DEF GetPreAuthItem, Goto
  <1> HIDE DEF x
  <1>5. y \in Wallet /\ u \in Nat /\ t \in Nat
    <2>1. y \in Wallet BY <1>1, ZenonT(60) DEF Wallet
    <2>2. u \in Nat /\ t \in Nat BY <1>1, LifetimesAssumption, SMT
    <2> QED BY <2>1, <2>2
  <1>6. Good(y, u, t, now)
    BY <1>1, <1>2, <1>3, LifetimesAssumption,
       SMT DEF Good, Clocked, Kept, Promised, Judged, Cached, Handed, Asking,
               TTL, Life, Wallet
  <1> HIDE DEF y, u, t
  <1> QED BY <1>4, <1>5, <1>6, OneWallet

\* The item of an offer with a tx_code was presented within its TTL.
LEMMA OfferFoundGood ==
    ASSUME Inv, NEW w \in Wallets, GetPreAuthItem(w),
           ~(now >= until[w]), wallet[w].credential # "openOffer"
    PROVE  Inv'
  <1> DEFINE x == wallet[w]
             y == [x EXCEPT !.stage = "validating"]
             u == until[w]
             t == txUntil[w]
  <1>1. x \in Wallet /\ until[w] \in Nat /\ txUntil[w] \in Nat /\ now \in Nat
    BY WalletIs
  <1>2. Good(x, until[w], txUntil[w], now)
    BY WalletIs
  <1>3. /\ x.stage = "asked" /\ x.credential \in Offered
        /\ ~(now >= until[w]) /\ x.credential # "openOffer"
    BY DEF GetPreAuthItem, Goto
  <1>4. /\ now' = now
        /\ wallet' = [wallet EXCEPT ![w] = y]
        /\ until' = [until EXCEPT ![w] = u]
        /\ txUntil' = [txUntil EXCEPT ![w] = t]
    BY <1>3, WalletIs DEF GetPreAuthItem, Goto
  <1> HIDE DEF x
  <1>5. y \in Wallet /\ u \in Nat /\ t \in Nat
    <2>1. y \in Wallet BY <1>1, ZenonT(60) DEF Wallet
    <2>2. u \in Nat /\ t \in Nat BY <1>1, LifetimesAssumption, SMT
    <2> QED BY <2>1, <2>2
  <1>6. Good(y, u, t, now)
    BY <1>1, <1>2, <1>3, LifetimesAssumption,
       SMT DEF Good, Clocked, Kept, Promised, Judged, Cached, Handed, Asking,
               TTL, Life, Wallet
  <1> HIDE DEF y, u, t
  <1> QED BY <1>4, <1>5, <1>6, OneWallet

\* The tx_code was presented within its TTL too.
LEMMA TXCodeFoundGood ==
    ASSUME Inv, NEW w \in Wallets, ValidateTXCode(w), now < txUntil[w]
    PROVE  Inv'
  <1> DEFINE x == wallet[w]
             y == [x EXCEPT !.stage = "creating"]
             u == until[w]
             t == txUntil[w]
  <1>1. x \in Wallet /\ until[w] \in Nat /\ txUntil[w] \in Nat /\ now \in Nat
    BY WalletIs
  <1>2. Good(x, until[w], txUntil[w], now)
    BY WalletIs
  <1>3. x.stage = "validating" /\ now < txUntil[w]
    BY DEF ValidateTXCode, Goto
  <1>4. /\ now' = now
        /\ wallet' = [wallet EXCEPT ![w] = y]
        /\ until' = [until EXCEPT ![w] = u]
        /\ txUntil' = [txUntil EXCEPT ![w] = t]
    BY <1>3, WalletIs DEF ValidateTXCode, Goto
  <1> HIDE DEF x
  <1>5. y \in Wallet /\ u \in Nat /\ t \in Nat
    <2>1. y \in Wallet BY <1>1, ZenonT(60) DEF Wallet
    <2>2. u \in Nat /\ t \in Nat BY <1>1, LifetimesAssumption, SMT
    <2> QED BY <2>1, <2>2
  <1>6. Good(y, u, t, now)
    BY <1>1, <1>2, <1>3, LifetimesAssumption,
       SMT DEF Good, Clocked, Kept, Promised, Judged, Cached, Handed, Asking,
               TTL, Life, Wallet
  <1> HIDE DEF y, u, t
  <1> QED BY <1>4, <1>5, <1>6, OneWallet

\* The tx_code has left its cache.
LEMMA TXCodeGoneGood ==
    ASSUME Inv, NEW w \in Wallets, ValidateTXCode(w), ~(now < txUntil[w])
    PROVE  Inv'
  <1> DEFINE x == wallet[w]
             y == [x EXCEPT !.stage = "refused"]
             u == until[w]
             t == txUntil[w]
  <1>1. x \in Wallet /\ until[w] \in Nat /\ txUntil[w] \in Nat /\ now \in Nat
    BY WalletIs
  <1>2. Good(x, until[w], txUntil[w], now)
    BY WalletIs
  <1>3. x.stage = "validating" /\ ~(now < txUntil[w])
    BY DEF ValidateTXCode, Goto
  <1>4. /\ now' = now
        /\ wallet' = [wallet EXCEPT ![w] = y]
        /\ until' = [until EXCEPT ![w] = u]
        /\ txUntil' = [txUntil EXCEPT ![w] = t]
    BY <1>3, WalletIs DEF ValidateTXCode, Goto
  <1> HIDE DEF x
  <1>5. y \in Wallet /\ u \in Nat /\ t \in Nat
    <2>1. y \in Wallet BY <1>1, ZenonT(60) DEF Wallet
    <2>2. u \in Nat /\ t \in Nat BY <1>1, LifetimesAssumption, SMT
    <2> QED BY <2>1, <2>2
  <1>6. Good(y, u, t, now)
    BY <1>1, <1>2, <1>3, LifetimesAssumption,
       SMT DEF Good, Clocked, Kept, Promised, Judged, Cached, Handed, Asking,
               TTL, Life, Wallet
  <1> HIDE DEF y, u, t
  <1> QED BY <1>4, <1>5, <1>6, OneWallet

\* The session is touched when it is created.
LEMMA CreateSessionGood ==
    ASSUME Inv, NEW w \in Wallets, CreateSession(w)
    PROVE  Inv'
  <1> DEFINE x == wallet[w]
             y == [x EXCEPT !.stage = "issuing", !.exp = now + SessionTimeout]
             u == until[w]
             t == txUntil[w]
  <1>1. x \in Wallet /\ until[w] \in Nat /\ txUntil[w] \in Nat /\ now \in Nat
    BY WalletIs
  <1>2. Good(x, until[w], txUntil[w], now)
    BY WalletIs
  <1>3. x.stage = "creating"
    BY DEF CreateSession
  <1>4. /\ now' = now
        /\ wallet' = [wallet EXCEPT ![w] = y]
        /\ until' = [until EXCEPT ![w] = u]
        /\ txUntil' = [txUntil EXCEPT ![w] = t]
    BY <1>3, WalletIs DEF CreateSession
  <1> HIDE DEF x
  <1>5. y \in Wallet /\ u \in Nat /\ t \in Nat
    <2>1. now + SessionTimeout \in Nat BY <1>1, LifetimesAssumption, SMT
    <2>2. y \in Wallet BY <1>1, <2>1, ZenonT(60) DEF Wallet
    <2>3. u \in Nat /\ t \in Nat BY <1>1
    <2> QED BY <2>2, <2>3
  <1>6. Good(y, u, t, now)
    BY <1>1, <1>2, <1>3, LifetimesAssumption,
       SMT DEF Good, Clocked, Kept, Promised, Judged, Cached, Handed, Asking,
               TTL, Life, Wallet
  <1> HIDE DEF y, u, t
  <1> QED BY <1>4, <1>5, <1>6, OneWallet

\* The wallet is left without a refresh token.
LEMMA DoneGood ==
    ASSUME Inv, NEW w \in Wallets, wallet[w].stage = "issuing",
           UNCHANGED <<now, until, txUntil>>,
           wallet' = [wallet EXCEPT ![w].stage = "done"]
    PROVE  Inv'
  <1> DEFINE x == wallet[w]
             y == [x EXCEPT !.stage = "done"]
             u == until[w]
             t == txUntil[w]
  <1>1. x \in Wallet /\ until[w] \in Nat /\ txUntil[w] \in Nat /\ now \in Nat
    BY WalletIs
  <1>2. Good(x, until[w], txUntil[w], now)
    BY WalletIs
  <1>3. x.stage = "issuing"
    BY DEF CreateSession
  <1>4. /\ now' = now
        /\ wallet' = [wallet EXCEPT ![w] = y]
        /\ until' = [until EXCEPT ![w] = u]
        /\ txUntil' = [txUntil EXCEPT ![w] = t]
    BY <1>3, WalletIs DEF CreateSession
  <1> HIDE DEF x
  <1>5. y \in Wallet /\ u \in Nat /\ t \in Nat
    <2>1. y \in Wallet BY <1>1, ZenonT(60) DEF Wallet
    <2>2. u \in Nat /\ t \in Nat BY <1>1, LifetimesAssumption, SMT
    <2> QED BY <2>1, <2>2
  <1>6. Good(y, u, t, now)
    BY <1>1, <1>2, <1>3, LifetimesAssumption,
       SMT DEF Good, Clocked, Kept, Promised, Judged, Cached, Handed, Asking,
               TTL, Life, Wallet
  <1> HIDE DEF y, u, t
  <1> QED BY <1>4, <1>5, <1>6, OneWallet

\* The refresh token gets a whole TTL, and expires_in the rest of the session.
LEMMA IssueGood ==
    ASSUME Inv, NEW w \in Wallets, Issue(w)
    PROVE  Inv'
  <1> DEFINE x == wallet[w]
             y == [x EXCEPT !.stage = "answered",
                            !.credential = "refresh",
                            !.stored = now,
                            !.expiresIn = x.exp - now]
             u == now + RefreshTokenTTL
             t == txUntil[w]
  <1>1. x \in Wallet /\ until[w] \in Nat /\ txUntil[w] \in Nat /\ now \in Nat
    BY WalletIs
  <1>2. Good(x, until[w], txUntil[w], now)
    BY WalletIs
  <1>3. x.stage = "issuing"
    BY DEF Issue
  <1>4. CASE /\ until' = [until EXCEPT ![w] = now + RefreshTokenTTL]
             /\ wallet' = [wallet EXCEPT ![w].stage = "answered",
                                         ![w].credential = "refresh",
                                         ![w].stored = now,
                                         ![w].expiresIn = wallet[w].exp - now]
    <2>1. /\ now' = now
          /\ wallet' = [wallet EXCEPT ![w] = y]
          /\ until' = [until EXCEPT ![w] = u]
          /\ txUntil' = [txUntil EXCEPT ![w] = t]
      <3>1. now' = now /\ txUntil' = txUntil BY DEF Issue
      <3>2. wallet' = [wallet EXCEPT ![w] = y]
        <4>1. wallet \in [Wallets -> Wallet] BY DEF Inv, TypeOK
        <4> QED BY <1>4, <4>1
      <3>3. until' = [until EXCEPT ![w] = u] BY <1>4
      <3>4. txUntil' = [txUntil EXCEPT ![w] = t] BY <3>1, WalletIs
      <3> QED BY <3>1, <3>2, <3>3, <3>4
    <2> HIDE DEF x
    <2>2. y \in Wallet /\ u \in Nat /\ t \in Nat
      <3>1. x.exp - now \in Int BY <1>1, SMT DEF Wallet
      <3>2. y \in Wallet BY <1>1, <3>1, ZenonT(60) DEF Wallet
      <3>3. u \in Nat /\ t \in Nat BY <1>1, LifetimesAssumption, SMT
      <3> QED BY <3>2, <3>3
    <2>3. Good(y, u, t, now)
      BY <1>1, <1>2, <1>3, LifetimesAssumption,
         SMT DEF Good, Clocked, Kept, Promised, Judged, Cached, Handed, Asking,
               TTL, Life, Wallet
    <2> HIDE DEF y, u, t
    <2> QED BY <2>1, <2>2, <2>3, OneWallet
  <1>5. CASE wallet' = [wallet EXCEPT ![w].stage = "done"] /\ UNCHANGED until
    BY <1>3, <1>5, DoneGood DEF Issue
  <1> QED BY <1>4, <1>5 DEF Issue

-----------------------------------------------------------------------------
LEMMA StepGood ==
    ASSUME Inv, NEW w \in Wallets, Step(w)
    PROVE  Inv'
  <1>1. CASE Callback(w) BY <1>1, SetItemGood DEF Callback
  <1>2. CASE PreauthGenerate(w) BY <1>2, SetItemGood DEF PreauthGenerate
  <1>3. CASE SetTXCode(w) BY <1>3, SetTXCodeGood
  <1>4. CASE Receive(w) BY <1>4, ReceiveGood
  <1>5. CASE Present(w) BY <1>5, PresentGood
  <1>6. CASE Redeem(w) BY <1>6, RedeemedGood, ExpiredGood
  <1>7. CASE GetPreAuthItem(w)
    BY <1>7, OfferGoneGood, OpenOfferGood, OfferFoundGood
  <1>8. CASE ValidateTXCode(w) BY <1>8, TXCodeFoundGood, TXCodeGoneGood
  <1>9. CASE CreateSession(w) BY <1>9, CreateSessionGood
  <1>10. CASE Issue(w) BY <1>10, IssueGood
  <1> QED
    BY <1>1, <1>2, <1>3, <1>4, <1>5, <1>6, <1>7, <1>8, <1>9, <1>10 DEF Step

LEMMA Inductive == Inv /\ [Next]_vars => Inv'
  <1> SUFFICES ASSUME Inv, [Next]_vars PROVE Inv' OBVIOUS
  <1>1. CASE Tick BY <1>1, TickGood
  <1>2. ASSUME NEW w \in Wallets, Step(w) PROVE Inv' BY <1>2, StepGood
  <1>3. CASE UNCHANGED vars BY <1>3 DEF vars, Inv, TypeOK
  <1> QED BY <1>1, <1>2, <1>3 DEF Next

LEMMA Invariance == Spec => []Inv
  BY InitGood, Inductive, PTL DEF Spec

\* The clock, the caches and the wallets are well typed (store.go:69-116).
THEOREM LifetimeTypes == Spec => []TypeOK
  <1>1. Inv => TypeOK BY DEF Inv
  <1> QED BY <1>1, Invariance, PTL

\* For any TTLs and delays: a wallet that asks within the TTL of what it holds,
\* less one delay each way, is not refused, however many rotations its refresh
\* token has behind it (token.go:316-378, config.go:23-27).
THEOREM ActiveWalletsContinue == Spec => []ActiveWalletContinues
  <1>1. Inv => ActiveWalletContinues
    BY DEF Inv, ActiveWalletContinues, Good, Judged
  <1> QED BY <1>1, Invariance, PTL

\* For any TTLs and delays: expires_in is right but for the delay of the answer
\* (token.go:281-288).
THEOREM ExpiresInIsHonest == Spec => []ExpiresInHonest
  <1>1. Inv => ExpiresInHonest
    <2> SUFFICES ASSUME Inv, NEW w \in Wallets,
                        wallet[w].stage = "holding" /\ wallet[w].credential = "refresh"
                 PROVE  /\ wallet[w].exp + MaxDelay >= wallet[w].received + SessionTimeout
                        /\ wallet[w].received + wallet[w].expiresIn \in
                              wallet[w].exp .. wallet[w].exp + MaxDelay
      BY DEF ExpiresInHonest
    <2>1. wallet[w] \in Wallet /\ Good(wallet[w], until[w], txUntil[w], now)
      BY WalletIs
    <2> QED
      BY <2>1, LifetimesAssumption, SMT DEF Good, Clocked, Promised, Handed, Wallet
  <1> QED BY <1>1, Invariance, PTL
=============================================================================
