----------------------------- MODULE KeyDerivation -----------------------------
(***************************************************************************)
(* From a mnemonic to the keys and addresses of a wallet: derive_key along *)
(* m/44'/2400'/account'/role/index, and the sub-wallets made of three of   *)
(* its keys.  Hashes and MACs are the records of what they are computed    *)
(* from; concatenated parts have fixed lengths, so a tuple tells as much.  *)
(***************************************************************************)
EXTENDS Integers, Sequences

CONSTANTS
    Mnemonics,     \* what callers pass as a mnemonic
    Valid,         \* the mnemonics whose checksum is right
    Accounts,
    KeyIndices,    \* what callers pass as an index
    WordBits,      \* width of a path element, 32 in the code
    Environments,  \* with the sr25519 bindings ("sr25519") or without ("blake2b")
    Pending

ASSUME KeyAssumption ==
    /\ Valid \subseteq Mnemonics
    /\ WordBits \in Nat \ {0}
    /\ Accounts \subseteq Nat /\ KeyIndices \subseteq Nat
    /\ Environments \subseteq {"sr25519", "blake2b"}

HARDENED == 2 ^ (WordBits - 1)
MIDNIGHT_COIN_TYPE == 3  \* 2400 in the code: any element other than 44
PURPOSE == 2             \* 44

Roles == [NIGHT_EXTERNAL |-> 0, NIGHT_INTERNAL |-> 1, DUST |-> 2, ZSWAP |-> 3]

VARIABLES
    environment,  \* SR25519_AVAILABLE of the process
    request,      \* what is asked for
    derived       \* key, wallet or exception

keysVars == <<environment, request, derived>>

----------------------------------------------------------------------------
(* Child keys.                                                             *)

\* HMAC-SHA512 and its halves: a key and a chain code.
HmacSha512(key, data) ==
    [key |-> [half |-> "left", mac |-> key, of |-> data],
     chain |-> [half |-> "right", mac |-> key, of |-> data]]

MnemonicToSeed(mnemonic) == [pbkdf2 |-> mnemonic]

DeriveMaster(seed) == HmacSha512("Bitcoin seed", seed)

\* index | HARDENED
Harden(index) == IF (index \div HARDENED) % 2 = 0 THEN index + HARDENED ELSE index

\* struct.pack(">I", n) raises for a number that has no four bytes.
Packs(n) == n < 2 ^ WordBits

CkdHardened(parent, index) ==
    HmacSha512(parent.chain, <<0, parent.key, Harden(index)>>)

\* The sr25519 public key, or a hash in its place.
PublicKey(secret) == [by |-> environment, of |-> secret]

CkdNormal(parent, index) ==
    HmacSha512(parent.chain, <<PublicKey(parent.key), index>>)

Account(seed, account) ==
    CkdHardened(CkdHardened(CkdHardened(DeriveMaster(seed), PURPOSE), MIDNIGHT_COIN_TYPE),
                account)

\* Faulty: role and index in one path element.
DeriveKeyShort(seed, account, role, index) ==
    CkdNormal(Account(seed, account), role + index).key

DeriveKey(seed, account, role, index) ==
    CkdNormal(CkdNormal(Account(seed, account), role), index).key

----------------------------------------------------------------------------
(* The sub-wallets.                                                        *)

Sha256(data) == [sha256 |-> data]

\* sample_bytes(64, domain, seed): two rounds, each hashed with its number.
SampleBytes(domain, seed) == [n \in 1 .. 2 |-> Sha256(<<domain, Sha256(<<n - 1, seed>>)>>)]

\* UnshieldedWallet: the address is a hash of the public key.
Unshielded(key) ==
    [secret |-> key, public_key |-> PublicKey(key), address |-> <<Sha256(PublicKey(key))>>]

CoinSecretKey(seed) == Sha256(<<"midnight:csk", seed>>)
CoinPublicKey(seed) == Sha256(<<"midnight:zswap-pk[v1]", CoinSecretKey(seed)>>)

EncryptionSecretKey(seed) == SampleBytes("midnight:esk", seed)
EncryptionPublicKey(seed) == [generator_times |-> EncryptionSecretKey(seed)]

\* ShieldedWallet: the address is both public keys.
Shielded(seed) ==
    [secret |-> <<CoinSecretKey(seed), EncryptionSecretKey(seed)>>,
     public_key |-> CoinPublicKey(seed),
     address |-> <<CoinPublicKey(seed), EncryptionPublicKey(seed)>>]

\* DustWallet: the address is the public key behind a byte 0x73.
Dust(seed) ==
    [secret |-> seed, public_key |-> PublicKey(seed), address |-> <<"0x73", PublicKey(seed)>>]

\* SpendingKey: index 0 of three roles.
SpendingKey(mnemonic, account) ==
    LET key(role) == DeriveKey(MnemonicToSeed(mnemonic), account, role, 0)
    IN  [night |-> key(Roles.NIGHT_EXTERNAL), zswap |-> key(Roles.ZSWAP),
         dust |-> key(Roles.DUST)]

\* MidnightWallet(mnemonic, network, account) calls SpendingKey.from_mnemonic,
\* which takes no account: it is 0 for every wallet.
MidnightWallet(mnemonic, account) ==
    LET keys == SpendingKey(mnemonic, 0)
    IN  [unshielded |-> Unshielded(keys.night), shielded |-> Shielded(keys.zswap),
         dust |-> Dust(keys.dust)]

----------------------------------------------------------------------------
KeyRequests ==
    [mnemonic : Mnemonics, account : Accounts, role : {Roles[r] : r \in DOMAIN Roles},
     index : KeyIndices]

WalletRequests == [mnemonic : Mnemonics, account : Accounts]

KeysInit ==
    /\ environment \in Environments
    /\ request \in KeyRequests \cup WalletRequests
    /\ derived = Pending

AnswerKey ==
    /\ derived = Pending
    /\ request \in KeyRequests
    /\ derived' =
        CASE request.mnemonic \notin Valid -> [raised |-> "InvalidMnemonicError"]
          [] ~Packs(Harden(request.account)) \/ ~Packs(request.index) -> [raised |-> "struct.error"]
          [] OTHER -> [key |-> DeriveKey(MnemonicToSeed(request.mnemonic), request.account,
                                         request.role, request.index)]
    /\ UNCHANGED <<environment, request>>

OpenWallet ==
    /\ derived = Pending
    /\ request \in WalletRequests
    /\ derived' = IF request.mnemonic \notin Valid THEN [raised |-> "InvalidMnemonicError"]
                  ELSE [wallet |-> MidnightWallet(request.mnemonic, request.account)]
    /\ UNCHANGED <<environment, request>>

KeysNext == AnswerKey \/ OpenWallet

KeysSpec == KeysInit /\ [][KeysNext]_keysVars

----------------------------------------------------------------------------
\* The account, up to the bit that hardens it, which is set in any case.
SameAccount(a, b) == Harden(a) = Harden(b)

\* Two paths have one key only if they are one path: no role, index, account
\* or mnemonic runs into another's, on either side of HARDENED; and an address
\* belongs to the wallet of one mnemonic (keys.py 119-182, jubjub.py 34-79).
KeysSeparate ==
    /\ derived # Pending /\ "key" \in DOMAIN derived =>
        \A other \in KeyRequests :
            derived.key = DeriveKey(MnemonicToSeed(other.mnemonic), other.account,
                                    other.role, other.index)
            => /\ SameAccount(other.account, request.account)
               /\ [other EXCEPT !.account = request.account] = request
    /\ derived # Pending /\ "wallet" \in DOMAIN derived =>
        \A mnemonic \in Valid : \A kind \in DOMAIN derived.wallet :
            derived.wallet[kind].address = MidnightWallet(mnemonic, 0)[kind].address
            => mnemonic = request.mnemonic

\* wallet/wallet.py:31 takes an account, keys.py:14 "Path: m/44'/2400'/
\* account'/role/index": wallets of two accounts have different addresses.
AccountsSeparate ==
    derived # Pending /\ "wallet" \in DOMAIN derived =>
        \A account \in Accounts :
            MidnightWallet(request.mnemonic, account) = derived.wallet
                => SameAccount(account, request.account)
=============================================================================
