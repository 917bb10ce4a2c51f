------------------------------- MODULE Keystore -------------------------------
(***************************************************************************)
(* Keystore: a secret is encrypted with a password, saved over the file of *)
(* the one before, loaded and decrypted, by processes that may overlap,    *)
(* crash or fail while they write.  A text is a list of units: what all    *)
(* texts begin and end with, the ciphertext's, the nonce and the salt.     *)
(***************************************************************************)
EXTENDS Integers, Sequences

CONSTANTS
    Processes,  \* programs that use one keystore file
    Secrets,    \* how long a secret is; its ciphertext has as many units
    Passwords,
    MaxSaves    \* bound on the saves

\* AES-GCM adds a tag: no ciphertext is empty.
ASSUME KeystoreAssumption == Secrets \subseteq Nat \ {0}

VARIABLES
    made,       \* what was encrypted, and under which password, in order
    saving,     \* "idle", or "opened": truncated and not written
    keystore,   \* the dict each process saves, as its place in made
    file,       \* the units in the file, or NoFile
    loaded,     \* what load and decrypt last returned or raised, and whose
                \* text there was to find
    latest,     \* history: the last save that returned, or 0
    cut,        \* history: the saves cut since then
    alone,      \* history: the save under way has met no other
    settled     \* history: the last save returned without meeting another, and
                \* none has begun since

histories == <<latest, cut, alone, settled>>
keystoreVars == <<made, saving, keystore, file, loaded, histories>>

NoFile == <<<<"none", 0, 0>>>>
Opening == <<"opening", 0, 0>>
Closing == <<"closing", 0, 0>>
\* Where a write broke off within a unit.
Torn == <<"torn", 0, 0>>

KeystoreInit ==
    /\ made = <<>>
    /\ saving = [p \in Processes |-> "idle"]
    /\ keystore = [p \in Processes |-> 0]
    /\ file = NoFile
    /\ loaded = <<>>
    /\ latest = 0 /\ cut = {} /\ alone = FALSE /\ settled = FALSE

----------------------------------------------------------------------------
\* encrypt: salt and nonce are random, as is what they make of the secret.
Ciphertext(n) == [i \in 1 .. made[n].secret |-> <<"ciphertext", n, i>>]
Nonce(n) == <<"nonce", n, 0>>
Salt(n) == <<"salt", n, 0>>

\* json.dumps, in the order of the dict.
Text(n) == <<Opening>> \o Ciphertext(n) \o <<Nonce(n), Salt(n), Closing>>

\* The AES key is Argon2id's of password and salt.
Key(password, salt) == <<password, salt>>

\* What a text of units t leaves in the file when it is written from its start.
Over(t) == t \o SubSeq(file, Len(t) + 1, Len(file))

\* Faulty: a file that is there is opened without truncating it ("r+").
SaveOpensUntruncated(p) ==
    /\ saving[p] = "idle" /\ Len(made) < MaxSaves
    /\ \E secret \in Secrets, password \in Passwords :
        made' = Append(made, [secret |-> secret, password |-> password])
    /\ keystore' = [keystore EXCEPT ![p] = Len(made')]
    /\ saving' = [saving EXCEPT ![p] = "opened"]
    /\ file' = IF file = NoFile THEN <<>> ELSE file
    /\ alone' = (\A q \in Processes : saving[q] = "idle")
    /\ settled' = FALSE
    /\ UNCHANGED <<loaded, latest, cut>>

\* encrypt, then write_text up to the open that truncates the file.
SaveOpens(p) ==
    /\ saving[p] = "idle" /\ Len(made) < MaxSaves
    /\ \E secret \in Secrets, password \in Passwords :
        made' = Append(made, [secret |-> secret, password |-> password])
    /\ keystore' = [keystore EXCEPT ![p] = Len(made')]
    /\ saving' = [saving EXCEPT ![p] = "opened"]
    /\ file' = <<>>
    /\ alone' = (\A q \in Processes : saving[q] = "idle")
    /\ settled' = FALSE
    /\ UNCHANGED <<loaded, latest, cut>>

\* The text goes to the beginning of the file in one write.
SaveWrites(p) ==
    /\ saving[p] = "opened"
    /\ file' = Over(Text(keystore[p]))
    /\ saving' = [saving EXCEPT ![p] = "idle"]
    /\ latest' = keystore[p] /\ cut' = {} /\ settled' = alone
    /\ UNCHANGED <<made, keystore, loaded, alone>>

\* The process dies or write_text raises (a full disk), with some of the text
\* written, up to the end of a unit or not.
SaveCut(p) ==
    /\ saving[p] = "opened"
    /\ \E k \in 0 .. Len(Text(keystore[p])) :
        LET written == SubSeq(Text(keystore[p]), 1, k)
        IN  \/ file' = Over(written)
            \/ k < Len(Text(keystore[p])) /\ file' = Over(Append(written, Torn))
    /\ saving' = [saving EXCEPT ![p] = "idle"]
    /\ cut' = cut \cup {keystore[p]}
    /\ UNCHANGED <<made, keystore, loaded, latest, alone, settled>>

\* The units are where those of a dict are.
Parses ==
    LET m == Len(file)
    IN  /\ m >= 5
        /\ file[1] = Opening /\ file[m] = Closing
        /\ \A i \in 2 .. m - 3 : file[i][1] = "ciphertext"
        /\ file[m - 2][1] = "nonce" /\ file[m - 1][1] = "salt"

\* Whose text the dict in the file is under a password: AES-GCM finds the tag
\* right under the key, the nonce and the ciphertext of one encryption only.
Authentic(password) ==
    LET m == Len(file)
    IN  {n \in DOMAIN made :
            /\ Key(password, file[m - 1]) = Key(made[n].password, Salt(n))
            /\ file[m - 2] = Nonce(n)
            /\ SubSeq(file, 2, m - 3) = Ciphertext(n)}

\* Faulty: the tag is not compared (AES in counter mode).
DecryptUnchecked(password) == <<"data", made[file[2][2]].secret>>

Decrypt(password) ==
    IF Authentic(password) = {}
    THEN <<"InvalidTag">>
    ELSE <<"data", made[CHOOSE n \in Authentic(password) : TRUE].secret>>

\* load and decrypt.  A splice of two texts that is no dict with these fields
\* raises in loads, in decrypt's subscripts, in fromhex or in AES-GCM.
Read(password) ==
    CASE file = NoFile -> <<"FileNotFoundError">>
      [] file # NoFile /\ ~Parses -> <<"Defective">>
      [] file # NoFile /\ Parses -> Decrypt(password)

Load(p) ==
    /\ saving[p] = "idle"
    /\ \E password \in Passwords :
        loaded' = [password |-> password, by |-> Read(password), from |-> {latest} \cup cut]
    /\ UNCHANGED <<made, saving, keystore, file, histories>>

KeystoreNext == \E p \in Processes : SaveOpens(p) \/ SaveWrites(p) \/ SaveCut(p) \/ Load(p)

KeystoreSpec == KeystoreInit /\ [][KeystoreNext]_keystoreVars

----------------------------------------------------------------------------
(* Properties.                                                             *)

KeystoreTypeOK ==
    /\ \A n \in DOMAIN made : made[n].secret \in Secrets /\ made[n].password \in Passwords
    /\ saving \in [Processes -> {"idle", "opened"}]
    /\ keystore \in [Processes -> 0 .. Len(made)]
    /\ \A i \in DOMAIN file : Len(file[i]) = 3
    /\ latest \in 0 .. Len(made) /\ cut \subseteq 1 .. Len(made)
    /\ alone \in BOOLEAN /\ settled \in BOOLEAN

\* Whatever crashes and overlapping saves left in the file, of one text or of
\* several: what load and decrypt return is a secret that was encrypted with the
\* very password, and none from before the last save that returned.
LoadedIsGenuine ==
    loaded # <<>> /\ loaded.by[1] = "data" =>
        \E n \in DOMAIN made \cap loaded.from :
            made[n].secret = loaded.by[2] /\ made[n].password = loaded.password

\* A save that meets no other mends the file: whatever was in it, after the save
\* has returned its secret is read back, until the next one begins.
SaveReplaces ==
    settled => /\ latest \in DOMAIN made
               /\ Read(made[latest].password) = <<"data", made[latest].secret>>

\* wallet/keystore.py:26 "Stores encrypted mnemonic/private keys safely on
\* disk": once a save returned, the file has a keystore, that one or a later.
StoredSafely == latest # 0 => \E n \in DOMAIN made : file = Text(n)
=============================================================================
