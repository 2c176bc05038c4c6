------------------------------ MODULE Keystore ------------------------------
(***************************************************************************)
(* Where the secrets of an installation live: ~/.penko/.env and the OS     *)
(* keyring (core/home.py, core/keystore.py), under the commands that write *)
(* them (cli/main.py: init, secret, theme).  One command runs at a time;   *)
(* it may be killed between any two of its steps, and the keyring may be   *)
(* usable at one step and not at the next.                                 *)
(*                                                                         *)
(* The .env also holds settings that are no secrets; those stay in it and  *)
(* are left out.  PENKO_X and HARNESS_X are one name.                      *)
(***************************************************************************)
EXTENDS Naturals, FiniteSets

CONSTANTS Secrets,   \* names for which is_secret_name holds
          Token,     \* HARNESS_API_TOKEN, which init keeps or draws
          Values,    \* what they may be set to
          NoValue,
          Drawn      \* what token_hex gives

ASSUME KeystoreAssumption == Token \in Secrets /\ NoValue \notin Values /\ Drawn \in Values

VARIABLES dotenv,   \* the .env: [values, items], items being HARNESS_KEYRING_ITEMS
          keyring,  \* the OS keyring's entries
          usable,   \* whether the keyring answers
          cmd,      \* the command that runs: its write_env or delete_secret
          meant,    \* history: the values a name may have, after what was asked for
          dropped   \* history: names forgotten because the keyring did not answer

keystoreVars == <<dotenv, keyring, usable, cmd, meant, dropped>>

NoCommand == [at |-> "none"]
Stores == {"keyring", "file"}

\* keystore.get
Get(n) == IF usable THEN keyring[n] ELSE NoValue

\* load_env in a new process: the .env first, then the keyring for the names listed in it.
LoadEnv(n) ==
  IF dotenv.values[n] # NoValue THEN dotenv.values[n]
  ELSE IF n \in dotenv.items THEN Get(n) ELSE NoValue

KeystoreInit ==
  /\ dotenv = [values |-> [n \in Secrets |-> NoValue], items |-> {}]
  /\ keyring = [n \in Secrets |-> NoValue]
  /\ usable \in BOOLEAN
  /\ cmd = NoCommand
  /\ meant = [n \in Secrets |-> {NoValue}]
  /\ dropped = {}

\* The keyring gets locked, or unlocked.
KeyringToggles ==
  /\ usable' = ~usable
  /\ UNCHANGED <<dotenv, keyring, cmd, meant, dropped>>
----------------------------------------------------------------------------
(* write_env(values, store), step by step. *)

\* The file is read and the new values are merged; what is asked for is in doubt from here on.
WriteEnv(values, store) ==
  LET merged == [n \in Secrets |-> IF values[n] # NoValue THEN values[n] ELSE dotenv.values[n]] IN
  /\ cmd' = [at |-> store, merged |-> merged, items |-> dotenv.items, new |-> values, unread |-> {},
             todo |-> IF store = "keyring" THEN {n \in Secrets : merged[n] # NoValue} ELSE dotenv.items]
  /\ meant' = [n \in Secrets |-> IF values[n] # NoValue THEN meant[n] \union {values[n]} ELSE meant[n]]
  /\ UNCHANGED <<dotenv, keyring, usable, dropped>>

\* store="keyring": a secret moves to the keyring, and is read back.
MoveToKeyring(n) ==
  /\ cmd.at = "keyring" /\ n \in cmd.todo /\ usable
  /\ keyring' = [keyring EXCEPT ![n] = cmd.merged[n]]
  /\ cmd' = [cmd EXCEPT !.merged[n] = NoValue, !.items = @ \union {n}, !.todo = @ \ {n}]
  /\ UNCHANGED <<dotenv, usable, meant, dropped>>

\* Mutant of BringBack: the file's values are enough.
BringBackNothing(n) ==
  /\ cmd.at = "file" /\ n \in cmd.todo
  /\ cmd' = [cmd EXCEPT !.todo = @ \ {n}]
  /\ UNCHANGED <<dotenv, keyring, usable, meant, dropped>>

\* store="file": a secret kept in the keyring is brought back, if the keyring answers.
BringBack(n) ==
  /\ cmd.at = "file" /\ n \in cmd.todo
  /\ cmd' = [cmd EXCEPT !.merged[n] = IF @ = NoValue THEN Get(n) ELSE @, !.todo = @ \ {n},
                        !.unread = IF cmd.merged[n] = NoValue /\ ~usable THEN @ \union {n} ELSE @]
  /\ UNCHANGED <<dotenv, keyring, usable, meant, dropped>>

\* _write_file: os.replace of the whole .env.
ReplaceFile ==
  /\ cmd.at \in Stores /\ cmd.todo = {}
  /\ dotenv' = [values |-> cmd.merged, items |-> IF cmd.at = "keyring" THEN cmd.items ELSE {}]
  /\ meant' = [n \in Secrets |-> IF cmd.new[n] # NoValue THEN {cmd.new[n]} ELSE meant[n]]
  /\ dropped' = {n \in dropped \union cmd.unread : cmd.new[n] = NoValue}
  /\ cmd' = NoCommand
  /\ UNCHANGED <<keyring, usable>>
----------------------------------------------------------------------------
(* delete_secret(name): the keyring first, then the file. *)

DeleteSecret(n) ==
  LET inRing == n \in dotenv.items /\ usable /\ keyring[n] # NoValue
      removed == dotenv.values[n] # NoValue \/ inRing
  IN
  /\ cmd = NoCommand /\ removed
  /\ keyring' = IF inRing THEN [keyring EXCEPT ![n] = NoValue] ELSE keyring
  /\ cmd' = [at |-> "delete", name |-> n]
  /\ meant' = [meant EXCEPT ![n] = @ \union {NoValue}]
  /\ UNCHANGED <<dotenv, usable, dropped>>

DeleteInFile ==
  /\ cmd.at = "delete"
  /\ dotenv' = [values |-> [dotenv.values EXCEPT ![cmd.name] = NoValue], items |-> dotenv.items \ {cmd.name}]
  /\ meant' = [meant EXCEPT ![cmd.name] = {NoValue}]
  /\ dropped' = dropped \ {cmd.name}
  /\ cmd' = NoCommand
  /\ UNCHANGED <<keyring, usable>>
----------------------------------------------------------------------------
(* The commands. *)

Setting(n, v) == [m \in Secrets |-> IF m = n THEN v ELSE NoValue]

\* penko init: a provider key, and the API token the process has or a new one.
PenkoInit(store) ==
  /\ cmd = NoCommand
  /\ store = "keyring" => usable
  /\ \E n \in Secrets \ {Token}, v \in Values \union {NoValue} :
       WriteEnv([Setting(n, v) EXCEPT ![Token] = IF LoadEnv(Token) # NoValue THEN LoadEnv(Token) ELSE Drawn], store)

\* penko secret set NAME: where the installation keeps its secrets, if that answers.
SecretSet(n, v) ==
  /\ cmd = NoCommand
  /\ WriteEnv(Setting(n, v), IF dotenv.items # {} /\ usable THEN "keyring" ELSE "file")

\* penko theme set writes a setting that is no secret.
ThemeSet ==
  /\ cmd = NoCommand
  /\ WriteEnv([n \in Secrets |-> NoValue], IF dotenv.items # {} THEN "keyring" ELSE "file")

\* A keyring that does not answer makes set_secret raise; and a command may be killed anywhere.
CommandEndsEarly ==
  /\ cmd # NoCommand
  /\ cmd' = NoCommand
  /\ UNCHANGED <<dotenv, keyring, usable, meant, dropped>>

KeystoreNext ==
  \/ \E store \in Stores : PenkoInit(store)
  \/ \E n \in Secrets, v \in Values : SecretSet(n, v)
  \/ \E n \in Secrets : MoveToKeyring(n) \/ BringBack(n) \/ DeleteSecret(n)
  \/ ThemeSet \/ ReplaceFile \/ DeleteInFile \/ CommandEndsEarly \/ KeyringToggles
KeystoreSpec == KeystoreInit /\ [][KeystoreNext]_keystoreVars
----------------------------------------------------------------------------
\* Whatever commands moved secrets between the stores, and wherever one was killed, a process that
\* starts now finds every secret as it was last set or deleted (as before or as asked for, when
\* that command was cut short).  Except: a command that writes to the .env while the keyring does
\* not answer forgets what it could not read, although write_env promises to preserve it.
StoredSecretsStay == usable => \A n \in Secrets \ dropped : LoadEnv(n) \in meant[n]
=============================================================================
