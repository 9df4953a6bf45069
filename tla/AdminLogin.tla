------------------------------- MODULE AdminLogin ------------------------------
(***************************************************************************)
(* Admin logins and the second factor (routes/admin.js, utils/adminAuth.js,*)
(* models/AdminSettings.js).  A login reads the settings, accepts a code   *)
(* and marks a backup code as used in a second update; verify and disable  *)
(* load the settings, change them and save what they changed.  Mongoose    *)
(* writes the changed paths, and demands the loaded version when one of    *)
(* them is an array; the updates by query do neither.                      *)
(*                                                                         *)
(* One setup generates a secret and a batch of backup codes; both are      *)
(* named by the number of the setup, 0 being none.                         *)
(***************************************************************************)
EXTENDS Naturals

CONSTANTS
  Logins,            \* clients that log in, again and again
  Changes,           \* verify and disable requests
  BackupCodes,       \* indexes of the codes of a batch (eight)
  MaxSetups          \* bound of the instance

ASSUME AdminAssumption == MaxSetups \in Nat

VARIABLES
  settings,   \* the document { key: 'global' }
  setups,     \* setups so far
  login,      \* out, marking, accepted, in: a session of the client exists
  presented,  \* the backup code a login has accepted, at most one
  change,     \* none, authorized, verify, disable
  seen,       \* the settings a change has loaded, at most one
  spent       \* history: backup codes that have been marked as used

adminVars == <<settings, setups, login, presented, change, seen, spent>>

NoBackup == [batch |-> 0, used |-> {}]

AdminInit ==
  /\ settings = [enabled |-> FALSE, secret |-> 0, backup |-> NoBackup,
                 pendingSecret |-> 0, pendingCodes |-> 0, version |-> 0]
  /\ setups = 0
  /\ login = [l \in Logins |-> "out"]
  /\ presented = [l \in Logins |-> {}]
  /\ change = [o \in Changes |-> "none"]
  /\ seen = [o \in Changes |-> {}]
  /\ spent = {}

(* POST /login after the password: the second factor on the settings read. *)
(* A wrong or absent code changes nothing here (LoginLockout counts it).   *)
AcceptWithoutBackup(l) ==
  /\ login[l] = "out"        \* 2FA is off, or the TOTP is right
  /\ login' = [login EXCEPT ![l] = "accepted"]
  /\ UNCHANGED <<settings, setups, presented, change, seen, spent>>

AcceptBackup(l, i) ==
  /\ login[l] = "out" /\ settings.enabled
  /\ settings.backup.batch # 0 /\ i \notin settings.backup.used
  /\ login' = [login EXCEPT ![l] = "marking"]
  /\ presented' = [presented EXCEPT
                     ![l] = {[batch |-> settings.backup.batch, index |-> i]}]
  /\ UNCHANGED <<settings, setups, change, seen, spent>>

(* updateOne({ key }, backupCodes.i.used): by index, in whatever array is  *)
(* there now.  If it fails the login ends without an answer.               *)
MarkUsed(l) ==
  /\ login[l] = "marking"
  /\ presented' = [presented EXCEPT ![l] = {}]
  /\ \/ /\ \E c \in presented[l] :
             settings' = [settings EXCEPT !.backup.used = @ \cup {c.index}]
        /\ spent' = spent \cup presented[l]
        /\ login' = [login EXCEPT ![l] = "accepted"]
     \/ login' = [login EXCEPT ![l] = "out"] /\ UNCHANGED <<settings, spent>>
  /\ UNCHANGED <<setups, change, seen>>

CreateSession(l) ==
  /\ login[l] = "accepted"
  /\ login' \in {[login EXCEPT ![l] = "in"], [login EXCEPT ![l] = "out"]}
  /\ UNCHANGED <<settings, setups, presented, change, seen, spent>>

(* Logout, the TTL index, and logout-all.                                  *)
SessionEnds(l) ==
  /\ login[l] = "in"
  /\ login' = [login EXCEPT ![l] = "out"]
  /\ UNCHANGED <<settings, setups, presented, change, seen, spent>>

LogoutAll ==
  /\ \E l \in Logins : login[l] = "in"
  /\ login' = [l \in Logins |-> IF login[l] = "in" THEN "out" ELSE login[l]]
  /\ UNCHANGED <<settings, setups, presented, change, seen, spent>>

(* requireAdmin finds the session; the handler goes on after it is gone.   *)
RequireAdmin(o) ==
  /\ change[o] = "none"
  /\ \E l \in Logins : login[l] = "in"
  /\ change' = [change EXCEPT ![o] = "authorized"]
  /\ UNCHANGED <<settings, setups, login, presented, seen, spent>>

Setup(o) ==
  /\ change[o] = "authorized" /\ setups < MaxSetups
  /\ setups' = setups + 1
  /\ settings' = [settings EXCEPT !.pendingSecret = setups + 1,
                                  !.pendingCodes = setups + 1]
  /\ change' = [change EXCEPT ![o] = "none"]
  /\ UNCHANGED <<login, presented, seen, spent>>

Load(o, kind) ==
  /\ change[o] = "authorized"
  /\ kind = "verify" => settings.pendingSecret # 0
  /\ change' = [change EXCEPT ![o] = kind]
  /\ seen' = [seen EXCEPT ![o] = {settings}]
  /\ UNCHANGED <<settings, setups, login, presented, spent>>

Changed(s, kind) ==
  IF kind = "verify"
  THEN [s EXCEPT !.enabled = TRUE, !.secret = s.pendingSecret, !.pendingSecret = 0,
                 !.backup = IF s.pendingCodes = 0 THEN @
                            ELSE [batch |-> s.pendingCodes, used |-> {}],
                 !.pendingCodes = 0]
  ELSE [s EXCEPT !.enabled = FALSE, !.secret = 0, !.pendingSecret = 0,
                 !.backup = NoBackup]

OverwritesArray(s, kind) ==
  \/ Changed(s, kind).backup # s.backup
  \/ Changed(s, kind).pendingCodes # s.pendingCodes

(* document.save(): VersionError unless the version is the loaded one.     *)
MutantMaySave(s, kind) == TRUE
MaySave(s, kind) == OverwritesArray(s, kind) => settings.version = s.version
Written(now, loaded, changed) == IF changed # loaded THEN changed ELSE now
Saved(s, kind) ==
  LET c == Changed(s, kind)
  IN  [enabled |-> Written(settings.enabled, s.enabled, c.enabled),
       secret |-> Written(settings.secret, s.secret, c.secret),
       backup |-> Written(settings.backup, s.backup, c.backup),
       pendingSecret |->
         Written(settings.pendingSecret, s.pendingSecret, c.pendingSecret),
       pendingCodes |->
         Written(settings.pendingCodes, s.pendingCodes, c.pendingCodes),
       version |-> settings.version + (IF OverwritesArray(s, kind) THEN 1 ELSE 0)]

Save(o) ==
  /\ change[o] \in {"verify", "disable"}
  /\ \E s \in seen[o] :
       settings' = IF MaySave(s, change[o]) THEN Saved(s, change[o]) ELSE settings
  /\ change' = [change EXCEPT ![o] = "none"]
  /\ seen' = [seen EXCEPT ![o] = {}]
  /\ UNCHANGED <<setups, login, presented, spent>>

AdminNext ==
  \/ \E l \in Logins :
       \/ AcceptWithoutBackup(l) \/ MarkUsed(l) \/ CreateSession(l)
       \/ SessionEnds(l) \/ \E i \in BackupCodes : AcceptBackup(l, i)
  \/ LogoutAll
  \/ \E o \in Changes :
       \/ RequireAdmin(o) \/ Setup(o) \/ Save(o)
       \/ \E kind \in {"verify", "disable"} : Load(o, kind)

AdminSpec == AdminInit /\ [][AdminNext]_adminVars

--------------------------------------------------------------------------------
(* Every variable keeps its shape.                                         *)
Settings ==
  [enabled : BOOLEAN, secret : 0..MaxSetups,
   backup : [batch : 0..MaxSetups, used : SUBSET BackupCodes],
   pendingSecret : 0..MaxSetups, pendingCodes : 0..MaxSetups, version : Nat]
SomeCodes == [batch : 1..MaxSetups, index : BackupCodes]
AdminTypeOK ==
  /\ settings \in Settings
  /\ setups \in 0..MaxSetups
  /\ login \in [Logins -> {"out", "marking", "accepted", "in"}]
  /\ presented \in [Logins -> SUBSET SomeCodes]
  /\ change \in [Changes -> {"none", "authorized", "verify", "disable"}]
  /\ seen \in [Changes -> SUBSET Settings]
  /\ spent \in SUBSET SomeCodes

(* A backup code that has been spent stays marked for as long as its batch *)
(* is installed, so that no login that reads the settings afterwards takes *)
(* it again: a late verify cannot install the batch a second time, unused. *)
SpentCodesStayMarked ==
  \A c \in spent :
    settings.backup.batch = c.batch => c.index \in settings.backup.used

(* While the second factor is on, the secret and the backup codes are      *)
(* those of one setup, however setups, verifications, disablings and       *)
(* logins overlap although each writes only the paths it changed.          *)
TwoFactorIsOfOneSetup ==
  settings.enabled =>
    settings.secret # 0 /\ settings.secret = settings.backup.batch
================================================================================
