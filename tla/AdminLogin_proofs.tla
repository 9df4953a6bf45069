---------------------------- MODULE AdminLogin_proofs ---------------------------
(***************************************************************************)
(* The second factor of the admin, for any sets of clients, of requests    *)
(* that change it and of backup codes.                                     *)
(***************************************************************************)
EXTENDS AdminLogin, TLAPS

(* Settings are of one setup at a time; a pending setup is complete.       *)
Whole(r) ==
  /\ r.pendingSecret # 0 => r.pendingCodes = r.pendingSecret
  /\ r.secret = r.backup.batch
  /\ r.enabled = (r.secret # 0)

(* A pending batch has not been installed, presented or spent.             *)
Unused(b) ==
  b # 0 =>
    /\ b # settings.backup.batch
    /\ \A c \in spent : c.batch # b
    /\ \A l \in Logins : \A c \in presented[l] : c.batch # b

(* Setups are numbered in order; a login presents one code.                *)
Numbered ==
  /\ settings.backup.batch <= setups /\ settings.pendingCodes <= setups
  /\ \A c \in spent : c.batch <= setups
  /\ \A l \in Logins : \A c \in presented[l] : c.batch <= setups
SingleCode == \A l \in Logins : \A c, d \in presented[l] : c = d

(* Loaded settings of the present version are those of the document but    *)
(* for used marks and pending fields.                                      *)
LoadedInv(r) ==
  /\ Whole(r)
  /\ r.version <= settings.version /\ r.pendingCodes <= setups
  /\ r.version = settings.version =>
       r.enabled = settings.enabled /\ r.secret = settings.secret
       /\ Unused(r.pendingCodes)

AdminInv ==
  /\ Whole(settings) /\ Unused(settings.pendingCodes) /\ Numbered /\ SingleCode
  /\ \A o \in Changes : \A r \in seen[o] :
       LoadedInv(r) /\ (change[o] = "verify" => r.pendingSecret # 0)
  /\ SpentCodesStayMarked

--------------------------------------------------------------------------------
(* The fields of what a change makes of the settings it has loaded.        *)
LEMMA VerifyFields ==
  ASSUME NEW r \in Settings
  PROVE  LET c == Changed(r, "verify")
         IN  /\ c.enabled = TRUE /\ c.secret = r.pendingSecret
             /\ c.pendingSecret = 0 /\ c.pendingCodes = 0
             /\ c.backup = IF r.pendingCodes = 0 THEN r.backup
                           ELSE [batch |-> r.pendingCodes, used |-> {}]
             /\ c.backup \in [batch : 0..MaxSetups, used : SUBSET BackupCodes]
  BY DEF Changed, Settings

LEMMA DisableFields ==
  ASSUME NEW r \in Settings
  PROVE  LET c == Changed(r, "disable")
         IN  /\ c.enabled = FALSE /\ c.secret = 0
             /\ c.pendingSecret = 0 /\ c.pendingCodes = r.pendingCodes
             /\ c.backup = NoBackup
  BY DEF Changed, Settings

LEMMA SavedType ==
  ASSUME AdminAssumption, settings \in Settings, NEW r \in Settings,
         NEW kind \in {"verify", "disable"}
  PROVE  Saved(r, kind) \in Settings
<1> USE DEF AdminAssumption
<1> DEFINE c == Changed(r, kind)
<1>1. NoBackup \in [batch : 0..MaxSetups, used : SUBSET BackupCodes]
  BY DEF NoBackup
<1>2. /\ c.secret \in 0..MaxSetups /\ c.pendingSecret \in 0..MaxSetups
      /\ c.pendingCodes \in 0..MaxSetups
      /\ c.backup \in [batch : 0..MaxSetups, used : SUBSET BackupCodes]
  <2>1. CASE kind = "verify"
    <3>1. /\ r.pendingSecret \in 0..MaxSetups /\ 0 \in 0..MaxSetups
      BY DEF Settings
    <3>2. /\ c.secret = r.pendingSecret /\ c.pendingSecret = 0
          /\ c.pendingCodes = 0
          /\ c.backup \in [batch : 0..MaxSetups, used : SUBSET BackupCodes]
      BY <2>1, VerifyFields
    <3> QED
      BY <3>1, <3>2
  <2>2. CASE kind = "disable"
    <3>1. /\ r.pendingCodes \in 0..MaxSetups /\ 0 \in 0..MaxSetups
      BY DEF Settings
    <3>2. /\ c.secret = 0 /\ c.pendingSecret = 0
          /\ c.pendingCodes = r.pendingCodes /\ c.backup = NoBackup
      BY <2>2, DisableFields
    <3> QED
      BY <1>1, <3>1, <3>2
  <2> QED
    BY <2>1, <2>2
<1>3. c.enabled \in BOOLEAN
  BY VerifyFields, DisableFields
<1>4. settings.version + (IF OverwritesArray(r, kind) THEN 1 ELSE 0) \in Nat
  BY DEF Settings
<1>5. Written(settings.enabled, r.enabled, c.enabled) \in BOOLEAN
  BY <1>3 DEF Written, Settings
<1>6. /\ Written(settings.secret, r.secret, c.secret) \in 0..MaxSetups
      /\ Written(settings.pendingSecret, r.pendingSecret, c.pendingSecret)
           \in 0..MaxSetups
      /\ Written(settings.pendingCodes, r.pendingCodes, c.pendingCodes)
           \in 0..MaxSetups
      /\ Written(settings.backup, r.backup, c.backup)
           \in [batch : 0..MaxSetups, used : SUBSET BackupCodes]
  BY <1>2 DEF Written, Settings
<1> QED
  BY <1>4, <1>5, <1>6 DEF Saved, Settings

LEMMA TypeLogin ==
  ASSUME AdminTypeOK, NEW l \in Logins,
         AcceptWithoutBackup(l) \/ MarkUsed(l) \/ CreateSession(l)
           \/ SessionEnds(l) \/ \E i \in BackupCodes : AcceptBackup(l, i)
  PROVE  AdminTypeOK'
<1> USE DEF AdminTypeOK
<1>1. CASE AcceptWithoutBackup(l)
  BY <1>1 DEF AcceptWithoutBackup
<1>2. CASE MarkUsed(l)
  <2>1. settings' \in Settings
    <3>1. CASE UNCHANGED settings
      BY <3>1
    <3>2. ASSUME NEW c \in presented[l],
                 settings' = [settings EXCEPT !.backup.used = @ \cup {c.index}]
          PROVE  settings' \in Settings
      <4>1. c.index \in BackupCodes
        BY DEF SomeCodes
      <4>2. settings.backup \in [batch : 0..MaxSetups, used : SUBSET BackupCodes]
        BY DEF Settings
      <4>3. [settings.backup EXCEPT !.used = @ \cup {c.index}]
              \in [batch : 0..MaxSetups, used : SUBSET BackupCodes]
        BY <4>1, <4>2
      <4> QED
        BY <3>2, <4>3 DEF Settings
    <3> QED
      BY <1>2, <3>1, <3>2 DEF MarkUsed
  <2>2. /\ login' \in [Logins -> {"out", "marking", "accepted", "in"}]
        /\ presented' \in [Logins -> SUBSET SomeCodes]
        /\ spent' \in SUBSET SomeCodes
    BY <1>2 DEF MarkUsed
  <2> QED
    BY <1>2, <2>1, <2>2 DEF MarkUsed
<1>3. CASE CreateSession(l)
  BY <1>3 DEF CreateSession
<1>4. CASE SessionEnds(l)
  BY <1>4 DEF SessionEnds
<1>5. ASSUME NEW i \in BackupCodes, AcceptBackup(l, i) PROVE AdminTypeOK'
  <2>1. settings.backup.batch \in 1..MaxSetups
    BY <1>5, AdminAssumption DEF AcceptBackup, Settings, AdminAssumption
  <2>2. [batch |-> settings.backup.batch, index |-> i] \in SomeCodes
    BY <2>1 DEF SomeCodes
  <2> QED
    BY <1>5, <2>2 DEF AcceptBackup
<1> QED
  BY <1>1, <1>2, <1>3, <1>4, <1>5

LEMMA TypeChange ==
  ASSUME AdminTypeOK, NEW o \in Changes,
         RequireAdmin(o) \/ Setup(o) \/ Save(o)
           \/ \E kind \in {"verify", "disable"} : Load(o, kind)
  PROVE  AdminTypeOK'
<1> USE AdminAssumption DEF AdminAssumption, AdminTypeOK
<1>1. CASE RequireAdmin(o)
  BY <1>1 DEF RequireAdmin
<1>2. CASE Setup(o)
  <2>1. setups + 1 \in 0..MaxSetups
    BY <1>2 DEF Setup
  <2>2. settings' \in Settings
    BY <1>2, <2>1 DEF Setup, Settings
  <2> QED
    BY <1>2, <2>1, <2>2 DEF Setup
<1>3. CASE Save(o)
  <2>1. PICK r \in seen[o] :
          settings' = IF MaySave(r, change[o]) THEN Saved(r, change[o]) ELSE settings
    BY <1>3 DEF Save
  <2>2. settings' \in Settings
    BY <1>3, <2>1, SavedType DEF Save
  <2> QED
    BY <1>3, <2>2 DEF Save
<1>4. ASSUME NEW kind \in {"verify", "disable"}, Load(o, kind) PROVE AdminTypeOK'
  BY <1>4 DEF Load
<1> QED
  BY <1>1, <1>2, <1>3, <1>4

(* Every variable keeps its shape, whoever logs in and whatever is saved.  *)
THEOREM AdminTypeCorrect == AdminSpec => []AdminTypeOK
<1>1. AdminInit => AdminTypeOK
  BY AdminAssumption DEF AdminAssumption, AdminInit, AdminTypeOK, Settings,
     NoBackup
<1>2. AdminTypeOK /\ [AdminNext]_adminVars => AdminTypeOK'
  <2>1. ASSUME AdminTypeOK, AdminNext PROVE AdminTypeOK'
    <3>1. CASE LogoutAll
      BY <2>1, <3>1 DEF LogoutAll, AdminTypeOK
    <3> QED
      BY <2>1, <3>1, TypeLogin, TypeChange DEF AdminNext
  <2>2. ASSUME AdminTypeOK, UNCHANGED adminVars PROVE AdminTypeOK'
    BY <2>2 DEF adminVars, AdminTypeOK
  <2> QED
    BY <2>1, <2>2
<1> QED
  BY <1>1, <1>2, PTL DEF AdminSpec
--------------------------------------------------------------------------------
(* Logins change neither the secrets nor the version.                      *)
LEMMA LoginKeeps ==
  ASSUME AdminTypeOK, AdminInv, AdminTypeOK',
         UNCHANGED <<setups, change, seen>>,
         \A f \in {"secret", "pendingSecret", "pendingCodes", "version"} :
           settings'[f] = settings[f],
         settings'.enabled = settings.enabled,
         settings'.backup.batch = settings.backup.batch,
         \A c \in spent' : c \in spent \/ \E l \in Logins : c \in presented[l],
         \A l \in Logins : \A c \in presented'[l] :
           c \in presented[l] \/ (c.batch = settings.backup.batch /\ c.batch # 0),
         SingleCode', SpentCodesStayMarked'
  PROVE  AdminInv'
<1>1. /\ settings'.secret = settings.secret
      /\ settings'.pendingSecret = settings.pendingSecret
      /\ settings'.pendingCodes = settings.pendingCodes
      /\ settings'.version = settings.version
  OBVIOUS
<1>2. Whole(settings)'
  BY <1>1 DEF AdminInv, Whole
<1>3. ASSUME NEW b, Unused(b) PROVE Unused(b)'
  BY <1>3 DEF Unused
<1>4. Unused(settings.pendingCodes)'
  <2>1. Unused(settings.pendingCodes)
    BY DEF AdminInv
  <2> QED
    BY <1>1, <2>1 DEF Unused
<1>5. Numbered'
  BY <1>1 DEF AdminInv, Numbered
<1>6. ASSUME NEW o \in Changes, NEW r \in seen[o] PROVE LoadedInv(r)'
  <2>1. LoadedInv(r)
    BY DEF AdminInv
  <2>2. Unused(r.pendingCodes) => Unused(r.pendingCodes)'
    BY <1>3
  <2> QED
    BY <1>1, <2>1, <2>2 DEF LoadedInv, Whole
<1> QED
  BY <1>2, <1>4, <1>5, <1>6 DEF AdminInv
LEMMA InvLogin ==
  ASSUME AdminTypeOK, AdminInv, AdminTypeOK', NEW l \in Logins,
         AcceptWithoutBackup(l) \/ MarkUsed(l) \/ CreateSession(l)
           \/ SessionEnds(l) \/ \E i \in BackupCodes : AcceptBackup(l, i)
  PROVE  AdminInv'
<1>1. CASE UNCHANGED <<settings, setups, presented, change, seen, spent>>
  BY <1>1 DEF AdminInv, Whole, Unused, Numbered, SingleCode, LoadedInv,
     SpentCodesStayMarked
<1>2. ASSUME MarkUsed(l), UNCHANGED <<settings, spent>> PROVE AdminInv'
  <2>1. \A k \in Logins : presented'[k] \subseteq presented[k]
    BY <1>2 DEF MarkUsed, AdminTypeOK
  <2>2. SingleCode' /\ SpentCodesStayMarked'
    BY <1>2, <2>1 DEF AdminInv, SingleCode, SpentCodesStayMarked
  <2> QED
    BY <1>2, <2>1, <2>2, LoginKeeps DEF MarkUsed
<1>3. ASSUME MarkUsed(l), NEW c \in presented[l],
             settings' = [settings EXCEPT !.backup.used = @ \cup {c.index}],
             spent' = spent \cup presented[l]
      PROVE  AdminInv'
  <2>1. \A k \in Logins : presented'[k] \subseteq presented[k]
    BY <1>3 DEF MarkUsed, AdminTypeOK
  <2>2. /\ settings'.secret = settings.secret
        /\ settings'.pendingSecret = settings.pendingSecret
        /\ settings'.pendingCodes = settings.pendingCodes
        /\ settings'.version = settings.version
        /\ settings'.enabled = settings.enabled
    BY <1>3 DEF AdminTypeOK, Settings
  <2>3. /\ settings'.backup.batch = settings.backup.batch
        /\ settings'.backup.used = settings.backup.used \cup {c.index}
    BY <1>3 DEF AdminTypeOK, Settings
  <2>4. \A d \in presented[l] : d = c
    BY DEF AdminInv, SingleCode
  <2>5. SpentCodesStayMarked'
    BY <1>3, <2>3, <2>4 DEF AdminInv, SpentCodesStayMarked
  <2>6. SingleCode'
    BY <2>1 DEF AdminInv, SingleCode
  <2>7. /\ \A d \in spent' : d \in spent \/ \E k \in Logins : d \in presented[k]
        /\ UNCHANGED <<setups, change, seen>>
    BY <1>3 DEF MarkUsed
  <2> QED
    BY <2>1, <2>2, <2>3, <2>5, <2>6, <2>7, LoginKeeps
<1>4. ASSUME NEW i \in BackupCodes, AcceptBackup(l, i) PROVE AdminInv'
  <2> DEFINE d == [batch |-> settings.backup.batch, index |-> i]
  <2>1. \A k \in Logins : \A c \in presented'[k] :
          c \in presented[k] \/ (k = l /\ c = d)
    BY <1>4 DEF AcceptBackup, AdminTypeOK
  <2>2. d.batch = settings.backup.batch /\ d.batch # 0
    BY <1>4 DEF AcceptBackup
  <2>3. SingleCode'
    BY <1>4 DEF AcceptBackup, AdminTypeOK, AdminInv, SingleCode
  <2>4. SpentCodesStayMarked'
    BY <1>4 DEF AcceptBackup, AdminInv, SpentCodesStayMarked
  <2> QED
    BY <1>4, <2>1, <2>2, <2>3, <2>4, LoginKeeps DEF AcceptBackup
<1> QED
  BY <1>1, <1>2, <1>3, <1>4 DEF AcceptWithoutBackup, MarkUsed, CreateSession,
     SessionEnds
LEMMA InvRequest ==
  ASSUME AdminTypeOK, AdminInv, NEW o \in Changes,
         RequireAdmin(o) \/ Setup(o) \/ \E kind \in {"verify", "disable"} : Load(o, kind)
  PROVE  AdminInv'
<1>1. CASE RequireAdmin(o)
  <2>1. \A p \in Changes : change'[p] = "verify" => change[p] = "verify"
    BY <1>1 DEF RequireAdmin, AdminTypeOK
  <2> QED
    BY <1>1, <2>1 DEF RequireAdmin, AdminInv, Whole, Unused, Numbered, SingleCode,
       LoadedInv, SpentCodesStayMarked
<1>2. CASE Setup(o)
  <2>1. /\ settings'.secret = settings.secret
        /\ settings'.pendingSecret = setups'
        /\ settings'.pendingCodes = setups' /\ setups' = setups + 1
        /\ settings'.version = settings.version
        /\ settings'.enabled = settings.enabled
        /\ settings'.backup = settings.backup
    BY <1>2 DEF Setup, AdminTypeOK, Settings
  <2>2. Whole(settings)'
    BY <2>1 DEF AdminInv, Whole
  <2>3. ASSUME NEW n \in 0..MaxSetups, n <= setups PROVE n <= setups' /\ n # setups'
    BY <2>1, <2>3, AdminAssumption DEF AdminAssumption, AdminTypeOK
  <2>4. /\ settings.backup.batch \in 0..MaxSetups
        /\ settings.pendingCodes \in 0..MaxSetups
        /\ \A c \in spent : c.batch \in 0..MaxSetups
        /\ \A l \in Logins : \A c \in presented[l] : c.batch \in 0..MaxSetups
    BY AdminAssumption DEF AdminAssumption, AdminTypeOK, Settings, SomeCodes
  <2>5. Numbered' /\ Unused(settings.pendingCodes)'
    <3>1. setups' <= setups'
      BY <2>1, AdminAssumption DEF AdminAssumption, AdminTypeOK
    <3> QED
      BY <1>2, <2>1, <2>3, <2>4, <3>1 DEF Setup, AdminInv, Numbered, Unused
  <2>6. ASSUME NEW p \in Changes, NEW r \in seen[p] PROVE LoadedInv(r)'
    <3>1. r.pendingCodes \in 0..MaxSetups
      BY DEF AdminTypeOK, Settings
    <3> QED
      BY <1>2, <2>1, <2>3, <3>1 DEF Setup, AdminInv, LoadedInv, Whole, Unused
  <2>7. \A p \in Changes : change'[p] = "verify" => change[p] = "verify"
    BY <1>2 DEF Setup, AdminTypeOK
  <2>8. SpentCodesStayMarked' /\ SingleCode'
    BY <1>2, <2>1 DEF Setup, AdminInv, SpentCodesStayMarked, SingleCode
  <2> QED
    BY <1>2, <2>2, <2>5, <2>6, <2>7, <2>8 DEF Setup, AdminInv
<1>3. ASSUME NEW kind \in {"verify", "disable"}, Load(o, kind) PROVE AdminInv'
  <2>1. settings.version <= settings.version
    BY DEF AdminTypeOK, Settings
  <2>2. LoadedInv(settings)
    BY <2>1 DEF AdminInv, LoadedInv, Numbered
  <2>3. \A p \in Changes : \A r \in seen'[p] :
          /\ LoadedInv(r)
          /\ change'[p] = "verify" => r.pendingSecret # 0
    <3>1. \A r \in seen'[o] : r = settings
      BY <1>3 DEF Load, AdminTypeOK
    <3>2. change'[o] = "verify" => settings.pendingSecret # 0
      BY <1>3 DEF Load, AdminTypeOK
    <3>3. \A p \in Changes \ {o} : seen'[p] = seen[p] /\ change'[p] = change[p]
      BY <1>3 DEF Load, AdminTypeOK
    <3> QED
      BY <2>2, <3>1, <3>2, <3>3 DEF AdminInv
  <2>4. ASSUME NEW r, LoadedInv(r) PROVE LoadedInv(r)'
    BY <1>3, <2>4 DEF Load, LoadedInv, Whole, Unused
  <2> QED
    BY <1>3, <2>3, <2>4 DEF Load, AdminInv, Whole, Unused, Numbered, SingleCode,
       SpentCodesStayMarked
<1> QED
  BY <1>1, <1>2, <1>3

(* A save that is refused, and one of a version that is over, cannot hurt. *)
LEMMA Refused ==
  ASSUME AdminTypeOK, AdminInv, NEW o \in Changes, Save(o), UNCHANGED settings
  PROVE  AdminInv'
<1>1. \A p \in Changes : /\ seen'[p] \subseteq seen[p]
                         /\ seen'[p] # {} => change'[p] = change[p]
  BY DEF Save, AdminTypeOK
<1>2. ASSUME NEW r, LoadedInv(r) PROVE LoadedInv(r)'
  BY <1>2 DEF Save, LoadedInv, Whole, Unused
<1> QED
  BY <1>1, <1>2 DEF Save, AdminInv, Whole, Unused, Numbered, SingleCode,
     SpentCodesStayMarked
(* A save that bumps the version puts every other loaded copy out of date. *)
LEMMA Bumped ==
  ASSUME AdminTypeOK, AdminTypeOK', AdminInv, NEW o \in Changes, Save(o),
         settings'.version = settings.version + 1,
         Whole(settings)', Unused(settings.pendingCodes)', Numbered',
         SpentCodesStayMarked'
  PROVE  AdminInv'
<1>1. \A p \in Changes : /\ seen'[p] \subseteq seen[p]
                         /\ seen'[p] # {} => change'[p] = change[p]
  BY DEF Save, AdminTypeOK
<1>2. ASSUME NEW p \in Changes, NEW r \in seen[p] PROVE LoadedInv(r)'
  <2>1. r.version \in Nat /\ settings.version \in Nat
    BY DEF AdminTypeOK, Settings
  <2>2. r.version <= settings.version /\ Whole(r) /\ r.pendingCodes <= setups
    BY DEF AdminInv, LoadedInv
  <2>3. r.version <= settings'.version /\ r.version # settings'.version
    BY <2>1, <2>2
  <2> QED
    BY <2>2, <2>3 DEF Save, LoadedInv, Whole
<1> QED
  BY <1>1, <1>2 DEF Save, AdminInv, SingleCode

LEMMA SavedFields ==
  ASSUME NEW r, NEW kind
  PROVE  LET c == Changed(r, kind)  s == Saved(r, kind)
         IN  /\ s.enabled = IF c.enabled # r.enabled THEN c.enabled
                            ELSE settings.enabled
             /\ s.secret = IF c.secret # r.secret THEN c.secret ELSE settings.secret
             /\ s.backup = IF c.backup # r.backup THEN c.backup ELSE settings.backup
             /\ s.pendingSecret = IF c.pendingSecret # r.pendingSecret
                                  THEN c.pendingSecret ELSE settings.pendingSecret
             /\ s.pendingCodes = IF c.pendingCodes # r.pendingCodes
                                 THEN c.pendingCodes ELSE settings.pendingCodes
             /\ s.version = settings.version
                            + (IF OverwritesArray(r, kind) THEN 1 ELSE 0)
  BY DEF Saved, Written

LEMMA InvVerify ==
  ASSUME AdminTypeOK, AdminTypeOK', AdminInv, NEW o \in Changes, Save(o),
         change[o] = "verify"
  PROVE  AdminInv'
<1>1. PICK r \in seen[o] :
        settings' = IF MaySave(r, "verify") THEN Saved(r, "verify") ELSE settings
  BY DEF Save
<1> DEFINE c == Changed(r, "verify")
<1>2. r \in Settings
  BY DEF AdminTypeOK
<1>3. /\ LoadedInv(r) /\ r.pendingSecret # 0 /\ r.pendingCodes = r.pendingSecret
      /\ r.pendingCodes \in 1..MaxSetups
  BY <1>2, AdminAssumption DEF AdminAssumption, AdminInv, LoadedInv, Whole, Settings
<1>4. /\ c.enabled = TRUE /\ c.secret = r.pendingSecret
      /\ c.pendingSecret = 0 /\ c.pendingCodes = 0
      /\ c.backup = [batch |-> r.pendingCodes, used |-> {}]
  BY <1>2, <1>3, VerifyFields
<1>5. OverwritesArray(r, "verify")
  BY <1>3, <1>4 DEF OverwritesArray
<1>6. CASE settings.version # r.version
  BY <1>1, <1>5, <1>6, Refused DEF MaySave
<1>7. CASE settings.version = r.version
  <2>1. settings' = Saved(r, "verify")
    BY <1>1, <1>7 DEF MaySave
  <2>2. /\ r.secret = settings.secret /\ r.enabled = settings.enabled
        /\ Unused(r.pendingCodes)
        /\ r.secret = r.backup.batch /\ settings.secret = settings.backup.batch
    BY <1>3, <1>7 DEF LoadedInv, AdminInv, Whole
  <2>3. r.backup # c.backup
    <3>1. r.backup.batch # r.pendingCodes
      BY <1>3, <2>2 DEF Unused
    <3> QED
      BY <1>4, <3>1
  <2>4. /\ settings'.secret = r.pendingCodes /\ settings'.pendingSecret = 0
        /\ settings'.pendingCodes = 0
        /\ settings'.backup = [batch |-> r.pendingCodes, used |-> {}]
    BY <1>3, <1>4, <2>1, <2>2, <2>3, SavedFields
  <2>5. settings'.enabled = TRUE
    <3>1. settings'.enabled = IF c.enabled # r.enabled THEN c.enabled
                              ELSE settings.enabled
      BY <2>1, SavedFields
    <3> QED
      BY <1>4, <2>2, <3>1
  <2>6. settings'.version = settings.version + 1
    BY <1>5, <2>1, SavedFields
  <2>7. Whole(settings)'
    <3>1. r.pendingCodes # 0 /\ settings'.backup.batch = r.pendingCodes
      BY <1>3, <2>4
    <3>2. settings'.enabled = (settings'.secret # 0)
      BY <2>4, <2>5, <3>1
    <3> QED
      BY <2>4, <3>1, <3>2 DEF Whole
  <2>8. Unused(settings.pendingCodes)'
    BY <2>4 DEF Unused
  <2>9. Numbered'
    <3>1. r.pendingCodes <= setups /\ 0 <= setups
      BY <1>3 DEF LoadedInv, AdminTypeOK
    <3> QED
      BY <2>4, <3>1 DEF Save, AdminInv, Numbered
  <2>10. SpentCodesStayMarked'
    BY <1>3, <2>2, <2>4 DEF Save, Unused, SpentCodesStayMarked
  <2> QED
    BY <2>6, <2>7, <2>8, <2>9, <2>10, Bumped
<1> QED
  BY <1>6, <1>7
LEMMA InvDisable ==
  ASSUME AdminTypeOK, AdminTypeOK', AdminInv, NEW o \in Changes, Save(o),
         change[o] = "disable"
  PROVE  AdminInv'
<1>1. PICK r \in seen[o] :
        settings' = IF MaySave(r, "disable") THEN Saved(r, "disable") ELSE settings
  BY DEF Save
<1> DEFINE c == Changed(r, "disable")
<1>2. r \in Settings
  BY DEF AdminTypeOK
<1>3. LoadedInv(r) /\ Whole(r)
  BY DEF AdminInv, LoadedInv
<1>4. /\ c.enabled = FALSE /\ c.secret = 0 /\ c.pendingSecret = 0
      /\ c.pendingCodes = r.pendingCodes /\ c.backup = NoBackup
  BY <1>2, DisableFields
<1>5. OverwritesArray(r, "disable") <=> r.backup # NoBackup
  BY <1>4 DEF OverwritesArray
<1>6. CASE ~ MaySave(r, "disable")
  BY <1>1, <1>6, Refused
<1>7. CASE MaySave(r, "disable") /\ r.backup # NoBackup
  <2>1. settings' = Saved(r, "disable") /\ settings.version = r.version
    BY <1>1, <1>5, <1>7 DEF MaySave
  <2>2. r.secret = settings.secret /\ r.enabled = settings.enabled
    BY <1>3, <2>1 DEF LoadedInv
  <2>3. /\ settings'.secret = 0 /\ settings'.backup = NoBackup
        /\ settings'.pendingSecret \in {0, settings.pendingSecret}
        /\ settings'.pendingCodes = settings.pendingCodes
    BY <1>4, <1>7, <2>1, <2>2, SavedFields
  <2>4. settings'.enabled = FALSE
    <3>1. settings'.enabled = IF c.enabled # r.enabled THEN c.enabled
                              ELSE settings.enabled
      BY <2>1, SavedFields
    <3> QED
      BY <1>4, <2>2, <3>1 DEF AdminTypeOK, Settings
  <2>5. settings'.version = settings.version + 1
    BY <1>5, <1>7, <2>1, SavedFields
  <2>6. settings'.backup.batch = 0
    BY <2>3 DEF NoBackup
  <2>7. Whole(settings)'
    <3>1. settings'.enabled = (settings'.secret # 0)
      BY <2>3, <2>4
    <3> QED
      BY <2>3, <2>6, <3>1 DEF AdminInv, Whole
  <2>8. Unused(settings.pendingCodes)'
    BY <2>3, <2>6 DEF Save, AdminInv, Unused
  <2>9. Numbered'
    <3>1. 0 <= setups
      BY DEF AdminTypeOK
    <3> QED
      BY <2>3, <2>6, <3>1 DEF Save, AdminInv, Numbered
  <2>10. SpentCodesStayMarked'
    <3>1. \A d \in spent : d.batch # 0
      BY AdminAssumption DEF AdminAssumption, AdminTypeOK, SomeCodes
    <3> QED
      BY <2>6, <3>1 DEF Save, SpentCodesStayMarked
  <2> QED
    BY <2>5, <2>7, <2>8, <2>9, <2>10, Bumped
<1>8. CASE MaySave(r, "disable") /\ r.backup = NoBackup
  <2>1. settings' = Saved(r, "disable")
    BY <1>1, <1>8
  <2>2. r.secret = 0 /\ r.enabled = FALSE
    <3>1. r.secret = 0
      BY <1>3, <1>8 DEF Whole, NoBackup
    <3>2. r.enabled = (r.secret # 0)
      BY <1>3 DEF Whole
    <3> QED
      BY <3>1, <3>2
  <2>3. /\ settings'.secret = settings.secret /\ settings'.backup = settings.backup
        /\ settings'.pendingSecret \in {0, settings.pendingSecret}
        /\ settings'.pendingCodes = settings.pendingCodes
    BY <1>4, <1>8, <2>1, <2>2, SavedFields
  <2>4. settings'.enabled = settings.enabled
    <3>1. settings'.enabled = IF c.enabled # r.enabled THEN c.enabled
                              ELSE settings.enabled
      BY <2>1, SavedFields
    <3> QED
      BY <1>4, <2>2, <3>1
  <2>5. settings'.version = settings.version
    <3>1. settings'.version = settings.version + 0
      BY <1>5, <1>8, <2>1, SavedFields
    <3> QED
      BY <3>1 DEF AdminTypeOK, Settings
  <2>6. \A p \in Changes : /\ seen'[p] \subseteq seen[p]
                           /\ seen'[p] # {} => change'[p] = change[p]
    BY DEF Save, AdminTypeOK
  <2>7. ASSUME NEW b, Unused(b) PROVE Unused(b)'
    BY <2>3, <2>7 DEF Save, Unused
  <2>8. ASSUME NEW q, LoadedInv(q) PROVE LoadedInv(q)'
    BY <2>3, <2>4, <2>5, <2>7, <2>8 DEF Save, LoadedInv, Whole
  <2>9. Whole(settings)' /\ Unused(settings.pendingCodes)'
    BY <2>3, <2>4 DEF Save, AdminInv, Whole, Unused
  <2>10. Numbered' /\ SingleCode' /\ SpentCodesStayMarked'
    BY <2>3 DEF Save, AdminInv, Numbered, SingleCode, SpentCodesStayMarked
  <2> QED
    BY <2>6, <2>8, <2>9, <2>10 DEF AdminInv
<1> QED
  BY <1>6, <1>7, <1>8

LEMMA InvInit == AdminInit => AdminInv
<1> SUFFICES ASSUME AdminInit PROVE AdminInv
  OBVIOUS
<1>1. /\ settings.enabled = FALSE /\ settings.secret = 0
      /\ settings.backup.batch = 0 /\ settings.pendingSecret = 0
      /\ settings.pendingCodes = 0
  BY DEF AdminInit, NoBackup
<1>2. settings.enabled = (settings.secret # 0)
  BY <1>1
<1>3. Whole(settings)
  BY <1>1, <1>2 DEF Whole
<1>4. Unused(settings.pendingCodes) /\ SpentCodesStayMarked
  BY <1>1 DEF AdminInit, Unused, SpentCodesStayMarked
<1>5. Numbered /\ SingleCode
  BY <1>1 DEF AdminInit, Numbered, SingleCode
<1>6. \A o \in Changes : seen[o] = {}
  BY DEF AdminInit
<1> QED
  BY <1>3, <1>4, <1>5, <1>6 DEF AdminInv

LEMMA InvHolds == AdminSpec => []AdminInv
<1>1. AdminTypeOK /\ AdminTypeOK' /\ AdminInv /\ [AdminNext]_adminVars => AdminInv'
  <2>1. ASSUME AdminTypeOK, AdminTypeOK', AdminInv, AdminNext PROVE AdminInv'
    <3>1. CASE LogoutAll
      BY <2>1, <3>1 DEF LogoutAll, AdminInv, Whole, Unused, Numbered, SingleCode,
         LoadedInv, SpentCodesStayMarked
    <3>2. ASSUME NEW o \in Changes, Save(o) PROVE AdminInv'
      BY <2>1, <3>2, InvVerify, InvDisable DEF Save
    <3> QED
      BY <2>1, <3>1, <3>2, InvLogin, InvRequest DEF AdminNext
  <2>2. ASSUME AdminInv, UNCHANGED adminVars PROVE AdminInv'
    BY <2>2 DEF adminVars, AdminInv, Whole, Unused, Numbered, SingleCode,
       LoadedInv, SpentCodesStayMarked
  <2> QED
    BY <2>1, <2>2
<1> QED
  BY <1>1, InvInit, AdminTypeCorrect, PTL DEF AdminSpec

(* A spent backup code is marked for as long as its batch is installed.    *)
THEOREM SpentStayMarked == AdminSpec => []SpentCodesStayMarked
<1>1. AdminInv => SpentCodesStayMarked
  BY DEF AdminInv
<1> QED
  BY <1>1, InvHolds, PTL

(* The secret and the backup codes in use are of one setup.                *)
THEOREM OneSetup == AdminSpec => []TwoFactorIsOfOneSetup
<1>1. AdminInv => TwoFactorIsOfOneSetup
  BY DEF AdminInv, Whole, TwoFactorIsOfOneSetup
<1> QED
  BY <1>1, InvHolds, PTL
================================================================================
