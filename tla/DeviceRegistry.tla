--------------------------- MODULE DeviceRegistry ---------------------------
(***************************************************************************)
(* Devices of the server: enrollment codes (enrollment.rs), the registry   *)
(* and its files (devices.rs), and the WebSocket sessions opened with      *)
(* single-use tickets (ws_ticket.rs, ws.rs).                               *)
(*                                                                         *)
(* The registry in memory decides who authenticates; the files decide what *)
(* it contains after a restart.  Changes of a device run under one lock    *)
(* and write their files step by step; sessions and authentication only    *)
(* read memory and run at any time.  A file written by atomic_write is     *)
(* there or is not; a directory is removed file by file.                   *)
(***************************************************************************)
EXTENDS Integers, FiniteSets

CONSTANTS
    Device,         \* enrollments; each has its own device and bearer token
    Claimer,        \* clients that enter an enrollment code
    Session,        \* WebSocket handshakes
    NoDevice,
    MaxRestarts,    \* bound on restarts of the server
    MaxFailures     \* bound on failed file operations

DeviceRegistryAssumption == NoDevice \notin Device

VARIABLES
    code,      \* enrollment file: "none", "open", "late" (expired), "gone"
    tokenFile, \* devices with a token index file
    json,      \* device.json: "absent", "empty" or "whole"
    marker,    \* devices with a `revoked` file
    ticket,    \* a device's ticket file: "none", "there", "taken"
    up,        \* the server runs
    known,     \* registry maps: the devices in memory
    revoked,   \* ... flagged revoked
    cancelled, \* ... whose session token has fired
    touched,   \* ... whose last_seen is newer than the one on disk
    asked,     \* devices with an authenticated ticket request in progress
    op,        \* the mutation in progress, under the registry lock
    claim,     \* the claim in progress, under the claim lock file
    got,       \* the device whose credentials a claimer received
    session,   \* the sessions
    told,      \* history: revocation "no", "asked" for, "confirmed", or "purged"
    purging,   \* history: a purge "no", "begun", or "cut" short by an exit
    restarts, failures

files == <<code, tokenFile, json, marker, ticket>>
memory == <<up, known, revoked, cancelled, touched, asked>>
bounds == <<restarts, failures>>
registryVars == <<files, memory, op, claim, got, session, told, purging, bounds>>

NoOp == [kind |-> "none", dev |-> NoDevice, step |-> "none"]
NoClaim == [at |-> "none", who |-> NoDevice, dev |-> NoDevice]
NoSession == [state |-> "none", dev |-> NoDevice]

RegistryTypeOK ==
    /\ code \in [Device -> {"none", "open", "late", "gone"}]
    /\ json \in [Device -> {"absent", "empty", "whole"}]
    /\ ticket \in [Device -> {"none", "there", "taken"}]
    /\ tokenFile \subseteq Device /\ marker \subseteq Device
    /\ asked \subseteq Device /\ cancelled \subseteq Device
    /\ known \subseteq Device /\ revoked \subseteq known /\ touched \subseteq known
    /\ up \in BOOLEAN /\ (~up => op = NoOp /\ claim = NoClaim /\ known = {})
    /\ op \in [kind : {"none", "register", "revoke", "purge"}, dev : Device \cup {NoDevice},
               step : {"none", "token", "json", "maps", "marker", "flag", "cancel", "directory"}]
    /\ claim \in [at : {"none", "wait", "register", "remove", "sync"},
                  who : Claimer \cup {NoDevice}, dev : Device \cup {NoDevice}]
    /\ claim.at = "register" <=> op.kind = "register"
    /\ told \in [Device -> {"no", "asked", "confirmed", "purged"}]
    /\ purging \in [Device -> {"no", "begun", "cut"}]
    /\ got \in [Claimer -> Device \cup {NoDevice}]
    /\ session \in [Session -> [state : {"none", "claimed", "checked", "open", "closed", "refused"},
                                dev : Device \cup {NoDevice}]]

(* The files a server may find: no device, an enrolled one, a revoked one, *)
(* and the empty device.json of an old version, with or without its token. *)
RegistryInit ==
    /\ json \in [Device -> {"absent", "empty", "whole"}]
    /\ code = [d \in Device |-> IF json[d] = "absent" THEN "none" ELSE "gone"]
    /\ tokenFile \in SUBSET {d \in Device : json[d] # "absent"}
    /\ \A d \in Device : json[d] = "whole" => d \in tokenFile
    /\ marker \in SUBSET tokenFile
    /\ told = [d \in Device |-> IF d \in marker THEN "confirmed" ELSE "no"]
    /\ purging = [d \in Device |-> "no"]
    /\ ticket = [d \in Device |-> "none"]
    /\ up = FALSE
    /\ known = {} /\ revoked = {} /\ cancelled = {} /\ touched = {} /\ asked = {}
    /\ op = NoOp /\ claim = NoClaim
    /\ got = [c \in Claimer |-> NoDevice]
    /\ session = [s \in Session |-> NoSession]
    /\ restarts = 0 /\ failures = 0

(* load_devices_strict: what startup recovers from an empty device.json.   *)
Loadable(d) == json[d] = "whole" \/ (json[d] = "empty" /\ d \in tokenFile)

(* DeviceRegistry::load *)
\* Mutant: a recovered device starts without its revocation.
BugStart ==
    /\ ~up
    /\ up' = TRUE
    /\ known' = {d \in Device : Loadable(d)}
    /\ json' = [d \in Device |-> IF Loadable(d) THEN "whole" ELSE json[d]]
    /\ revoked' = {d \in marker : json[d] = "whole"}
    /\ UNCHANGED <<code, tokenFile, marker, ticket, cancelled, touched, asked, op, claim,
                   got, session, told, purging, bounds>>
Start ==
    /\ ~up
    /\ up' = TRUE
    /\ known' = {d \in Device : Loadable(d)}
    /\ json' = [d \in Device |-> IF Loadable(d) THEN "whole" ELSE json[d]]
    /\ revoked' = marker \cap known'
    /\ UNCHANGED <<code, tokenFile, marker, ticket, cancelled, touched, asked, op, claim,
                   got, session, told, purging, bounds>>

(* What authenticate answers: memory only. *)
Authenticates(d) == d \in known /\ d \notin revoked

Fails == failures < MaxFailures /\ failures' = failures + 1
Begin(kind, d, step) ==
    /\ up /\ op = NoOp
    /\ op' = [kind |-> kind, dev |-> d, step |-> step]
At(kind, step) == op.kind = kind /\ op.step = step
Then(step) == op' = [op EXCEPT !.step = step]

-----------------------------------------------------------------------------
(* enrollment.rs *)

CreateEnrollment(d) ==
    /\ up /\ code[d] = "none"
    /\ code' = [code EXCEPT ![d] = "open"]
    /\ UNCHANGED <<tokenFile, json, marker, ticket, memory, op, claim,
                   got, session, told, purging, bounds>>

(* Ten minutes pass. *)
Expire(d) ==
    /\ code[d] = "open"
    /\ code' = [code EXCEPT ![d] = "late"]
    /\ UNCHANGED <<tokenFile, json, marker, ticket, memory, op, claim,
                   got, session, told, purging, bounds>>

(* claim_enrollment_with, under the lock file: an expired code is removed, *)
(* an open one goes on to register and waits for the registry lock.        *)
StartClaim(c, d) ==
    /\ up /\ claim = NoClaim /\ got[c] = NoDevice
    /\ \/ /\ code[d] = "late"
          /\ code' = [code EXCEPT ![d] = "gone"]
          /\ UNCHANGED claim
       \/ /\ code[d] = "open"
          /\ claim' = [at |-> "wait", who |-> c, dev |-> d]
          /\ UNCHANGED code
    /\ UNCHANGED <<tokenFile, json, marker, ticket, memory, op, got,
                   session, told, purging, bounds>>

StartRegister ==
    /\ claim.at = "wait"
    /\ Begin("register", claim.dev, "token")
    /\ claim' = [claim EXCEPT !.at = "register"]
    /\ UNCHANGED <<files, memory, got, session, told, purging, bounds>>

(* The registry lock is released; the code is consumed only after success. *)
Registered == op' = NoOp /\ claim' = [claim EXCEPT !.at = "remove"]
NotRegistered == op' = NoOp /\ claim' = NoClaim

(* register: refuse a device that exists and is revoked; repeat the token  *)
(* index of one that exists; otherwise write the token index first.        *)
RegisterToken ==
    /\ At("register", "token")
    /\ \/ /\ op.dev \in known /\ op.dev \in revoked
          /\ NotRegistered
          /\ UNCHANGED tokenFile
       \/ /\ op.dev \in known /\ op.dev \notin revoked
          /\ tokenFile' = tokenFile \cup {op.dev}
          /\ Registered
       \/ /\ op.dev \notin known
          /\ tokenFile' = tokenFile \cup {op.dev}
          /\ Then("json")
          /\ UNCHANGED claim
    /\ UNCHANGED <<code, json, marker, ticket, memory, got, session,
                   told, purging, bounds>>

RegisterJson ==
    /\ At("register", "json")
    /\ json' = [json EXCEPT ![op.dev] = "whole"]
    /\ Then("maps")
    /\ UNCHANGED <<code, tokenFile, marker, ticket, memory, claim, got, session,
                   told, purging, bounds>>

(* Only then is the device visible to authentication. *)
RegisterMaps ==
    /\ At("register", "maps")
    /\ known' = known \cup {op.dev}
    /\ Registered
    /\ UNCHANGED <<files, up, revoked, cancelled, touched, asked, got, session,
                   told, purging, bounds>>

(* A file operation of register fails; its rename may have happened. *)
RegisterFails ==
    /\ op.kind = "register" /\ op.step \in {"token", "json"}
    /\ Fails
    /\ IF op.step = "token"
       THEN tokenFile' \in {tokenFile, tokenFile \cup {op.dev}} /\ UNCHANGED json
       ELSE json' \in {json, [json EXCEPT ![op.dev] = "whole"]} /\ UNCHANGED tokenFile
    /\ NotRegistered
    /\ UNCHANGED <<code, marker, ticket, memory, got, session, told, purging, restarts>>

(* The code is removed, then the directory synced; only then does the      *)
(* claimer receive the credentials.                                        *)
\* Mutant: the credentials are returned without consuming the code.
BugRemoveCode ==
    /\ claim.at = "remove"
    /\ claim' = [claim EXCEPT !.at = "sync"]
    /\ UNCHANGED <<files, memory, op, got, session, told, purging, bounds>>
RemoveCode ==
    /\ claim.at = "remove"
    /\ code' = [code EXCEPT ![claim.dev] = "gone"]
    /\ claim' = [claim EXCEPT !.at = "sync"]
    /\ UNCHANGED <<tokenFile, json, marker, ticket, memory, op, got,
                   session, told, purging, bounds>>

FinishClaim ==
    /\ claim.at = "sync"
    /\ got' = [got EXCEPT ![claim.who] = claim.dev]
    /\ claim' = NoClaim
    /\ UNCHANGED <<files, memory, op, session, told, purging, bounds>>

(* The removal or the sync fails: no credentials, the code may survive. *)
ClaimFails ==
    /\ claim.at \in {"remove", "sync"}
    /\ Fails
    /\ claim' = NoClaim
    /\ UNCHANGED <<files, memory, op, got, session, told, purging, restarts>>

-----------------------------------------------------------------------------
(* devices.rs: revoke, last_seen, purge *)

StartRevoke(d) ==
    /\ d \in known
    /\ Begin("revoke", d, "marker")
    /\ told' = [told EXCEPT ![d] = IF @ = "no" THEN "asked" ELSE @]
    /\ UNCHANGED <<files, memory, claim, got, session, purging, bounds>>

(* persist_revocation: the marker needs the device's directory, which a    *)
(* failed purge may have removed.                                          *)
RevokeMarker ==
    /\ At("revoke", "marker")
    /\ \/ /\ json[op.dev] = "absent" /\ op.dev \notin marker
          /\ op' = NoOp
          /\ UNCHANGED <<marker, failures>>
       \/ /\ marker' = marker \cup {op.dev}
          /\ Then("flag")
          /\ UNCHANGED failures
       \/ /\ Fails                       \* Err; the rename may have happened
          /\ marker' \in {marker, marker \cup {op.dev}}
          /\ op' = NoOp
    /\ UNCHANGED <<code, tokenFile, json, ticket, memory, claim, got, session,
                   told, purging, restarts>>

RevokeFlag ==
    /\ At("revoke", "flag")
    /\ revoked' = revoked \cup {op.dev}
    /\ Then("cancel")
    /\ UNCHANGED <<files, up, known, cancelled, touched, asked, claim, got, session,
                   told, purging, bounds>>

RevokeCancel ==
    /\ At("revoke", "cancel")
    /\ cancelled' = cancelled \cup {op.dev}
    /\ told' = [told EXCEPT ![op.dev] = "confirmed"]
    /\ purging' = [purging EXCEPT ![op.dev] = "no"]
    /\ op' = NoOp
    /\ UNCHANGED <<files, up, known, revoked, touched, asked, claim, got, session, bounds>>

(* One device of flush_last_seen: device.json is written again, and the    *)
(* directory with it.                                                      *)
Flush(d) ==
    /\ up /\ op = NoOp /\ d \in touched
    /\ \/ /\ json' = [json EXCEPT ![d] = "whole"]
          /\ touched' = touched \ {d}
          /\ UNCHANGED failures
       \/ /\ Fails
          /\ json' \in {json, [json EXCEPT ![d] = "whole"]}
          /\ UNCHANGED touched
    /\ UNCHANGED <<code, tokenFile, marker, ticket, up, known, revoked, cancelled,
                   asked, op, claim, got, session, told, purging, restarts>>

(* report_capabilities: a device that is not revoked has its device.json    *)
(* written again with what it can do.                                      *)
ReportCapabilities(d) ==
    /\ up /\ op = NoOp /\ Authenticates(d)
    /\ \/ json' = [json EXCEPT ![d] = "whole"] /\ UNCHANGED failures
       \/ Fails /\ json' \in {json, [json EXCEPT ![d] = "whole"]}
    /\ UNCHANGED <<code, tokenFile, marker, ticket, memory, op, claim, got, session,
                   told, purging, restarts>>

(* purge_expired_revoked: the revocation is older than the time to keep    *)
(* it, and so is any enrollment code.                                      *)
StartPurge(d) ==
    /\ d \in revoked /\ code[d] # "open" /\ claim.dev # d
    /\ Begin("purge", d, "token")
    /\ purging' = [purging EXCEPT ![d] = "begun"]
    /\ UNCHANGED <<files, memory, claim, got, session, told, bounds>>

(* delete_device: the token index that device.json names, a failure of its *)
(* removal ignored, ...                                                    *)
PurgeToken ==
    /\ At("purge", "token")
    /\ \/ /\ tokenFile' = IF json[op.dev] = "whole" THEN tokenFile \ {op.dev} ELSE tokenFile
          /\ UNCHANGED failures
       \/ Fails /\ UNCHANGED tokenFile
    /\ Then("directory")
    /\ UNCHANGED <<code, json, marker, ticket, memory, claim, got, session,
                   told, purging, restarts>>

(* ... then the directory: remove_dir_all removes the files in the order   *)
(* the directory lists them.                                               *)
PurgeFile ==
    /\ At("purge", "directory")
    /\ \/ /\ json[op.dev] # "absent"
          /\ json' = [json EXCEPT ![op.dev] = "absent"]
          /\ UNCHANGED marker
       \/ /\ op.dev \in marker
          /\ marker' = marker \ {op.dev}
          /\ UNCHANGED json
    /\ UNCHANGED <<code, tokenFile, ticket, memory, op, claim, got, session, told, purging, bounds>>

PurgeMaps ==
    /\ At("purge", "directory")
    /\ json[op.dev] = "absent" /\ op.dev \notin marker
    /\ known' = known \ {op.dev}
    /\ revoked' = revoked \ {op.dev}
    /\ touched' = touched \ {op.dev}
    /\ cancelled' = cancelled \cup {op.dev}
    /\ told' = [told EXCEPT ![op.dev] = "purged"]
    /\ purging' = [purging EXCEPT ![op.dev] = "no"]
    /\ op' = NoOp
    /\ UNCHANGED <<files, up, asked, claim, got, session, bounds>>

(* remove_dir_all fails half-way: the maps keep the device. *)
PurgeFails ==
    /\ At("purge", "directory")
    /\ Fails
    /\ op' = NoOp
    /\ UNCHANGED <<files, memory, claim, got, session, told, purging, restarts>>

-----------------------------------------------------------------------------
(* Requests, tickets and sessions: no lock. *)

(* authenticate, then the handler of a ticket request runs. *)
Authenticate(d) ==
    /\ up /\ Authenticates(d)
    /\ touched' = touched \cup {d}
    /\ asked' = asked \cup {d}
    /\ UNCHANGED <<files, up, known, revoked, cancelled, op, claim, got, session,
                   told, purging, bounds>>

Mint(d) ==
    /\ d \in asked
    /\ asked' = asked \ {d}
    /\ ticket' = [ticket EXCEPT ![d] = IF @ = "none" THEN "there" ELSE @]
    /\ UNCHANGED <<code, tokenFile, json, marker, up, known, revoked, cancelled,
                   touched, op, claim, got, session, told, purging, bounds>>

ClaimTicket(s, d) ==
    /\ up /\ session[s] = NoSession
    /\ ticket[d] = "there"
    /\ ticket' = [ticket EXCEPT ![d] = "taken"]
    /\ session' = [session EXCEPT ![s] = [state |-> "claimed", dev |-> d]]
    /\ UNCHANGED <<code, tokenFile, json, marker, memory, op, claim, got, told, purging, bounds>>

(* The ticket directory is synced, then session_token reads the flag ... *)
CheckSession(s) ==
    /\ session[s].state = "claimed"
    /\ session' = [session EXCEPT ![s].state =
                     IF Authenticates(session[s].dev) THEN "checked" ELSE "refused"]
    /\ UNCHANGED <<files, memory, op, claim, got, told, purging, bounds>>

(* ... and the session runs with the token of the entry, fired or not. *)
OpenSession(s) ==
    /\ session[s].state = "checked"
    /\ session' = [session EXCEPT ![s].state = "open"]
    /\ UNCHANGED <<files, memory, op, claim, got, told, purging, bounds>>

CloseSession(s) ==
    /\ session[s].state = "open" /\ session[s].dev \in cancelled
    /\ session' = [session EXCEPT ![s].state = "closed"]
    /\ UNCHANGED <<files, memory, op, claim, got, told, purging, bounds>>

-----------------------------------------------------------------------------
(* Power loss or a kill: a removed code, or a taken ticket, whose          *)
(* directory was not synced may be back.                                   *)
ServerExits ==
    /\ up /\ restarts < MaxRestarts
    /\ restarts' = restarts + 1
    /\ up' = FALSE
    /\ known' = {} /\ revoked' = {} /\ cancelled' = {} /\ touched' = {} /\ asked' = {}
    /\ op' = NoOp /\ claim' = NoClaim
    /\ \E back \in SUBSET {d \in Device : claim.at = "sync" /\ claim.dev = d} :
          code' = [d \in Device |-> IF d \in back THEN "open" ELSE code[d]]
    /\ \E back \in SUBSET {s \in Session : session[s].state = "claimed"} :
          ticket' = [d \in Device |->
                       IF \E s \in back : session[s].dev = d THEN "there" ELSE ticket[d]]
    /\ session' = [s \in Session |->
                     CASE session[s].state = "open" -> [session[s] EXCEPT !.state = "closed"]
                       [] session[s].state \in {"claimed", "checked"} ->
                            [session[s] EXCEPT !.state = "refused"]
                       [] OTHER -> session[s]]
    /\ purging' = [d \in Device |-> IF purging[d] = "begun" THEN "cut" ELSE purging[d]]
    /\ UNCHANGED <<tokenFile, json, marker, got, told, failures>>

RegistryNext ==
    \/ Start \/ ServerExits
    \/ \E d \in Device :
          \/ CreateEnrollment(d) \/ Expire(d) \/ StartRevoke(d) \/ Flush(d)
          \/ ReportCapabilities(d) \/ StartPurge(d) \/ Authenticate(d) \/ Mint(d)
          \/ \E c \in Claimer : StartClaim(c, d)
          \/ \E s \in Session : ClaimTicket(s, d)
    \/ StartRegister \/ RegisterToken \/ RegisterJson \/ RegisterMaps \/ RegisterFails
    \/ RemoveCode \/ FinishClaim \/ ClaimFails
    \/ RevokeMarker \/ RevokeFlag \/ RevokeCancel
    \/ PurgeToken \/ PurgeFile \/ PurgeMaps \/ PurgeFails
    \/ \E s \in Session : CheckSession(s) \/ OpenSession(s) \/ CloseSession(s)

RegistrySpec == RegistryInit /\ [][RegistryNext]_registryVars

-----------------------------------------------------------------------------
(* A device whose revocation was confirmed never authenticates again: not  *)
(* after a restart, a recovery of its metadata or a retried enrollment,    *)
(* until a purge has forgotten it.                                         *)
RevocationPermanent == \A d \in Device : told[d] = "confirmed" => ~Authenticates(d)

(* The same, except for a device whose purge the server's exit cut short:  *)
(* before that exit the device is refused, even after a failed purge.      *)
RevocationHolds ==
    \A d \in Device : told[d] = "confirmed" /\ purging[d] # "cut" => ~Authenticates(d)

(* An enrollment code hands out its credentials once, whoever races for it *)
(* and whichever claim fails or is cut off on the way.                     *)
OneClaimer ==
    \A c1, c2 \in Claimer : got[c1] = got[c2] /\ got[c1] # NoDevice => c1 = c2

(* What revocation and enrollment keep of what they promise about a        *)
(* device's credentials: a confirmed revocation stays in force through     *)
(* restarts, recovered metadata, retried enrollments, rewritten metadata   *)
(* and failed purges, unless the server exits between the begin and the    *)
(* end of a purge (delete_device; RevocationPermanent is the promise       *)
(* without that exception); and a code is handed out once.                 *)
CredentialsHold == RevocationHolds /\ OneClaimer
=============================================================================
