----------------------------- MODULE MerchantSites -----------------------------
(*************************************************************************)
(* The hosts a merchant's site answers on: MerchantSettingsService with  *)
(* its domains, certificates and switches, and TenantDirectoryService,   *)
(* which each process of the API asks whose site a request's host is.    *)
(*                                                                       *)
(* Every change names the version its page showed.  A domain becomes the *)
(* primary one in a transaction that first takes the place from the      *)
(* others, and whose process forgets the host before the transaction     *)
(* commits.                                                              *)
(*************************************************************************)
EXTENDS Integers, FiniteSets

CONSTANTS
  Hosts,           (* Rows of tenant_domains the merchant may have.               *)
  HomeHost,        (* The subdomain a merchant is created with.                   *)
  SiteEditors,     (* Requests of staff, of the platform or the merchant.         *)
  Visitors,        (* Requests whose host is looked up.                           *)
  Processes,       (* Processes of the API, each with a cache.                    *)
  PositiveLife,    (* How long a found host is remembered, in ticks of the clock. *)
  NegativeLife,    (* How long an unknown one is.                                 *)
  MaxCacheEntries,
  MaxHostVersion,  (* Bound on the versions of rows.                     *)
  NoSiteEdit

ASSUME SitesAssumption ==
  /\ HomeHost \in Hosts
  /\ NegativeLife \in Nat \ {0} /\ PositiveLife \in Nat /\ PositiveLife >= NegativeLife
  /\ MaxCacheEntries \in Nat \ {0} /\ MaxHostVersion \in Nat

VARIABLES
  hostRow,     (* Rows of tenant_domains.                                        *)
  siteRow,     (* The merchant's row of tenants.                                 *)
  txtRecord,   (* Hosts whose TXT record can be looked up.                       *)
  recordSeen,  (* Hosts whose record was seen.                                   *)
  siteEdit,    (* Requests that change them.                                     *)
  hostCache,   (* Per process, what it remembers of a host.                      *)
  lookup,      (* Look-ups under way.                                            *)
  answerAge    (* Per host and answer, ticks since that answer was the true one. *)

hostVars   == <<hostRow, siteRow, txtRecord, recordSeen, siteEdit>>
lookupVars == <<hostCache, lookup, answerAge>>
sitesVars  == <<hostVars, lookupVars>>

HostAnswers == {"unknown", "active", "suspended"}

NoHost  == [made |-> FALSE, custom |-> FALSE, verified |-> FALSE, tls |-> "pending",
            primary |-> FALSE, enabled |-> TRUE, version |-> 0]
NewSiteEdit == [step |-> "page", kind |-> "update", host |-> HomeHost, shown |-> NoHost,
            enabled |-> "same", primary |-> "same", tls |-> "active",
            others |-> {}, process |-> NoSiteEdit]
NoHostEntry == [answer |-> "none", left |-> 0]
NoLookup == [step |-> "none", host |-> HomeHost, process |-> NoSiteEdit, answer |-> "none"]

\* "suspended" stands for "expired" too.
SiteRows == [status: {"active", "suspended"}, user: BOOLEAN, platform: BOOLEAN,
             version: 0 .. MaxHostVersion]
HostRows == [made: BOOLEAN, custom: BOOLEAN, verified: BOOLEAN,
             tls: {"pending", "provisioning", "active", "failed", "disabled"},
             primary: BOOLEAN, enabled: BOOLEAN, version: 0 .. MaxHostVersion]

SiteEditRow ==
  [step: {"page", "settings", "proven", "locked", "clearing", "cleared", "updated"},
   kind: {"update", "tls", "verify"}, host: Hosts, shown: HostRows \cup SiteRows,
   enabled: {"same", "yes", "no"}, primary: {"same", "yes", "no"}, tls: {"active", "failed"},
   others: SUBSET Hosts, process: Processes \cup {NoSiteEdit}]
LookupRow == [step: {"read"}, host: Hosts, process: Processes, answer: HostAnswers]

SitesTypeOK ==
  /\ hostRow \in [Hosts -> HostRows] /\ siteRow \in SiteRows
  /\ txtRecord \subseteq Hosts /\ recordSeen \subseteq Hosts
  /\ siteEdit \in [SiteEditors -> SiteEditRow \cup {NoSiteEdit}]
  /\ hostCache \in
       [Processes -> [Hosts -> [answer: HostAnswers \cup {"none"}, left: 0 .. PositiveLife]]]
  /\ lookup \in [Visitors -> LookupRow \cup {NoLookup}]
  /\ answerAge \in [Hosts -> [HostAnswers -> 0 .. PositiveLife + 1]]

SitesInit ==
  /\ hostRow = [h \in Hosts |-> IF h = HomeHost
       THEN [NoHost EXCEPT !.made = TRUE, !.verified = TRUE, !.primary = TRUE] ELSE NoHost]
  /\ siteRow = [status |-> "active", user |-> TRUE, platform |-> TRUE, version |-> 0]
  /\ txtRecord = {} /\ recordSeen = {}
  /\ siteEdit = [q \in SiteEditors |-> NoSiteEdit]
  /\ hostCache = [p \in Processes |-> [h \in Hosts |-> NoHostEntry]]
  /\ lookup = [v \in Visitors |-> NoLookup]
  /\ answerAge = [h \in Hosts |-> [a \in HostAnswers |->
       IF a = (IF h = HomeHost THEN "active" ELSE "unknown") THEN 0 ELSE PositiveLife + 1]]

(*************************************************************************)
(* What the database answers, and how long ago it answered something     *)
(* else.                                                                 *)
(*************************************************************************)
\* app.resolve_tenant_by_host
ResolveHost(h) == IF hostRow[h].made /\ hostRow[h].verified /\ hostRow[h].enabled
              THEN siteRow.status ELSE "unknown"

\* An answer that is true now, or was until this step, is no tick old.
AnswersRefreshed == answerAge' = [h \in Hosts |-> [answerAge[h] EXCEPT ![ResolveHost(h)'] = 0]]
LookupsStay      == UNCHANGED lookupVars

-----------------------------------------------------------------------------
(* Making and proving domains.                                           *)

\* createPlatformSubdomain, createTenantCustomDomain
CreateDomain(h, custom) ==
  /\ ~hostRow[h].made
  /\ hostRow' = [hostRow EXCEPT ![h] =
       [NoHost EXCEPT !.made = TRUE, !.custom = custom, !.verified = ~custom]]
  /\ UNCHANGED <<siteRow, txtRecord, recordSeen, siteEdit, hostCache, lookup>>
  /\ AnswersRefreshed

\* The merchant enters the record with whoever serves its names, or takes it out.
ChangeRecord(h) ==
  /\ hostRow[h].custom
  /\ txtRecord' = IF h \in txtRecord THEN txtRecord \ {h} ELSE txtRecord \cup {h}
  /\ UNCHANGED <<hostRow, siteRow, recordSeen, siteEdit>> /\ LookupsStay

HostLocks(q) ==
  IF siteEdit[q] = NoSiteEdit \/ siteEdit[q].step \in {"page", "settings", "proven"} THEN {}
  ELSE {siteEdit[q].host} \cup
       IF siteEdit[q].step \in {"cleared", "updated"} THEN siteEdit[q].others ELSE {}
HostLocked(h) == \E q \in SiteEditors : h \in HostLocks(q)

BeginSiteEdit(q, h, x) ==
  /\ siteEdit[q] = NoSiteEdit /\ hostRow[h].made /\ hostRow[h].version < MaxHostVersion
  /\ siteEdit' = [siteEdit EXCEPT ![q] = [x EXCEPT !.host = h, !.shown = hostRow[h]]]
  /\ UNCHANGED <<hostRow, siteRow, txtRecord, recordSeen>> /\ LookupsStay

DropSiteEdit(q) ==
  /\ siteEdit' = [siteEdit EXCEPT ![q] = NoSiteEdit]
  /\ UNCHANGED <<hostRow, siteRow, txtRecord, recordSeen>> /\ LookupsStay

\* verifyTenantCustomDomain: the row is read in one transaction, the record is
\* looked up outside of any, and a second transaction compares the version.
BeginVerification(q, h) ==
  /\ hostRow[h].custom /\ ~hostRow[h].verified /\ ~HostLocked(h)
  /\ \E p \in Processes : BeginSiteEdit(q, h, [NewSiteEdit EXCEPT !.kind = "verify", !.process = p])

LookUpRecord(q) ==
  /\ siteEdit[q] # NoSiteEdit /\ siteEdit[q].kind = "verify" /\ siteEdit[q].step = "page"
  /\ siteEdit[q].host \in txtRecord
  /\ recordSeen' = recordSeen \cup {siteEdit[q].host}
  /\ siteEdit' = [siteEdit EXCEPT ![q].step = "proven"]
  /\ UNCHANGED <<hostRow, siteRow, txtRecord>> /\ LookupsStay

-----------------------------------------------------------------------------
(* Changing them.                                                        *)

\* setPlatformDomainTlsStatus, updateDomain: what the page asks for.
BeginTls(q, h, tls) ==
  \E p \in Processes :
    BeginSiteEdit(q, h, [NewSiteEdit EXCEPT !.kind = "tls", !.tls = tls, !.process = p])

BeginUpdate(q, h, enabled, primary) ==
  /\ enabled # "same" \/ primary # "same"
  /\ \E p \in Processes :
       BeginSiteEdit(q, h,
         [NewSiteEdit EXCEPT !.enabled = enabled, !.primary = primary, !.process = p])

\* What the locked row has to be for the change.
HostChangeAllowed(x, row) ==
  /\ row.version = x.shown.version
  /\ x.kind = "tls" => row.verified /\ row.enabled /\ (row.primary => x.tls = "active")
  /\ x.kind = "update" =>
       /\ x.primary = "yes" => row.verified /\ row.enabled /\ row.tls = "active"
       /\ x.enabled = "no" => ~row.primary

LockDomain(q) ==
  /\ siteEdit[q] # NoSiteEdit
  /\ siteEdit[q].step = IF siteEdit[q].kind = "verify" THEN "proven" ELSE "page"
  /\ ~HostLocked(siteEdit[q].host)
  /\ siteEdit' = [siteEdit EXCEPT ![q] = IF HostChangeAllowed(@, hostRow[siteEdit[q].host])
                                 THEN [@ EXCEPT !.step = "locked"] ELSE NoSiteEdit]
  /\ UNCHANGED <<hostRow, siteRow, txtRecord, recordSeen>> /\ LookupsStay

\* The statement that clears the others begins, and sees the primaries committed
\* by now; it waits for those that are locked, and then looks at them again.
BeginClearing(q) ==
  /\ siteEdit[q] # NoSiteEdit /\ siteEdit[q].step = "locked" /\ siteEdit[q].primary = "yes"
  /\ siteEdit' = [siteEdit EXCEPT ![q].step = "clearing",
       ![q].others = {h \in Hosts \ {siteEdit[q].host} : hostRow[h].primary}]
  /\ UNCHANGED <<hostRow, siteRow, txtRecord, recordSeen>> /\ LookupsStay

FinishClearing(q) ==
  /\ siteEdit[q] # NoSiteEdit /\ siteEdit[q].step = "clearing"
  /\ \A h \in siteEdit[q].others : ~HostLocked(h)
  /\ siteEdit' = [siteEdit EXCEPT ![q].step = "cleared",
                          ![q].others = {h \in siteEdit[q].others : hostRow[h].primary}]
  /\ UNCHANGED <<hostRow, siteRow, txtRecord, recordSeen>> /\ LookupsStay

\* The row is written, and this process forgets the host.
UpdateDomain(q) ==
  /\ siteEdit[q] # NoSiteEdit
  /\ siteEdit[q].step = IF siteEdit[q].primary = "yes" THEN "cleared" ELSE "locked"
  /\ siteEdit' = [siteEdit EXCEPT ![q].step = "updated"]
  /\ hostCache' =
       [hostCache EXCEPT ![siteEdit[q].process] = [@ EXCEPT ![siteEdit[q].host] = NoHostEntry]]
  /\ UNCHANGED <<hostRow, siteRow, txtRecord, recordSeen, lookup, answerAge>>

HostWritten(x, row) ==
  [row EXCEPT
    !.version  = @ + 1,
    !.verified = @ \/ x.kind = "verify",
    !.tls      = CASE x.kind = "tls"       -> x.tls
                   [] x.kind = "verify"    -> "provisioning"
                   [] x.enabled = "yes"    -> IF row.verified THEN "provisioning" ELSE "pending"
                   [] x.enabled = "no"    -> "disabled"
                   [] OTHER                -> @,
    !.enabled  = IF x.enabled = "same" THEN @ ELSE x.enabled = "yes",
    !.primary  = IF x.primary = "same" THEN @ ELSE x.primary = "yes"]

PrimaryTakenQuietly(row) == [row EXCEPT !.primary = FALSE] \* Mutant: the version stays.
PrimaryTaken(row) == [row EXCEPT !.primary = FALSE, !.version = @ + 1]

\* The checks of tenant_domains and its index of one primary per merchant.
HostsAdmitted(rows) ==
  /\ Cardinality({h \in Hosts : rows[h].primary}) <= 1
  /\ \A h \in Hosts : rows[h].primary => rows[h].verified /\ rows[h].enabled
  /\ \A h \in Hosts : rows[h].version <= MaxHostVersion

CommitDomain(q) ==
  LET x    == siteEdit[q]
      rows == [h \in Hosts |-> IF h = x.host THEN HostWritten(x, hostRow[h])
                               ELSE IF h \in x.others THEN PrimaryTaken(hostRow[h]) ELSE hostRow[h]]
  IN
  /\ x # NoSiteEdit /\ x.step = "updated"
  /\ HostsAdmitted(rows)
  /\ hostRow' = rows
  /\ siteEdit' = [siteEdit EXCEPT ![q] = NoSiteEdit]
  /\ UNCHANGED <<siteRow, txtRecord, recordSeen, hostCache, lookup>>
  /\ AnswersRefreshed

\* A check fails, the look-up finds nothing, or the connection breaks.
AbandonEdit(q) == siteEdit[q] # NoSiteEdit /\ DropSiteEdit(q)

\* updateSettings, and MerchantService.update with the platform's status: one row
\* and one version, read by a page and compared under the row's lock.
BeginSettings(q) ==
  /\ siteEdit[q] = NoSiteEdit /\ siteRow.version < MaxHostVersion
  /\ siteEdit' = [siteEdit EXCEPT ![q] = [NewSiteEdit EXCEPT !.step = "settings", !.shown = siteRow]]
  /\ UNCHANGED <<hostRow, siteRow, txtRecord, recordSeen>> /\ LookupsStay

UpdateSettings(q, new) ==
  /\ siteEdit[q] # NoSiteEdit /\ siteEdit[q].step = "settings"
  /\ siteRow.version = siteEdit[q].shown.version
  /\ siteRow' = [new EXCEPT !.version = siteRow.version + 1]
  /\ siteEdit' = [siteEdit EXCEPT ![q] = NoSiteEdit]
  /\ UNCHANGED <<hostRow, txtRecord, recordSeen, hostCache, lookup>>
  /\ AnswersRefreshed

-----------------------------------------------------------------------------
(* The directory.                                                        *)

HostsRemembered(p) == {h \in Hosts : hostCache[p][h] # NoHostEntry}

\* Mutant: an entry that is asked for is as good as new.
HostHitRenewing(v, h, p) ==
  /\ lookup[v].step = "none" /\ hostCache[p][h].left > 0
  /\ hostCache' = [hostCache EXCEPT ![p][h].left = IF hostCache[p][h].answer = "unknown"
                                           THEN NegativeLife ELSE PositiveLife]
  /\ UNCHANGED <<lookup, answerAge>> /\ UNCHANGED hostVars

\* resolveVerifiedHost finds an entry that is alive and answers with it.
HostHit(v, h, p) ==
  /\ lookup[v].step = "none" /\ hostCache[p][h].left > 0
  /\ UNCHANGED sitesVars

\* It finds none, or one that is over, and asks the database.
HostMiss(v, h, p) ==
  /\ lookup[v].step = "none" /\ hostCache[p][h].left = 0
  /\ hostCache' = [hostCache EXCEPT ![p][h] = NoHostEntry]
  /\ lookup' = [lookup EXCEPT ![v] =
       [step |-> "read", host |-> h, process |-> p, answer |-> ResolveHost(h)]]
  /\ UNCHANGED answerAge /\ UNCHANGED hostVars

\* setCache: what another request stored meanwhile is written over, and while the
\* cache is full something else makes room.
StoreAnswer(v) ==
  LET h == lookup[v].host
      p == lookup[v].process
      entry == [answer |-> lookup[v].answer,
                left |-> IF lookup[v].answer = "unknown" THEN NegativeLife ELSE PositiveLife]
  IN
  /\ lookup[v].step = "read"
  /\ \E gone \in SUBSET HostsRemembered(p) :
       /\ Cardinality(gone) = IF Cardinality(HostsRemembered(p)) >= MaxCacheEntries
                              THEN Cardinality(HostsRemembered(p)) - MaxCacheEntries + 1 ELSE 0
       /\ hostCache' = [hostCache EXCEPT ![p] =
            [k \in Hosts |->
               IF k = h THEN entry ELSE IF k \in gone THEN NoHostEntry ELSE hostCache[p][k]]]
  /\ lookup' = [lookup EXCEPT ![v] = NoLookup]
  /\ UNCHANGED answerAge /\ UNCHANGED hostVars

\* One tick of the clock.  Bound: a look-up takes less than a tick.
DirectoryTick ==
  /\ \A v \in Visitors : lookup[v].step = "none"
  /\ hostCache' = [p \in Processes |-> [h \in Hosts |->
       [hostCache[p][h] EXCEPT !.left = IF @ = 0 THEN 0 ELSE @ - 1]]]
  /\ answerAge' = [h \in Hosts |-> [a \in HostAnswers |->
       IF a = ResolveHost(h) THEN 0
       ELSE answerAge[h][a] + (IF answerAge[h][a] > PositiveLife THEN 0 ELSE 1)]]
  /\ UNCHANGED lookup /\ UNCHANGED hostVars

-----------------------------------------------------------------------------
HostsNext ==
  \/ \E h \in Hosts : \/ ChangeRecord(h)
                      \/ \E custom \in BOOLEAN : CreateDomain(h, custom)
  \/ \E q \in SiteEditors :
       \/ \E h \in Hosts :
            \/ BeginVerification(q, h)
            \/ \E tls \in {"active", "failed"} : BeginTls(q, h, tls)
            \/ \E enabled, primary \in {"yes", "no", "same"} : BeginUpdate(q, h, enabled, primary)
       \/ LookUpRecord(q) \/ LockDomain(q) \/ BeginClearing(q) \/ FinishClearing(q)
       \/ UpdateDomain(q) \/ CommitDomain(q) \/ AbandonEdit(q)
       \/ BeginSettings(q) \/ \E new \in SiteRows : UpdateSettings(q, new)

LookupNext ==
  \/ \E v \in Visitors : \/ StoreAnswer(v)
                         \/ \E h \in Hosts, p \in Processes : HostHit(v, h, p) \/ HostMiss(v, h, p)
  \/ DirectoryTick

SitesNext == HostsNext \/ LookupNext

SitesSpec == SitesInit /\ [][SitesNext]_sitesVars

-----------------------------------------------------------------------------
(* Properties.                                                           *)

\* Whoever's answer a process gives, it was the database's not longer ago than
\* the process has remembered it: a domain that was disabled, or a merchant that
\* was suspended, is served for the life of an entry and no longer, although
\* look-ups race with changes, and a process forgets a host before the change.
AnswersAreRecent ==
  \A p \in Processes, h \in Hosts :
    LET entry == hostCache[p][h] IN
    entry.left > 0 =>
      answerAge[h][entry.answer] <=
        (IF entry.answer = "unknown" THEN NegativeLife ELSE PositiveLife) - entry.left

\* Each change is made by somebody whose page showed the row as it is.
ChangesSeeThePresent ==
  \A q \in SiteEditors : siteEdit[q] # NoSiteEdit /\ siteEdit'[q] = NoSiteEdit =>
    LET h == siteEdit[q].host IN
    /\ hostRow'[h] # hostRow[h] => hostRow[h] = siteEdit[q].shown
    /\ siteRow' # siteRow => siteRow = siteEdit[q].shown

\* A merchant that has a primary domain keeps one, unless a request says that it
\* shall not be the primary one: who takes the place also fills it.
PrimaryRemains ==
  LET HasPrimary(rows) == \E h \in Hosts : rows[h].primary IN
  HasPrimary(hostRow) /\ ~HasPrimary(hostRow') =>
    \E q \in SiteEditors :
      siteEdit[q] # NoSiteEdit /\ siteEdit'[q] = NoSiteEdit /\ siteEdit[q].primary = "no"

\* A customer's own domain is verified only if its record was seen.
ProvenIfVerified == \A h \in Hosts : hostRow[h].verified /\ hostRow[h].custom => h \in recordSeen

DomainsAreOwned == [][ChangesSeeThePresent /\ PrimaryRemains /\ ProvenIfVerified']_sitesVars
=============================================================================
