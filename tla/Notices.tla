------------------------------ MODULE Notices ------------------------------
(***************************************************************************)
(* The site's information and the updates of its software in one modal:    *)
(* App.tsx (the effects that open it and load the information, the         *)
(* dismissals), AppModal.tsx, UpdatesPanel.tsx, stores/updates.ts and      *)
(* utils/infoCookie.ts.                                                    *)
(*                                                                         *)
(* The site's page is known by its hash, a release by when it came out.    *)
(* Effects run as in NodeDetails, those of the panel first.  A request     *)
(* whose effect was cleaned up is passed over as its answer comes, so one  *)
(* of each kind is under way.                                              *)
(***************************************************************************)
EXTENDS Integers, SequencesExt, FiniteSetsExt

CONSTANTS Servers,  \* what the server may have: [info, hash, sources, releases, latest]; a
                    \* source has the times of its releases in meta, the newest first, and
                    \* of the newest that its panel gets
          OtherHash,\* the hash after the site's page was changed
          Jars,     \* what the cookies may hold at first: [info, updates]
          Routes    \* bound: what addresses ask for: "information", a source or NoRoute

VARIABLES server, metaHash, \* meta.info_source_hash, NoHash before meta has come
          jar,              \* the cookies
          infoDismissedHash, updatesDismissedAt,
          appModalOpen, appModalActiveTab,
          route,            \* infoRouteRequested and updatesRouteRequestedSource
          owed,             \* what the last address asked for, until the user does something
          infoContent, infoLoading, infoError,
          infoRequested,    \* the information is asked for and not given up
          bySource, panelLoading, panelError, \* useUpdatesStore, as sets of sources
          panelRequest,     \* the source whose releases are asked for, or NoRoute
          seenNotices       \* what the effects last ran with

modalVars == <<appModalOpen, appModalActiveTab>>
dismissedVars == <<jar, infoDismissedHash, updatesDismissedAt>>
infoVars == <<infoContent, infoLoading, infoError, infoRequested>>
panelVars == <<bySource, panelLoading, panelError, panelRequest>>
noticeVars == <<server, metaHash, dismissedVars, modalVars, route, owed, infoVars, panelVars,
                seenNotices>>

NoHash == "no hash"
NoRoute == "no route"
Information == "information"

ASSUME NoticesAssumption ==
    /\ OtherHash # NoHash
    /\ \A s \in Servers :
          /\ DOMAIN s = {"info", "hash", "sources", "releases", "latest"}
          /\ s.hash # NoHash
          /\ {NoRoute, Information} \cap ToSet(s.sources) = {}
          /\ s.sources \in Seq(ToSet(s.sources))
          /\ \A source \in ToSet(s.sources) : s.releases[source] \in Seq(Nat)
    /\ \A j \in Jars : DOMAIN j = {"info", "updates"}

Meta == metaHash # NoHash
Info == Meta /\ server.info
Sources == IF Meta THEN ToSet(server.sources) ELSE {}

----------------------------------------------------------------------------
(* What is shown                                                           *)

\* The modal has a tab for the information and one for each source, and shows the first
\* when the active one is not there.
Tabs == (IF Info THEN <<Information>> ELSE <<>>) \o (IF Meta THEN server.sources ELSE <<>>)
ShownTab ==
    IF ~appModalOpen \/ Tabs = <<>> THEN NoRoute
    ELSE IF Contains(Tabs, appModalActiveTab) THEN appModalActiveTab ELSE Head(Tabs)
ShownPanel == IF ShownTab \in Sources THEN ShownTab ELSE NoRoute

\* The releases that came after the last one dismissed; all of them if none was.
NewerReleases(source) ==
    LET dismissed == updatesDismissedAt[source]
    IN  {i \in DOMAIN server.releases[source] :
            dismissed = 0 \/ server.releases[source][i] > dismissed}
HasUnread(source) ==
    \E i \in DOMAIN server.releases[source] :
        updatesDismissedAt[source] = 0 \/ server.releases[source][i] > updatesDismissedAt[source]
UpdatesUnread == Cardinality(UNION {{source} \X NewerReleases(source) : source \in Sources})

----------------------------------------------------------------------------
(* The effects                                                             *)

NoticeState ==
    [dismissed |-> infoDismissedHash, meta |-> metaHash, route |-> route,
     open |-> appModalOpen, tab |-> appModalActiveTab, content |-> infoContent,
     panel |-> ShownPanel, cached |-> ShownPanel \in bySource]
NoticesQuiet == seenNotices = NoticeState
Changed(f) == seenNotices[f] # NoticeState[f]

\* Mutant: a source that is being loaded is not asked for again.
PanelEffectUnlessLoading ==
    IF ~(Changed("panel") \/ Changed("cached")) THEN UNCHANGED panelVars
    ELSE /\ UNCHANGED bySource
         /\ IF ShownPanel = NoRoute \/ ShownPanel \in bySource \cup panelLoading
            THEN panelRequest' = NoRoute /\ UNCHANGED <<panelLoading, panelError>>
            ELSE /\ panelRequest' = ShownPanel
                 /\ panelLoading' = panelLoading \cup {ShownPanel}
                 /\ panelError' = panelError \ {ShownPanel}

\* UpdatesPanel asks for the releases unless they are there; what it asked for before is
\* given up, and stays marked as loading.
PanelEffect ==
    IF ~(Changed("panel") \/ Changed("cached")) THEN UNCHANGED panelVars
    ELSE /\ UNCHANGED bySource
         /\ IF ShownPanel = NoRoute \/ ShownPanel \in bySource
            THEN panelRequest' = NoRoute /\ UNCHANGED <<panelLoading, panelError>>
            ELSE /\ panelRequest' = ShownPanel
                 /\ panelLoading' = panelLoading \cup {ShownPanel}
                 /\ panelError' = panelError \ {ShownPanel}

\* The three effects that open the modal: a page that was not dismissed, the address of the
\* information, the address of a source.  The last one that runs names the tab.
OpeningEffects ==
    LET unread == /\ Changed("dismissed") \/ Changed("meta")
                  /\ Info /\ infoDismissedHash # metaHash
        asked  == (Changed("route") \/ Changed("meta")) /\ Info /\ route = Information
        source == Changed("route") /\ route \notin {NoRoute, Information}
    IN  /\ appModalOpen' = (appModalOpen \/ unread \/ asked \/ source)
        /\ appModalActiveTab' = IF source THEN route
                                ELSE IF unread \/ asked THEN Information ELSE appModalActiveTab

\* The information is asked for when its tab is open and what is there is not that of meta.
InfoEffect ==
    LET wanted == /\ appModalOpen /\ appModalActiveTab = Information
                  /\ Info /\ infoContent # metaHash
    IN  IF ~(\E f \in {"tab", "open", "content", "meta"} : Changed(f)) THEN UNCHANGED infoVars
        ELSE /\ infoRequested' = wanted
             /\ infoLoading' = (infoLoading \/ wanted)
             /\ infoError' = (infoError /\ ~wanted)
             /\ UNCHANGED infoContent

\* readUpdatesDismissedAt, for the sources of meta
DismissedEffect ==
    updatesDismissedAt' = IF Changed("meta") THEN jar.updates ELSE updatesDismissedAt

RunNoticeEffects ==
    /\ ~NoticesQuiet
    /\ PanelEffect /\ OpeningEffects /\ InfoEffect /\ DismissedEffect
    /\ seenNotices' = NoticeState
    /\ UNCHANGED <<server, metaHash, jar, infoDismissedHash, route, owed>>

----------------------------------------------------------------------------
(* The answers                                                             *)

LoadMeta ==
    /\ ~Meta
    /\ metaHash' = server.hash
    /\ UNCHANGED <<server, dismissedVars, modalVars, route, owed, infoVars, panelVars, seenNotices>>

\* The server's page is what it is now, which meta may not know of.
AnswerInfo ==
    /\ infoRequested
    /\ infoContent' = server.hash
    /\ infoRequested' = FALSE /\ infoLoading' = FALSE /\ infoError' = FALSE
    /\ UNCHANGED <<server, metaHash, dismissedVars, modalVars, route, owed, panelVars, seenNotices>>

FailInfo ==
    /\ infoRequested
    /\ infoRequested' = FALSE /\ infoLoading' = FALSE /\ infoError' = TRUE
    /\ UNCHANGED <<server, metaHash, dismissedVars, modalVars, route, owed, infoContent, panelVars,
                   seenNotices>>

AnswerUpdates ==
    /\ panelRequest # NoRoute
    /\ bySource' = bySource \cup {panelRequest}
    /\ panelLoading' = panelLoading \ {panelRequest}
    /\ panelError' = panelError \ {panelRequest}
    /\ panelRequest' = NoRoute
    /\ UNCHANGED <<server, metaHash, dismissedVars, modalVars, route, owed, infoVars, seenNotices>>

FailUpdates ==
    /\ panelRequest # NoRoute
    /\ panelLoading' = panelLoading \ {panelRequest}
    /\ panelError' = panelError \cup {panelRequest}
    /\ panelRequest' = NoRoute
    /\ UNCHANGED <<server, metaHash, dismissedVars, modalVars, route, owed, bySource, infoVars,
                   seenNotices>>

\* The operator changes the page of the site.
ChangeSiteInfo ==
    /\ server.info /\ server.hash # OtherHash
    /\ server' = [server EXCEPT !.hash = OtherHash]
    /\ UNCHANGED <<metaHash, dismissedVars, modalVars, route, owed, infoVars, panelVars, seenNotices>>

----------------------------------------------------------------------------
(* The user                                                                *)

\* A handler finds the page rendered and its effects run.
ByUser ==
    /\ NoticesQuiet
    /\ UNCHANGED <<server, metaHash, infoVars, panelVars, seenNotices>>

\* The link in the header, which is there for the information and for unread updates,
\* opens the modal for the information alone; its address asks for the same.
OpenInfoModal ==
    /\ ByUser
    /\ Info \/ UpdatesUnread > 0
    /\ IF Info THEN appModalOpen' = TRUE /\ appModalActiveTab' = Information ELSE UNCHANGED modalVars
    /\ route' = Information /\ owed' = Information
    /\ UNCHANGED dismissedVars

\* An address comes that asks for something or for nothing.
FollowAddress(asked) ==
    /\ ByUser
    /\ route' = asked
    /\ owed' = IF asked = route THEN NoRoute ELSE asked
    /\ UNCHANGED <<modalVars, dismissedVars>>

CloseAppModal ==
    /\ ByUser
    /\ ShownTab # NoRoute
    /\ appModalOpen' = FALSE /\ UNCHANGED appModalActiveTab
    /\ owed' = NoRoute
    /\ UNCHANGED <<route, dismissedVars>>

SelectTab(id) ==
    /\ ByUser
    /\ ShownTab # NoRoute /\ Contains(Tabs, id)
    /\ appModalActiveTab' = id /\ UNCHANGED appModalOpen
    /\ owed' = NoRoute
    /\ UNCHANGED <<route, dismissedVars>>

DismissInfo ==
    /\ ByUser
    /\ ShownTab = Information
    /\ jar' = [jar EXCEPT !.info = metaHash]
    /\ infoDismissedHash' = metaHash
    /\ appModalOpen' = FALSE /\ UNCHANGED appModalActiveTab
    /\ owed' = NoRoute
    /\ UNCHANGED <<route, updatesDismissedAt>>

\* "Mark as read" takes the newest release: the modal's button that of meta, the panel's
\* own, which is there when something newer than the last dismissed one is, that of the panel.
NewestShown(source) ==
    {server.releases[source][i] : i \in DOMAIN server.releases[source] \cap {1}}
    \cup {t \in {server.latest[source]} : source \in bySource
                                            /\ 0 < updatesDismissedAt[source]
                                            /\ updatesDismissedAt[source] < t}

DismissUpdates(source) ==
    /\ ByUser
    /\ ShownTab = source
    /\ \E published \in NewestShown(source) :
          /\ updatesDismissedAt' = [updatesDismissedAt EXCEPT ![source] = published]
          /\ jar' = [jar EXCEPT !.updates[source] = published]
    /\ owed' = NoRoute
    /\ UNCHANGED <<route, modalVars, infoDismissedHash>>

\* The page is loaded again; its address asks for the same, or another was written since.
ReloadNotices ==
    /\ NoticesQuiet
    /\ \E asked \in {route, NoRoute} : route' = asked /\ owed' = asked
    /\ metaHash' = NoHash
    /\ infoDismissedHash' = jar.info
    /\ updatesDismissedAt' = [s \in DOMAIN jar.updates |-> 0]
    /\ appModalOpen' = FALSE /\ appModalActiveTab' = Information
    /\ infoContent' = NoHash /\ infoLoading' = FALSE /\ infoError' = FALSE
    /\ infoRequested' = FALSE
    /\ bySource' = {} /\ panelLoading' = {} /\ panelError' = {} /\ panelRequest' = NoRoute
    /\ seenNotices' = [NoticeState' EXCEPT !.route = NoRoute]
    /\ UNCHANGED <<server, jar>>

NoticesInit ==
    /\ server \in Servers
    /\ jar \in {j \in Jars : DOMAIN j.updates = ToSet(server.sources)}
    /\ route \in Routes /\ owed = route
    /\ metaHash = NoHash
    /\ infoDismissedHash = jar.info
    /\ updatesDismissedAt = [s \in DOMAIN jar.updates |-> 0]
    /\ appModalOpen = FALSE /\ appModalActiveTab = Information
    /\ infoContent = NoHash /\ infoLoading = FALSE /\ infoError = FALSE
    /\ infoRequested = FALSE
    /\ bySource = {} /\ panelLoading = {} /\ panelError = {} /\ panelRequest = NoRoute
    /\ seenNotices = [NoticeState EXCEPT !.route = NoRoute]

NoticesNext ==
    \/ RunNoticeEffects
    \/ LoadMeta \/ AnswerInfo \/ FailInfo \/ AnswerUpdates \/ FailUpdates \/ ChangeSiteInfo
    \/ OpenInfoModal \/ CloseAppModal \/ DismissInfo
    \/ \E asked \in Routes : FollowAddress(asked)
    \/ \E id \in ToSet(server.sources) \cup {Information} : SelectTab(id)
    \/ \E source \in ToSet(server.sources) : DismissUpdates(source)
    \/ ReloadNotices

NoticesSpec == NoticesInit /\ [][NoticesNext]_noticeVars

----------------------------------------------------------------------------
(* Properties                                                              *)

\* When the effects have run: a tab that is shown has what it is for, or waits for an answer
\* that will come, or shows an error, however often tabs were changed and requests given
\* up; what was dismissed stays so over a reload; the dots and the badge agree; and what an
\* address asks for is shown as soon as meta is there.  Let out: a page that was changed
\* after meta was read, which is shown empty; the address of a source there is not, which
\* shows the information without loading it; and a page that was not dismissed, which takes
\* the place of the source an address asks for.
NoticesAgree ==
    NoticesQuiet =>
        /\ ShownTab = Information /\ appModalActiveTab = Information =>
              /\ infoLoading <=> infoRequested
              /\ infoContent = metaHash \/ infoLoading \/ infoError \/ server.hash # metaHash
        /\ ShownPanel # NoRoute =>
              /\ ShownPanel \in panelLoading <=> panelRequest = ShownPanel
              /\ ShownPanel \in bySource \cup panelLoading \cup panelError
        /\ infoDismissedHash = jar.info
        /\ Meta => updatesDismissedAt = jar.updates
        /\ UpdatesUnread > 0 <=> \E s \in Sources : HasUnread(s)
        /\ Meta /\ Contains(Tabs, owed) =>
              ShownTab = owed \/ (Info /\ infoDismissedHash # metaHash)

=============================================================================
