------------------------------ MODULE ApiDocs ------------------------------
(***************************************************************************)
(* The API the services document, and what api-gateway makes of it: the    *)
(* paths under which clients find the operations, the merged document and  *)
(* the way a request for one of its paths takes.  A path is the sequence   *)
(* of its segments; schemas are left out.                                  *)
(***************************************************************************)
EXTENDS Sequences, SequencesExt

AuthService == "auth-service"
TenantService == "tenant-service"
FilesService == "files-service"

Op(method, path) == [method |-> method, path |-> path]
Under(prefix, ops) == {Op(o.method, prefix \o o.path) : o \in ops}

-----------------------------------------------------------------------------
(* What each service serves *)

AuthOps == Under(<<"api", "auth">>,
    {Op("POST", <<"onboarding">>), Op("POST", <<"login">>),
     Op("POST", <<"logout">>), Op("POST", <<"refresh">>),
     Op("GET", <<"validate">>), Op("GET", <<"me">>), Op("PATCH", <<"me">>)})

PublicFilesOps == Under(<<"public", "files">>,
    {Op(m, <<"users", "me", "avatar">>) : m \in {"POST", "GET", "DELETE"}}
    \cup {Op("GET", <<"media", "{media_id}", "presign">>)})

InternalFilesOps == Under(<<"internal", "files">>,
    {Op("GET", <<"users", "{user_id}", "avatar">>),
     Op("GET", <<"media", "{media_id}", "presign">>)})

Operations(service) ==
    {Op("GET", <<"health">>)} \cup
    CASE service = AuthService   -> AuthOps
      [] service = FilesService  -> PublicFilesOps \cup InternalFilesOps
      [] service = TenantService -> {}

\* ServiceTokenMiddleware: a request needs a service token unless its path is
\* exempt.
ExemptPrefixes(service) == IF service = FilesService THEN {<<"public">>} ELSE {}

ExemptNothing(service, path) == \* mutant: exempt_paths is empty
    \E prefix \in ExemptPrefixes(service) : IsPrefix(prefix, path)

Exempt(service, path) ==
    \/ path = <<"health">>
    \/ \E prefix \in ExemptPrefixes(service) : IsPrefix(prefix, path)

Admits(service, path, hasToken) == hasToken \/ Exempt(service, path)

\* Paths the gateway answers itself, before the catch-all proxy route.
AnsweredHere(path) ==
    \/ path \in {<<"health">>, <<"health", "services">>,
                 <<"api", "openapi.json">>, <<"api", "docs">>}
    \/ path[1] \in {"media", "tutorials"}

-----------------------------------------------------------------------------
(* Forwarding *)

ServiceRoutes == [prefix \in {<<"api", "auth">>, <<"api", "tenants">>,
                              <<"api", "files">>, <<"api", "resolve">>} |->
                    CASE prefix[2] = "auth"  -> AuthService
                      [] prefix[2] = "files" -> FilesService
                      [] OTHER               -> TenantService]

Rewritten == <<"api", "files">>
RewrittenTo == <<"public", "files">>

Routed(path) == \E prefix \in DOMAIN ServiceRoutes : IsPrefix(prefix, path)

\* The prefixes are all of one length: the longest match is the only one.
GatewayPrefix(path) ==
    CHOOSE prefix \in DOMAIN ServiceRoutes : IsPrefix(prefix, path)

Upstream(path) == ServiceRoutes[GatewayPrefix(path)]

Replace(path, old, new) == new \o SubSeq(path, Len(old) + 1, Len(path))

UpstreamPath(path) ==
    IF GatewayPrefix(path) = Rewritten
    THEN Replace(path, Rewritten, RewrittenTo) ELSE path

-----------------------------------------------------------------------------
(* Merging *)

\* A legacy /{service} prefix is stripped first.
Bare(service, path) == IF IsPrefix(<<service>>, path) THEN Tail(path) ELSE path

Hidden(service, path) ==
    /\ service = FilesService
    /\ IsPrefix(<<"internal", "files">>, Bare(service, path))

NormalizeKeepsPublic(service, path) == \* mutant: /public/files is not mapped
    Bare(service, path)

Normalize(service, path) ==
    LET bare == Bare(service, path) IN
    IF service = FilesService /\ IsPrefix(RewrittenTo, bare)
    THEN Replace(bare, RewrittenTo, Rewritten) ELSE bare

Published(service) ==
    {Op(o.method, Normalize(service, o.path)) :
        o \in {p \in Operations(service) : ~Hidden(service, p.path)}}

\* One round of merge_openapi: the operation of a later service replaces that
\* of an earlier one, and keeps its tags.
MergeOne(doc, service) ==
    [o \in DOMAIN doc \cup Published(service) |->
        IF o \in Published(service)
        THEN [from |-> service,
              tags |-> {service} \cup
                       (IF o \in DOMAIN doc THEN doc[o].tags ELSE {})]
        ELSE doc[o]]

NoOps == [o \in {} |-> o]

\* merge_openapi: one round for each service whose specification was found, in
\* the order of the services.
MergeFound(found, doc, service) ==
    IF service \in found THEN MergeOne(doc, service) ELSE doc

Merged(services, found) ==
    LET Round(doc, service) == MergeFound(found, doc, service)
    IN  FoldLeft(Round, NoOps, services)

-----------------------------------------------------------------------------
\* A documented operation is one the gateway answers itself, or one that it
\* forwards to the service that documents it, under the path it has there.
Reachable(doc) ==
    \A o \in DOMAIN doc :
       \/ AnsweredHere(o.path)
       \/ /\ Routed(o.path)
          /\ Upstream(o.path) = doc[o].from
          /\ Op(o.method, UpstreamPath(o.path)) \in Operations(doc[o].from)

=============================================================================
