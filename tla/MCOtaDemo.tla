----------------------------- MODULE MCOtaDemo -----------------------------
(* Instances of the OTA demos for TLC.                                     *)
EXTENDS OtaDemo

\* URLs with and without a scheme, a host, a path and a query.
SmallUrls ==
  {<<"https", "://", "host", "/", "file", "?", "a", "/">>,
   <<"https", "://", "/", "file">>,
   <<"https", "://", "host">>,
   <<"https">>}

\* Every URL of a few parts: where getUrlAddress finds a host, that and what getUrlPath
\* finds are what stands behind the separator, cut at its first slash. (http_demo_utils.c)
ShortUrls == UNION {[1..n -> {"https", "://", "host", "/", "?"}] : n \in 0..5}
ASSUME UrlsSplit ==
  \A url \in ShortUrls :
    GetUrlAddress(url) # <<>> =>
      /\ At(GetUrlAddress(url), {"/"}) = {}
      /\ \E i \in At(url, {"://"}) :
           SubSeq(url, i + 1, Len(url)) = GetUrlAddress(url) \o GetUrlPath(url)
=============================================================================
