------------------------------ MODULE MCUrlQuery ------------------------------
(* Model-checking instance of UrlQuery.                                    *)
EXTENDS UrlQuery

MCCharOrder == <<"&", "=", "?", "a">>
MCNames  == {<<"a">>, <<"?">>}
MCValues == {<<>>, <<"=", "&">>}

\* "", "?a", "a&&", "%3F=%26=a"
MCQueries ==
  { <<>>, <<Raw("?"), Raw("a")>>, <<Raw("a"), Raw("&"), Raw("&")>>,
    percent_encode(<<"?">>) \o <<Raw("=")>> \o percent_encode(<<"&">>)
      \o <<Raw("="), Raw("a")>> }
===============================================================================
