------------------------------ MODULE MCProgram ------------------------------
(* The job lists of all platforms, in one numbering.  The host route to the    *)
(* gateway (Linux) may have been there before.                               *)
EXTENDS Program, Sequences

Lists == INSTANCE JobLists

ModeOrder == <<"tun_linux", "tun_freebsd", "tun_darwin", "http_darwin", "socks5_darwin">>

MCMode == {ModeOrder[n] : n \in DOMAIN ModeOrder}

MCHost == {{"tun_linux"}, {"tun_freebsd"}, {"tun_darwin", "http_darwin", "socks5_darwin"}}

MCServerOf == [m \in MCMode |-> CASE m = "http_darwin"   -> "http"
                                  [] m = "socks5_darwin" -> "socks5"
                                  [] OTHER               -> "tun"]

MCTurn == [m \in MCMode |-> CHOOSE n \in DOMAIN Lists!ResetOrder : m \in Lists!ResetOrder[n]]

\* Ten numbers per mode.
MCFirst == [m \in MCMode |-> 10 * (CHOOSE n \in DOMAIN ModeOrder : ModeOrder[n] = m) + 1]

MCLast == [m \in MCMode |-> MCFirst[m] + Len(Lists!BuildJobs[m]) - 1]

Those(P(_)) ==
    UNION {{i \in MCFirst[m]..MCLast[m] : P(Lists!BuildJobs[m][i - MCFirst[m] + 1])} : m \in MCMode}

MCNoApply == Those(LAMBDA job : ~job.apply)

MCExclusive == Those(LAMBDA job : job.again = "error")

MCVolatile == Those(LAMBDA job : job.device = "tun")

\* A job on which later ones rest.
MCFlaky == {MCFirst[m] + 1 : m \in {"tun_linux", "tun_darwin"}}

MCForeign == {MCFirst["tun_linux"] + 3}
==============================================================================
