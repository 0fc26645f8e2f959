\* Handlers that die before their cleanup.
CONSTANTS
    c1 = c1
    c2 = c2
    c3 = c3
    a1 = a1
    a2 = a2
    ip1 = ip1
    ip2 = ip2
    mp1 = mp1
    mp2 = mp2
    None = None
    Conn = {c1, c2, c3}
    Addr = {a1, a2}
    Ip = {ip1, ip2}
    Mountpoint = {mp1, mp2}
    AddrOf <- MCAddrOf
    IpOf <- MCIpOf
    Configs <- MCConfigs
SPECIFICATION Spec
INVARIANTS
    NoGhosts
