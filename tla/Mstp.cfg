SPECIFICATION MstpSpec
CONSTANTS
    Masters = {0, 1, 2}
    Nmax_master = 2
    Npoll = 2
    Nretry_token = 1
    Nmax_info_frames <- MCNmax_info_frames
    Tusage_timeout = 1
    Treply_timeout = 2
    Tno_token = 3
    Tslot = 1
    MaxUpsets = 1
    MaxSwitches = 1
INVARIANTS
    OneHolder
PROPERTIES
    Settles
    Returns
    Answered
